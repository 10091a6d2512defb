--------------------------- MODULE TileBuildProofs ---------------------------
(***************************************************************************)
(* Proofs about TileBuild: as long as only processes stop, the rows and    *)
(* files of the cache directory always hold what a clean build would       *)
(* write, so an interrupted build can be resumed and converges.            *)
(***************************************************************************)
EXTENDS TileBuild, TLAPS

-----------------------------------------------------------------------------
(* The inductive invariant *)

FilesClean ==
  \A t \in Tiles, c \in Configs :
    /\ core[<<t, c>>] \in {None, Elevation[c][t]}
    /\ quantized[<<t, c>>] \in {None, CleanCodes(c, t)}
    /\ encoded[<<t, c>>] \in {None, CleanContent(c, t)}

\* A tile of the running build.
TileInv(t) ==
  /\ pc[t] \in {"reused", "complete", "coreless", "released"}
       => row[t].state = "complete" /\ row[t].dependency = config
  /\ pc[t] \in {"reused", "quantized", "written", "complete", "coreless", "released"}
       => draft[t] = CleanContent(config, t) /\ quantized[Mine(t)] # None
  /\ pc[t] \in {"written", "complete", "coreless", "released"} => encoded[Mine(t)] # None
  /\ pc[t] \in {"marked", "staged", "prepared", "quantized", "written"}
       => row[t].state = "building" /\ row[t].dependency = config
  /\ pc[t] \in {"staged", "prepared"} => core[Mine(t)] # None
  /\ pc[t] \in {"coreless", "released"} => core[Mine(t)] = None
  /\ pc[t] = "prepared" => Mine(t) \in auxiliary
  /\ pc[t] = "released" => Mine(t) \notin auxiliary

\* Where the tiles of each level stand.
LevelInv(t) ==
  /\ LevelOf[t] < level \/ phase = "pack" => pc[t] \in {"reused", "released"}
  /\ LevelOf[t] > level => pc[t] = "waiting"
  /\ LevelOf[t] = level /\ phase = "prepare" =>
       pc[t] \in {"waiting", "unread", "reused", "marked", "staged", "prepared", "failed"}
  /\ LevelOf[t] = level /\ phase = "encode" =>
       /\ pc[t] \in {"prepared", "reused", "quantized", "written", "complete", "failed"}
       /\ pc[t] # "reused" => core[Mine(t)] # None
  /\ LevelOf[t] = level /\ phase = "release" =>
       pc[t] \in {"complete", "coreless", "released", "reused"}

\* The running build: no failure of it comes from what it found on disk.
BuildInv ==
  /\ failure \in {"none", "cancelled", "failed"}
  /\ phase \in {"release", "pack"} => failure = "none"
  /\ phase = "pack" => level = MaxLevel
  /\ \A t \in Tiles : TileInv(t) /\ LevelInv(t)

SuccessInv ==
  \A t \in Tiles : /\ draft[t] = CleanContent(config, t)
                   /\ pc[t] \in {"reused", "released"}
                   /\ pc[t] = "released" => core[Mine(t)] = None /\ Mine(t) \notin auxiliary

IInv ==
  /\ TypeOK
  /\ FilesClean
  /\ CompleteRowsResumable
  /\ phase # "idle" => BuildInv /\ result = "none"
  /\ phase = "idle" => failure = "none"
  /\ InterruptedBuildResumes
  /\ result = "success" => SuccessInv

-----------------------------------------------------------------------------
(* What a task computes from the files is what a clean build computes *)

\* Quantizing a dequantized code gives the code back.
LEMMA QuantizeDequantize ==
  \A code \in Nat : Quantize(Dequantize(code)) = code
  BY DEF Quantize, Dequantize

\* Codes are natural numbers.
LEMMA QuantizeNat ==
  \A e \in Nat : Quantize(e) \in Nat
  BY DEF Quantize

\* The codes of a clean build, written out.
LEMMA CleanCodesAre ==
  ASSUME NEW c \in Configs, NEW t \in Tiles
  PROVE  /\ CleanCodes(c, t).inside = Quantize(Elevation[c][t])
         /\ \A n \in Neighbors[t] :
              CleanCodes(c, t).edge[n] =
                Quantize(IF n < t THEN Elevation[c][n] ELSE Elevation[c][t])
  BY PlanAssumption DEF CleanCodes, Codes, CleanSamples, RawSamples

\* A tile is read the same way from its raw core and from its codes: inside, and
\* on the edges it owns.
LEMMA SamplesLikeClean ==
  ASSUME FilesClean, config \in Configs, NEW t \in Tiles, Loadable(t)
  PROVE  /\ Quantize(Samples(t).inside) = Quantize(Elevation[config][t])
         /\ \A n \in Neighbors[t] : t < n =>
              Quantize(Samples(t).edge[n]) = Quantize(Elevation[config][t])
<1>1. CASE core[Mine(t)] # None
  BY <1>1 DEF FilesClean, Mine, Samples, RawSamples
<1>2. CASE core[Mine(t)] = None
  <2> DEFINE own == CleanCodes(config, t)
  <2>1. quantized[Mine(t)] = own
    BY <1>2 DEF Loadable, FilesClean, Mine
  <2>2. Elevation[config][t] \in Nat
    BY ValueAssumption
  <2>3. own.inside = Quantize(Elevation[config][t])
    BY CleanCodesAre
  <2>4. \A n \in Neighbors[t] : t < n => own.edge[n] = Quantize(Elevation[config][t])
    <3> SUFFICES ASSUME NEW n \in Neighbors[t], t < n
                 PROVE  own.edge[n] = Quantize(Elevation[config][t])
      OBVIOUS
    <3>1. t \in Nat /\ n \in Nat
      BY PlanAssumption
    <3>2. ~(n < t)
      BY <3>1
    <3> QED BY <3>2, CleanCodesAre
  <2>5. Samples(t) = CodeSamples(t, own)
    BY <1>2, <2>1 DEF Samples
  <2> HIDE DEF own
  <2>6. Samples(t).inside = Dequantize(own.inside)
    BY <2>5 DEF CodeSamples
  <2>7. \A n \in Neighbors[t] : Samples(t).edge[n] = Dequantize(own.edge[n])
    BY <2>5 DEF CodeSamples
  <2>8. Quantize(Dequantize(Quantize(Elevation[config][t]))) = Quantize(Elevation[config][t])
    BY <2>2, QuantizeNat, QuantizeDequantize
  <2> QED BY <2>3, <2>4, <2>6, <2>7, <2>8
<1> QED BY <1>1, <1>2

\* The seams of a resumed build resolve to the codes of a clean build.
LEMMA FoundCodesClean ==
  ASSUME FilesClean, config \in Configs, NEW t \in Tiles, Loadable(t),
         \A n \in Neighbors[t] : Loadable(n)
  PROVE  FoundCodes(t) = CleanCodes(config, t)
<1>1. Neighbors[t] \subseteq Tiles
  BY PlanAssumption
<1>2. Quantize(Samples(t).inside) = Quantize(CleanSamples(config)[t].inside)
  BY SamplesLikeClean DEF CleanSamples, RawSamples
<1>3. ASSUME NEW n \in Neighbors[t]
      PROVE  Quantize(IF n < t THEN Samples(n).edge[t] ELSE Samples(t).edge[n])
               = Quantize(IF n < t THEN CleanSamples(config)[n].edge[t]
                                   ELSE CleanSamples(config)[t].edge[n])
  <2>1. n \in Tiles /\ t \in Neighbors[n] /\ n # t /\ n \in Nat /\ t \in Nat
    BY PlanAssumption
  <2>2. CASE n < t
    <3>1. Quantize(Samples(n).edge[t]) = Quantize(Elevation[config][n])
      BY <2>1, <2>2, SamplesLikeClean
    <3>2. CleanSamples(config)[n].edge[t] = Elevation[config][n]
      BY <2>1 DEF CleanSamples, RawSamples
    <3> QED BY <2>2, <3>1, <3>2
  <2>3. CASE ~(n < t)
    <3>0. t < n
      BY <2>1, <2>3
    <3>1. Quantize(Samples(t).edge[n]) = Quantize(Elevation[config][t])
      BY <3>0, SamplesLikeClean
    <3>2. CleanSamples(config)[t].edge[n] = Elevation[config][t]
      BY DEF CleanSamples, RawSamples
    <3> QED BY <2>3, <3>1, <3>2
  <2> QED BY <2>2, <2>3
<1>4. /\ FoundSamples(t)[t] = Samples(t)
      /\ \A n \in Neighbors[t] : FoundSamples(t)[n] = Samples(n)
  BY DEF FoundSamples
<1> QED BY <1>2, <1>3, <1>4 DEF FoundCodes, CleanCodes, Codes

\* And the encoded tile is that of a clean build.
LEMMA FoundContentClean ==
  ASSUME FilesClean, config \in Configs, NEW t \in Tiles, InputsPresent(t)
  PROVE  /\ FoundCodes(t) = CleanCodes(config, t)
         /\ FoundContent(t) = CleanContent(config, t)
<1>1. FoundCodes(t) = CleanCodes(config, t)
  BY FoundCodesClean DEF InputsPresent
<1>2. \A n \in Neighbors[t] :
        Quantize(FoundSamples(t)[n].inside) = Quantize(CleanSamples(config)[n].inside)
  <2> SUFFICES ASSUME NEW n \in Neighbors[t]
               PROVE  Quantize(FoundSamples(t)[n].inside)
                        = Quantize(CleanSamples(config)[n].inside)
    OBVIOUS
  <2>1. n \in Tiles /\ Loadable(n)
    BY PlanAssumption DEF InputsPresent
  <2>2. FoundSamples(t)[n] = Samples(n)
    BY DEF FoundSamples
  <2>3. CleanSamples(config)[n].inside = Elevation[config][n]
    BY <2>1 DEF CleanSamples, RawSamples
  <2> QED BY <2>1, <2>2, <2>3, SamplesLikeClean
<1>3. LevelOf[t] # 0 => quantized[<<ParentOf[t], config>>] = CleanCodes(config, ParentOf[t])
  BY PlanAssumption DEF InputsPresent, FilesClean
<1> QED BY <1>1, <1>2, <1>3 DEF FoundContent, CleanContent, Content

-----------------------------------------------------------------------------
(* Every step preserves the invariant *)

\* What an action on a tile of the current level may take for granted.
LEMMA TileContext ==
  ASSUME IInv, phase # "idle", NEW t \in Current
  PROVE  /\ t \in Tiles /\ LevelOf[t] = level /\ level \in 0 .. MaxLevel
         /\ config \in Configs /\ Mine(t) \in Artifacts
         /\ BuildInv /\ TypeOK /\ FilesClean /\ CompleteRowsResumable
         /\ result = "none" /\ InterruptedBuildResumes
  BY DEF IInv, TypeOK, Current, AtLevel, Mine, Artifacts

\* A task that gives up, for any other reason than what it found on disk.
LEMMA TaskFailsStep ==
  ASSUME IInv, NEW t \in Current, phase \in {"prepare", "encode"},
         phase = "prepare" => pc[t] \in {"waiting", "unread", "marked", "staged"},
         phase = "encode" => pc[t] \in {"prepared", "quantized", "written"},
         NEW why \in {"cancelled", "failed"}, TaskFails(t, why)
  PROVE  IInv'
<1>1. TypeOK /\ t \in Tiles /\ LevelOf[t] = level /\ BuildInv
  BY TileContext
<1>2. TypeOK'
  BY <1>1 DEF TypeOK, TaskFails, Goto, files, control, context
<1>3. FilesClean' /\ CompleteRowsResumable'
  BY DEF IInv, TaskFails, files, FilesClean, CompleteRowsResumable
<1>4. ASSUME NEW s \in Tiles
      PROVE  TileInv(s)' /\ LevelInv(s)'
  <2>1. CASE s = t
    BY <1>1, <2>1 DEF BuildInv, TileInv, LevelInv, TaskFails, Goto, files, control, context,
      Mine, TypeOK
  <2>2. CASE s # t
    BY <1>1, <2>2 DEF BuildInv, TileInv, LevelInv, TaskFails, Goto, files, control, context,
      Mine, TypeOK
  <2> QED BY <2>1, <2>2
<1>5. BuildInv'
  BY <1>1, <1>4 DEF BuildInv, TaskFails, control
<1> QED BY <1>1, <1>2, <1>3, <1>5 DEF IInv, TaskFails, control, InterruptedBuildResumes

\* A completed tile of the configuration is loaded, not built.
LEMMA ReuseTileStep ==
  ASSUME IInv, NEW t \in Current, ReuseTile(t)
  PROVE  IInv'
<1>0. phase # "idle"
  BY DEF ReuseTile
<1>1. /\ TypeOK /\ t \in Tiles /\ LevelOf[t] = level /\ BuildInv /\ FilesClean
      /\ config \in Configs /\ CompleteRowsResumable /\ result = "none"
  BY <1>0, TileContext
<1>2. TileInv(t) /\ LevelInv(t)
  BY <1>1 DEF BuildInv
<1>4. TypeOK'
  BY <1>1, ValueAssumption DEF TypeOK, ReuseTile, Reusable, Goto, files, control, context,
    Mine, Artifacts
<1>5. FilesClean' /\ CompleteRowsResumable'
  BY <1>1, <1>2, ValueAssumption, NoneIsNoContent DEF TypeOK, FilesClean,
    CompleteRowsResumable, TileInv, ReuseTile, Reusable, Goto, files, control, context,
    Mine, Artifacts
<1>6. ASSUME NEW s \in Tiles
      PROVE  TileInv(s)' /\ LevelInv(s)'
  <2>1. TileInv(s) /\ LevelInv(s)
    BY <1>1 DEF BuildInv
  <2>2. CASE s = t
    BY <1>1, <1>2, <2>1, <2>2, ValueAssumption, NoneIsNoContent DEF
      CompleteRowsResumable, FilesClean, TypeOK, TileInv, LevelInv, ReuseTile, Reusable,
      Goto, files, control, context, Mine, Artifacts
  <2>3. CASE s # t
    BY <1>1, <1>2, <2>1, <2>3, ValueAssumption, NoneIsNoContent DEF
      CompleteRowsResumable, FilesClean, TypeOK, TileInv, LevelInv, ReuseTile, Reusable,
      Goto, files, control, context, Mine, Artifacts
  <2> QED BY <2>2, <2>3
<1>7. BuildInv'
  BY <1>0, <1>1, <1>6 DEF BuildInv, ReuseTile, control
<1> QED BY <1>1, <1>4, <1>5, <1>7 DEF IInv, ReuseTile, control, InterruptedBuildResumes

\* The task that could not read the encoded tile has changed nothing yet.
LEMMA ReadFailsStep ==
  ASSUME IInv, NEW t \in Current, ReadFails(t)
  PROVE  IInv'
<1>0. phase # "idle" /\ phase = "prepare"
  BY DEF ReadFails
<1>1. TypeOK /\ t \in Tiles /\ LevelOf[t] = level /\ BuildInv
  BY <1>0, TileContext
<1>2. UNCHANGED <<row, core, auxiliary, quantized, encoded, phase, level, config, incremental,
                  attempts, draft, failure, cancelRequested, result>>
  BY DEF ReadFails, files, control, context
<1>3. pc' = [pc EXCEPT ![t] = "unread"]
  BY DEF ReadFails, Goto
<1>4. TypeOK'
  BY <1>1, <1>2, <1>3 DEF TypeOK
<1>5. FilesClean' /\ CompleteRowsResumable'
  BY <1>2 DEF IInv, FilesClean, CompleteRowsResumable
<1>6. ASSUME NEW s \in Tiles
      PROVE  TileInv(s)' /\ LevelInv(s)'
  <2>1. TileInv(s) /\ LevelInv(s) /\ DOMAIN pc = Tiles
    BY <1>1 DEF BuildInv, TypeOK
  <2>2. CASE s = t
    BY <1>0, <1>1, <1>2, <1>3, <2>1, <2>2 DEF TileInv, LevelInv, Mine
  <2>3. CASE s # t
    BY <1>1, <1>2, <1>3, <2>1, <2>3 DEF TileInv, LevelInv, Mine
  <2> QED BY <2>2, <2>3
<1>7. BuildInv'
  BY <1>1, <1>2, <1>6 DEF BuildInv
<1> QED BY <1>0, <1>2, <1>4, <1>5, <1>7 DEF IInv, InterruptedBuildResumes

\* The row of a tile that will be built leaves the completed rows.
LEMMA MarkTileBuildingStep ==
  ASSUME IInv, NEW t \in Current, MarkTileBuilding(t)
  PROVE  IInv'
<1>0. phase # "idle"
  BY DEF MarkTileBuilding
<1>1. /\ TypeOK /\ t \in Tiles /\ LevelOf[t] = level /\ BuildInv /\ FilesClean
      /\ config \in Configs /\ CompleteRowsResumable /\ result = "none"
  BY <1>0, TileContext
<1>2. TileInv(t) /\ LevelInv(t)
  BY <1>1 DEF BuildInv
<1>4. TypeOK'
  BY <1>1, ValueAssumption DEF TypeOK, MarkTileBuilding, Goto, files, control, context,
    Mine, Artifacts
<1>5. FilesClean' /\ CompleteRowsResumable'
  BY <1>1, <1>2, ValueAssumption, NoneIsNoContent DEF TypeOK, FilesClean,
    CompleteRowsResumable, TileInv, MarkTileBuilding, Goto, files, control, context, Mine,
    Artifacts
<1>6. ASSUME NEW s \in Tiles
      PROVE  TileInv(s)' /\ LevelInv(s)'
  <2>1. TileInv(s) /\ LevelInv(s)
    BY <1>1 DEF BuildInv
  <2>2. CASE s = t
    BY <1>1, <1>2, <2>1, <2>2, ValueAssumption, NoneIsNoContent DEF
      CompleteRowsResumable, FilesClean, TypeOK, TileInv, LevelInv, MarkTileBuilding,
      Goto, files, control, context, Mine, Artifacts
  <2>3. CASE s # t
    BY <1>1, <1>2, <2>1, <2>3, ValueAssumption, NoneIsNoContent DEF
      CompleteRowsResumable, FilesClean, TypeOK, TileInv, LevelInv, MarkTileBuilding,
      Goto, files, control, context, Mine, Artifacts
  <2> QED BY <2>2, <2>3
<1>7. BuildInv'
  BY <1>0, <1>1, <1>6 DEF BuildInv, MarkTileBuilding, control
<1> QED BY <1>1, <1>4, <1>5, <1>7 DEF IInv, MarkTileBuilding, control,
  InterruptedBuildResumes

\* The raw core is that of the configuration.
LEMMA StageCoreStep ==
  ASSUME IInv, NEW t \in Current, StageCore(t)
  PROVE  IInv'
<1>0. phase # "idle"
  BY DEF StageCore
<1>1. /\ TypeOK /\ t \in Tiles /\ LevelOf[t] = level /\ BuildInv /\ FilesClean
      /\ config \in Configs /\ CompleteRowsResumable /\ result = "none"
  BY <1>0, TileContext
<1>2. TileInv(t) /\ LevelInv(t)
  BY <1>1 DEF BuildInv
<1>4. TypeOK'
  BY <1>1, ValueAssumption DEF TypeOK, StageCore, Persist, Goto, files, control, context,
    Mine, Artifacts
<1>5. FilesClean' /\ CompleteRowsResumable'
  BY <1>1, <1>2, ValueAssumption, NoneIsNoContent DEF TypeOK, FilesClean,
    CompleteRowsResumable, TileInv, StageCore, Persist, Goto, files, control, context,
    Mine, Artifacts
<1>6. ASSUME NEW s \in Tiles
      PROVE  TileInv(s)' /\ LevelInv(s)'
  <2>1. TileInv(s) /\ LevelInv(s)
    BY <1>1 DEF BuildInv
  <2>2. CASE s = t
    BY <1>1, <1>2, <2>1, <2>2, ValueAssumption, NoneIsNoContent DEF
      CompleteRowsResumable, FilesClean, TypeOK, TileInv, LevelInv, StageCore, Persist,
      Goto, files, control, context, Mine, Artifacts
  <2>3. CASE s # t
    BY <1>1, <1>2, <2>1, <2>3, ValueAssumption, NoneIsNoContent DEF
      CompleteRowsResumable, FilesClean, TypeOK, TileInv, LevelInv, StageCore, Persist,
      Goto, files, control, context, Mine, Artifacts
  <2> QED BY <2>2, <2>3
<1>7. BuildInv'
  BY <1>0, <1>1, <1>6 DEF BuildInv, StageCore, control
<1> QED BY <1>1, <1>4, <1>5, <1>7 DEF IInv, StageCore, control, InterruptedBuildResumes

\* The auxiliary file is there before the tile is finalized.
LEMMA StageAuxiliaryStep ==
  ASSUME IInv, NEW t \in Current, StageAuxiliary(t)
  PROVE  IInv'
<1>0. phase # "idle"
  BY DEF StageAuxiliary
<1>1. /\ TypeOK /\ t \in Tiles /\ LevelOf[t] = level /\ BuildInv /\ FilesClean
      /\ config \in Configs /\ CompleteRowsResumable /\ result = "none"
  BY <1>0, TileContext
<1>2. TileInv(t) /\ LevelInv(t)
  BY <1>1 DEF BuildInv
<1>4. TypeOK'
  BY <1>1, ValueAssumption DEF TypeOK, StageAuxiliary, Goto, files, control, context,
    Mine, Artifacts
<1>5. FilesClean' /\ CompleteRowsResumable'
  BY <1>1, <1>2, ValueAssumption, NoneIsNoContent DEF TypeOK, FilesClean,
    CompleteRowsResumable, TileInv, StageAuxiliary, Goto, files, control, context, Mine,
    Artifacts
<1>6. ASSUME NEW s \in Tiles
      PROVE  TileInv(s)' /\ LevelInv(s)'
  <2>1. TileInv(s) /\ LevelInv(s)
    BY <1>1 DEF BuildInv
  <2>2. CASE s = t
    BY <1>1, <1>2, <2>1, <2>2, ValueAssumption, NoneIsNoContent DEF
      CompleteRowsResumable, FilesClean, TypeOK, TileInv, LevelInv, StageAuxiliary,
      Goto, files, control, context, Mine, Artifacts
  <2>3. CASE s # t
    BY <1>1, <1>2, <2>1, <2>3, ValueAssumption, NoneIsNoContent DEF
      CompleteRowsResumable, FilesClean, TypeOK, TileInv, LevelInv, StageAuxiliary,
      Goto, files, control, context, Mine, Artifacts
  <2> QED BY <2>2, <2>3
<1>7. BuildInv'
  BY <1>0, <1>1, <1>6 DEF BuildInv, StageAuxiliary, control
<1> QED BY <1>1, <1>4, <1>5, <1>7 DEF IInv, StageAuxiliary, control, InterruptedBuildResumes

\* The codes are those of a clean build, whatever their neighbors were read from.
LEMMA FinalizeTileStep ==
  ASSUME IInv, NEW t \in Current, FinalizeTile(t)
  PROVE  IInv'
<1>0. phase # "idle"
  BY DEF FinalizeTile
<1>1. /\ TypeOK /\ t \in Tiles /\ LevelOf[t] = level /\ BuildInv /\ FilesClean
      /\ config \in Configs /\ CompleteRowsResumable /\ result = "none"
  BY <1>0, TileContext
<1>2. TileInv(t) /\ LevelInv(t)
  BY <1>1 DEF BuildInv
<1>3. FoundCodes(t) = CleanCodes(config, t) /\ FoundContent(t) = CleanContent(config, t)
  BY <1>1, FoundContentClean DEF FinalizeTile
<1>4. TypeOK'
  BY <1>1, <1>3, ValueAssumption DEF TypeOK, FinalizeTile, Persist, Goto, files, control,
    context, Mine, Artifacts
<1>5. FilesClean' /\ CompleteRowsResumable'
  BY <1>1, <1>2, <1>3, ValueAssumption, NoneIsNoContent DEF TypeOK, FilesClean,
    CompleteRowsResumable, TileInv, FinalizeTile, Persist, Goto, files, control, context,
    Mine, Artifacts
<1>6. ASSUME NEW s \in Tiles
      PROVE  TileInv(s)' /\ LevelInv(s)'
  <2>1. TileInv(s) /\ LevelInv(s)
    BY <1>1 DEF BuildInv
  <2>2. CASE s = t
    BY <1>1, <1>2, <1>3, <2>1, <2>2, ValueAssumption, NoneIsNoContent DEF
      CompleteRowsResumable, FilesClean, TypeOK, TileInv, LevelInv, FinalizeTile,
      Persist, Goto, files, control, context, Mine, Artifacts
  <2>3. CASE s # t
    BY <1>1, <1>2, <1>3, <2>1, <2>3, ValueAssumption, NoneIsNoContent DEF
      CompleteRowsResumable, FilesClean, TypeOK, TileInv, LevelInv, FinalizeTile,
      Persist, Goto, files, control, context, Mine, Artifacts
  <2> QED BY <2>2, <2>3
<1>7. BuildInv'
  BY <1>0, <1>1, <1>6 DEF BuildInv, FinalizeTile, control
<1> QED BY <1>1, <1>4, <1>5, <1>7 DEF IInv, FinalizeTile, control, InterruptedBuildResumes

\* The encoded tile is written before its row is completed.
LEMMA PersistEncodedStep ==
  ASSUME IInv, NEW t \in Current, PersistEncoded(t)
  PROVE  IInv'
<1>0. phase # "idle"
  BY DEF PersistEncoded
<1>1. /\ TypeOK /\ t \in Tiles /\ LevelOf[t] = level /\ BuildInv /\ FilesClean
      /\ config \in Configs /\ CompleteRowsResumable /\ result = "none"
  BY <1>0, TileContext
<1>2. TileInv(t) /\ LevelInv(t)
  BY <1>1 DEF BuildInv
<1>4. TypeOK'
  BY <1>1, ValueAssumption DEF TypeOK, PersistEncoded, Persist, Goto, files, control,
    context, Mine, Artifacts
<1>5. FilesClean' /\ CompleteRowsResumable'
  BY <1>1, <1>2, ValueAssumption, NoneIsNoContent DEF TypeOK, FilesClean,
    CompleteRowsResumable, TileInv, PersistEncoded, Persist, Goto, files, control,
    context, Mine, Artifacts
<1>6. ASSUME NEW s \in Tiles
      PROVE  TileInv(s)' /\ LevelInv(s)'
  <2>1. TileInv(s) /\ LevelInv(s)
    BY <1>1 DEF BuildInv
  <2>2. CASE s = t
    BY <1>1, <1>2, <2>1, <2>2, ValueAssumption, NoneIsNoContent DEF
      CompleteRowsResumable, FilesClean, TypeOK, TileInv, LevelInv, PersistEncoded,
      Persist, Goto, files, control, context, Mine, Artifacts
  <2>3. CASE s # t
    BY <1>1, <1>2, <2>1, <2>3, ValueAssumption, NoneIsNoContent DEF
      CompleteRowsResumable, FilesClean, TypeOK, TileInv, LevelInv, PersistEncoded,
      Persist, Goto, files, control, context, Mine, Artifacts
  <2> QED BY <2>2, <2>3
<1>7. BuildInv'
  BY <1>0, <1>1, <1>6 DEF BuildInv, PersistEncoded, control
<1> QED BY <1>1, <1>4, <1>5, <1>7 DEF IInv, PersistEncoded, control, InterruptedBuildResumes

\* The row is completed when its files are there.
LEMMA StoreCompletedTileStep ==
  ASSUME IInv, NEW t \in Current, StoreCompletedTile(t)
  PROVE  IInv'
<1>0. phase # "idle"
  BY DEF StoreCompletedTile
<1>1. /\ TypeOK /\ t \in Tiles /\ LevelOf[t] = level /\ BuildInv /\ FilesClean
      /\ config \in Configs /\ CompleteRowsResumable /\ result = "none"
  BY <1>0, TileContext
<1>2. TileInv(t) /\ LevelInv(t)
  BY <1>1 DEF BuildInv
<1>3. /\ draft[t] = CleanContent(config, t) /\ encoded[Mine(t)] = CleanContent(config, t)
      /\ quantized[Mine(t)] = CleanCodes(config, t)
  BY <1>1, <1>2 DEF StoreCompletedTile, TileInv, FilesClean, Mine
<1>4. TypeOK'
  BY <1>1, <1>3, ValueAssumption DEF TypeOK, StoreCompletedTile, Goto, files, control,
    context, Mine, Artifacts
<1>5. FilesClean' /\ CompleteRowsResumable'
  BY <1>1, <1>2, <1>3, ValueAssumption, NoneIsNoContent DEF TypeOK, FilesClean,
    CompleteRowsResumable, TileInv, StoreCompletedTile, Goto, files, control, context,
    Mine, Artifacts
<1>6. ASSUME NEW s \in Tiles
      PROVE  TileInv(s)' /\ LevelInv(s)'
  <2>1. TileInv(s) /\ LevelInv(s)
    BY <1>1 DEF BuildInv
  <2>2. CASE s = t
    BY <1>1, <1>2, <1>3, <2>1, <2>2, ValueAssumption, NoneIsNoContent DEF
      CompleteRowsResumable, FilesClean, TypeOK, TileInv, LevelInv, StoreCompletedTile,
      Goto, files, control, context, Mine, Artifacts
  <2>3. CASE s # t
    BY <1>1, <1>2, <1>3, <2>1, <2>3, ValueAssumption, NoneIsNoContent DEF
      CompleteRowsResumable, FilesClean, TypeOK, TileInv, LevelInv, StoreCompletedTile,
      Goto, files, control, context, Mine, Artifacts
  <2> QED BY <2>2, <2>3
<1>7. BuildInv'
  BY <1>0, <1>1, <1>6 DEF BuildInv, StoreCompletedTile, control
<1> QED BY <1>1, <1>4, <1>5, <1>7 DEF IInv, StoreCompletedTile, control,
  InterruptedBuildResumes

\* Raw cores are removed from a level when all its tiles are completed.
LEMMA RemoveCoreStep ==
  ASSUME IInv, NEW t \in Tiles, RemoveCore(t)
  PROVE  IInv'
<1>0. phase # "idle" /\ t \in Current
  BY DEF RemoveCore, NextToRelease
<1>1. /\ TypeOK /\ t \in Tiles /\ LevelOf[t] = level /\ BuildInv /\ FilesClean
      /\ config \in Configs /\ CompleteRowsResumable /\ result = "none"
  BY <1>0, TileContext
<1>2. TileInv(t) /\ LevelInv(t)
  BY <1>1 DEF BuildInv
<1>4. TypeOK'
  BY <1>1, ValueAssumption DEF TypeOK, RemoveCore, NextToRelease, Goto, files, control,
    context, Mine, Artifacts
<1>5. FilesClean' /\ CompleteRowsResumable'
  BY <1>1, <1>2, ValueAssumption, NoneIsNoContent DEF TypeOK, FilesClean,
    CompleteRowsResumable, TileInv, RemoveCore, NextToRelease, Goto, files, control,
    context, Mine, Artifacts
<1>6. ASSUME NEW s \in Tiles
      PROVE  TileInv(s)' /\ LevelInv(s)'
  <2>1. TileInv(s) /\ LevelInv(s)
    BY <1>1 DEF BuildInv
  <2>2. CASE s = t
    BY <1>1, <1>2, <2>1, <2>2, ValueAssumption, NoneIsNoContent DEF
      CompleteRowsResumable, FilesClean, TypeOK, TileInv, LevelInv, RemoveCore,
      NextToRelease, Goto, files, control, context, Mine, Artifacts
  <2>3. CASE s # t
    BY <1>1, <1>2, <2>1, <2>3, ValueAssumption, NoneIsNoContent DEF
      CompleteRowsResumable, FilesClean, TypeOK, TileInv, LevelInv, RemoveCore,
      NextToRelease, Goto, files, control, context, Mine, Artifacts
  <2> QED BY <2>2, <2>3
<1>7. BuildInv'
  BY <1>0, <1>1, <1>6 DEF BuildInv, RemoveCore, control
<1> QED BY <1>1, <1>4, <1>5, <1>7 DEF IInv, RemoveCore, control, InterruptedBuildResumes

\* So are the auxiliary files.
LEMMA RemoveAuxiliaryStep ==
  ASSUME IInv, NEW t \in Tiles, RemoveAuxiliary(t)
  PROVE  IInv'
<1>0. phase # "idle" /\ t \in Current
  BY DEF RemoveAuxiliary, NextToRelease
<1>1. /\ TypeOK /\ t \in Tiles /\ LevelOf[t] = level /\ BuildInv /\ FilesClean
      /\ config \in Configs /\ CompleteRowsResumable /\ result = "none"
  BY <1>0, TileContext
<1>2. TileInv(t) /\ LevelInv(t)
  BY <1>1 DEF BuildInv
<1>4. TypeOK'
  BY <1>1, ValueAssumption DEF TypeOK, RemoveAuxiliary, NextToRelease, Goto, files,
    control, context, Mine, Artifacts
<1>5. FilesClean' /\ CompleteRowsResumable'
  BY <1>1, <1>2, ValueAssumption, NoneIsNoContent DEF TypeOK, FilesClean,
    CompleteRowsResumable, TileInv, RemoveAuxiliary, NextToRelease, Goto, files, control,
    context, Mine, Artifacts
<1>6. ASSUME NEW s \in Tiles
      PROVE  TileInv(s)' /\ LevelInv(s)'
  <2>1. TileInv(s) /\ LevelInv(s)
    BY <1>1 DEF BuildInv
  <2>2. CASE s = t
    BY <1>1, <1>2, <2>1, <2>2, ValueAssumption, NoneIsNoContent DEF
      CompleteRowsResumable, FilesClean, TypeOK, TileInv, LevelInv, RemoveAuxiliary,
      NextToRelease, Goto, files, control, context, Mine, Artifacts
  <2>3. CASE s # t
    BY <1>1, <1>2, <2>1, <2>3, ValueAssumption, NoneIsNoContent DEF
      CompleteRowsResumable, FilesClean, TypeOK, TileInv, LevelInv, RemoveAuxiliary,
      NextToRelease, Goto, files, control, context, Mine, Artifacts
  <2> QED BY <2>2, <2>3
<1>7. BuildInv'
  BY <1>0, <1>1, <1>6 DEF BuildInv, RemoveAuxiliary, control
<1> QED BY <1>1, <1>4, <1>5, <1>7 DEF IInv, RemoveAuxiliary, control,
  InterruptedBuildResumes

\* No file that is already there disagrees with what a task writes.
LEMMA NoMismatch ==
  ASSUME IInv, NEW t \in Current
  PROVE  ~StageMismatch(t) /\ ~EncodedMismatch(t)
<1>1. phase # "idle" => /\ t \in Tiles /\ config \in Configs /\ FilesClean
                        /\ TileInv(t)
  BY TileContext DEF BuildInv
<1>2. ~StageMismatch(t)
  BY <1>1 DEF StageMismatch, FilesClean, Mine
<1>3. ~EncodedMismatch(t)
  BY <1>1 DEF EncodedMismatch, FilesClean, Mine, TileInv
<1> QED BY <1>2, <1>3

\* No file that a task needs is gone: the parent's codes come from a finished
\* level, and a neighbor of the level has its raw core or is a reused tile.
LEMMA FinalizeNeverFails ==
  ASSUME IInv, NEW t \in Current
  PROVE  ~FinalizeFails(t)
<1> SUFFICES ASSUME phase = "encode", pc[t] = "prepared"
             PROVE  InputsPresent(t) /\ quantized[Mine(t)] \in {None, FoundCodes(t)}
  BY DEF FinalizeFails
<1>1. /\ t \in Tiles /\ LevelOf[t] = level /\ level \in 0 .. MaxLevel /\ config \in Configs
      /\ BuildInv /\ FilesClean
  BY TileContext
<1>2. ASSUME NEW n \in Tiles, LevelOf[n] = level
      PROVE  Loadable(n)
  <2>1. TileInv(n) /\ LevelInv(n)
    BY <1>1 DEF BuildInv
  <2> QED BY <1>2, <2>1 DEF TileInv, LevelInv, Loadable
<1>3. \A n \in Neighbors[t] : Loadable(n)
  BY <1>1, <1>2, PlanAssumption
<1>4. Loadable(t) /\ Mine(t) \in auxiliary
  BY <1>1, <1>2 DEF BuildInv, TileInv
<1>5. ASSUME LevelOf[t] # 0
      PROVE  quantized[<<ParentOf[t], config>>] # None
  <2>1. ParentOf[t] \in Tiles /\ LevelOf[ParentOf[t]] < level
    BY <1>1, <1>5, PlanAssumption
  <2>2. TileInv(ParentOf[t]) /\ LevelInv(ParentOf[t])
    BY <1>1, <2>1 DEF BuildInv
  <2> QED BY <2>1, <2>2 DEF TileInv, LevelInv, Mine
<1>6. InputsPresent(t)
  BY <1>3, <1>4, <1>5 DEF InputsPresent
<1>7. FoundCodes(t) = CleanCodes(config, t)
  BY <1>1, <1>6, FoundContentClean
<1> QED BY <1>1, <1>6, <1>7 DEF FilesClean, Mine

LEMMA TileStep ==
  ASSUME IInv, NEW t \in Current, TileTask(t) \/ ReadFails(t) \/ TaskFailsIO(t)
  PROVE  IInv'
<1>1. CASE TaskCancelled(t)
  BY <1>1, TaskFailsStep DEF TaskCancelled
<1>2. CASE TaskFailsIO(t)
  BY <1>2, TaskFailsStep DEF TaskFailsIO
<1> QED
  BY <1>1, <1>2, NoMismatch, FinalizeNeverFails, ReuseTileStep, ReadFailsStep,
    MarkTileBuildingStep, StageCoreStep, StageAuxiliaryStep, FinalizeTileStep, PersistEncodedStep,
    StoreCompletedTileStep DEF TileTask

\* However a build ends, the rows and files it leaves are those it had.
LEMMA EndStep ==
  ASSUME IInv, UNCHANGED files,
         NEW answer \in {"crashed", "cancelled", "failed", "success"}, End(answer),
         phase # "idle", answer = "success" => phase = "pack"
  PROVE  IInv'
<1>1. TypeOK /\ FilesClean /\ CompleteRowsResumable /\ BuildInv
  BY DEF IInv
<1>2. TypeOK'
  <2>1. 0 \in 0 .. MaxLevel
    BY PlanAssumption
  <2>2. pc' \in [Tiles -> {"waiting", "unread", "reused", "marked", "staged", "prepared", "quantized",
                        "written", "complete", "coreless", "released", "failed"}]
    BY <1>1 DEF TypeOK, End
  <2>3. DOMAIN row' = Tiles /\ DOMAIN draft' = Tiles
    BY <1>1 DEF TypeOK, End
  <2> QED BY <1>1, <2>1, <2>2, <2>3, ValueAssumption DEF TypeOK, End, files
<1>3. FilesClean' /\ CompleteRowsResumable'
  BY <1>1 DEF End, files, FilesClean, CompleteRowsResumable
<1>4. answer = "success" => SuccessInv'
  <2> SUFFICES ASSUME answer = "success", NEW t \in Tiles
               PROVE  /\ draft'[t] = CleanContent(config', t)
                      /\ pc'[t] \in {"reused", "released"}
                      /\ pc'[t] = "released" => core'[Mine(t)'] = None
                                                /\ Mine(t)' \notin auxiliary'
    BY DEF SuccessInv
  <2>1. TileInv(t) /\ LevelInv(t)
    BY <1>1 DEF BuildInv
  <2>2. UNCHANGED <<config, pc, draft, core, auxiliary>>
    BY DEF End, files
  <2> QED BY <2>1, <2>2 DEF TileInv, LevelInv, Mine
<1>5. phase' = "idle" /\ result' = answer /\ failure' = "none"
  BY DEF End
<1> QED BY <1>2, <1>3, <1>4, <1>5 DEF IInv, InterruptedBuildResumes

LEMMA StartBuildStep ==
  ASSUME IInv, NEW c \in Configs, NEW reuse \in BOOLEAN, StartBuild(c, reuse)
  PROVE  IInv'
<1>1. TypeOK /\ FilesClean /\ CompleteRowsResumable
  BY DEF IInv
<1>2. TypeOK'
  <2>1. 0 \in 0 .. MaxLevel
    BY PlanAssumption
  <2>2. pc' \in [Tiles -> {"waiting", "unread", "reused", "marked", "staged", "prepared", "quantized",
                        "written", "complete", "coreless", "released", "failed"}]
    BY <1>1 DEF TypeOK, StartBuild
  <2>3. DOMAIN row' = Tiles /\ DOMAIN draft' = Tiles
    BY <1>1 DEF TypeOK, StartBuild
  <2>4. attempts' \in 0 .. MaxAttempts
    BY <1>1, ValueAssumption DEF TypeOK, StartBuild
  <2> QED BY <1>1, <2>1, <2>2, <2>3, <2>4 DEF TypeOK, StartBuild, files
<1>3. FilesClean' /\ CompleteRowsResumable'
  BY <1>1 DEF StartBuild, files, FilesClean, CompleteRowsResumable
<1>4. BuildInv'
  BY PlanAssumption DEF StartBuild, BuildInv, TileInv, LevelInv
<1> QED BY <1>2, <1>3, <1>4 DEF IInv, StartBuild, InterruptedBuildResumes

LEMMA RequestCancelStep ==
  ASSUME IInv, RequestCancel
  PROVE  IInv'
<1>1. TypeOK'
  BY DEF IInv, TypeOK, RequestCancel, files, control, context
<1>2. \A t \in Tiles : (TileInv(t) <=> TileInv(t)') /\ (LevelInv(t) <=> LevelInv(t)')
  BY DEF TileInv, LevelInv, RequestCancel, files, control, context, Mine
<1> QED BY <1>1, <1>2 DEF IInv, RequestCancel, files, control, context, FilesClean,
  CompleteRowsResumable, BuildInv, InterruptedBuildResumes

\* The building thread goes on to the next phase of a level, or to the next level.
LEMMA AdvanceStep ==
  ASSUME IInv, EndPreparation \/ EndEncoding \/ NextLevel
  PROVE  IInv'
<1>1. TypeOK /\ FilesClean /\ CompleteRowsResumable /\ BuildInv /\ result = "none"
  BY DEF IInv, EndPreparation, EndEncoding, NextLevel
<1>2. UNCHANGED <<row, core, auxiliary, quantized, encoded, config, incremental, attempts,
                  pc, draft, failure, cancelRequested, result>>
  BY DEF EndPreparation, EndEncoding, NextLevel, Advance, files, context
<1>3. failure = "none" /\ level \in 0 .. MaxLevel /\ MaxLevel \in Nat
  BY <1>1, PlanAssumption DEF EndPreparation, EndEncoding, NextLevel, LevelDone, TypeOK
<1>4. TypeOK'
  BY <1>1, <1>2, <1>3 DEF TypeOK, EndPreparation, EndEncoding, NextLevel, Advance
<1>5. FilesClean' /\ CompleteRowsResumable'
  BY <1>1, <1>2 DEF FilesClean, CompleteRowsResumable
<1>6. ASSUME NEW t \in Tiles
      PROVE  TileInv(t)' /\ LevelInv(t)'
  <2>1. TileInv(t) /\ LevelInv(t) /\ LevelOf[t] \in 0 .. MaxLevel
    BY <1>1, PlanAssumption DEF BuildInv
  <2>2. TileInv(t)'
    BY <1>2, <2>1 DEF TileInv, Mine
  <2>3. LevelOf[t] = level <=> t \in Current
    BY DEF Current, AtLevel
  <2>4. CASE EndPreparation
    BY <1>2, <1>3, <2>1, <2>3, <2>4 DEF LevelInv, TileInv, EndPreparation, Advance,
      LevelDone, Mine
  <2>5. CASE EndEncoding
    BY <1>2, <1>3, <2>1, <2>3, <2>5 DEF LevelInv, TileInv, EndEncoding, Advance,
      LevelDone, Mine
  <2>6. CASE NextLevel
    BY <1>2, <1>3, <2>1, <2>3, <2>6 DEF LevelInv, TileInv, NextLevel, LevelDone, Mine
  <2> QED BY <2>2, <2>4, <2>5, <2>6
<1>7. BuildInv'
  BY <1>1, <1>2, <1>3, <1>6 DEF BuildInv, EndPreparation, EndEncoding, NextLevel, Advance
<1>8. phase' # "idle"
  BY DEF EndPreparation, EndEncoding, NextLevel, Advance
<1> QED BY <1>1, <1>2, <1>4, <1>5, <1>7, <1>8 DEF IInv, InterruptedBuildResumes

\* A level is given up for an error or a cancellation, and publication finds every
\* row completed.
LEMMA BuilderEndStep ==
  ASSUME IInv, Abandon \/ CancelLevel \/ PublishTiles \/ ReleaseFails \/ Crash
  PROVE  IInv'
<1>1. CASE Abandon
  <2>1. phase # "idle" => failure \in {"none", "cancelled", "failed"}
    BY DEF IInv, BuildInv
  <2>2. phase = "idle" => failure = "none"
    BY DEF IInv
  <2> QED BY <1>1, <2>1, <2>2, EndStep DEF Abandon
<1>2. CASE CancelLevel
  BY <1>2, EndStep DEF CancelLevel, IInv
<1>3. CASE PublishTiles
  <2>1. \A t \in Tiles : row[t].state = "complete"
    <3>1. BuildInv /\ phase = "pack"
      BY <1>3 DEF IInv, PublishTiles
    <3> QED BY <3>1 DEF BuildInv, TileInv, LevelInv
  <2> QED BY <1>3, <2>1, EndStep DEF PublishTiles
<1>4. CASE ReleaseFails
  BY <1>4, EndStep DEF ReleaseFails
<1>5. CASE Crash
  BY <1>5, EndStep DEF Crash
<1> QED BY <1>1, <1>2, <1>3, <1>4, <1>5

-----------------------------------------------------------------------------
(* Theorems *)

LEMMA InitIInv == Init => IInv
<1> SUFFICES ASSUME Init
             PROVE  IInv
  OBVIOUS
<1>1. TypeOK
  <2>1. 0 \in 0 .. MaxLevel /\ 0 \in 0 .. MaxAttempts
    BY PlanAssumption, ValueAssumption
  <2>2. pc \in [Tiles -> {"waiting", "unread", "reused", "marked", "staged", "prepared", "quantized",
                       "written", "complete", "coreless", "released", "failed"}]
    BY DEF Init
  <2> QED BY <2>1, <2>2 DEF Init, TypeOK, NoRow
<1>2. FilesClean /\ CompleteRowsResumable
  BY DEF Init, FilesClean, CompleteRowsResumable, Artifacts, NoRow
<1> QED BY <1>1, <1>2 DEF IInv, Init, InterruptedBuildResumes

LEMMA NextIInv ==
  ASSUME IInv, [Next]_vars
  PROVE  IInv'
<1>1. CASE UNCHANGED vars
  <2>1. \A t \in Tiles : (TileInv(t) <=> TileInv(t)') /\ (LevelInv(t) <=> LevelInv(t)')
    BY <1>1 DEF vars, files, control, context, TileInv, LevelInv, Mine
  <2>2. TypeOK'
    BY <1>1 DEF vars, files, control, context, IInv, TypeOK
  <2> QED BY <1>1, <2>1, <2>2 DEF vars, files, control, context, IInv, FilesClean,
    CompleteRowsResumable, BuildInv, InterruptedBuildResumes, SuccessInv, Mine
<1>2. CASE \E c \in Configs, reuse \in BOOLEAN : StartBuild(c, reuse)
  BY <1>2, StartBuildStep
<1>3. CASE RequestCancel
  BY <1>3, RequestCancelStep
<1>4. CASE \E t \in Current : TileTask(t) \/ ReadFails(t) \/ TaskFailsIO(t)
  BY <1>4, TileStep
<1>5. CASE Crash \/ ReleaseFails \/ Abandon \/ CancelLevel \/ PublishTiles
  BY <1>5, BuilderEndStep
<1>6. CASE EndPreparation \/ EndEncoding \/ NextLevel
  BY <1>6, AdvanceStep
<1>7. CASE \E t \in Tiles : RemoveCore(t) \/ RemoveAuxiliary(t)
  BY <1>7, RemoveCoreStep, RemoveAuxiliaryStep
<1> QED BY <1>1, <1>2, <1>3, <1>4, <1>5, <1>6, <1>7 DEF Next, Builder

\* The strengthened invariant always holds.
THEOREM TileBuildInvariant == Spec => []IInv
<1>1. IInv /\ [Next]_vars => IInv'
  BY NextIInv
<1> QED BY <1>1, InitIInv, PTL DEF Spec

\* Rows, files and the running build keep their types.
THEOREM TypeCorrect == Spec => []TypeOK
<1>0. Spec => []IInv
  BY TileBuildInvariant
<1>1. IInv => TypeOK
  BY DEF IInv
<1> QED BY <1>0, <1>1, PTL

\* FindReusableTile never offers a tile whose encoded file or codes are not there
\* as a clean build would have written them.
THEOREM CompletedTilesCanBeReused == Spec => []CompleteRowsResumable
<1>0. Spec => []IInv
  BY TileBuildInvariant
<1>1. IInv => CompleteRowsResumable
  BY DEF IInv
<1> QED BY <1>0, <1>1, PTL

\* Incremental builds converge on what a clean build computes, for every
\* hierarchy, every elevation and every earlier interruption.
THEOREM IncrementalConverges == Spec => []BuildsConverge
<1>0. Spec => []IInv
  BY TileBuildInvariant
<1>1. IInv => BuildsConverge
  BY DEF IInv, BuildsConverge, SuccessInv
<1> QED BY <1>0, <1>1, PTL

\* No build ends in hash_mismatch or for want of a file of its own.
THEOREM ResumesAfterInterruption == Spec => []InterruptedBuildResumes
<1>0. Spec => []IInv
  BY TileBuildInvariant
<1>1. IInv => InterruptedBuildResumes
  BY DEF IInv
<1> QED BY <1>0, <1>1, PTL

\* A successful build has removed the raw data of the tiles it built.
THEOREM StagingIsReleased == Spec => []SuccessReleasesStaging
<1>0. Spec => []IInv
  BY TileBuildInvariant
<1>1. IInv => SuccessReleasesStaging
  BY DEF IInv, SuccessReleasesStaging, SuccessInv
<1> QED BY <1>0, <1>1, PTL

\* An incremental build takes back a completed tile of its configuration only when
\* its encoded file could not be read.
THEOREM CheckpointsArePreserved == Spec => CheckpointPreserved
<1>0. Spec => []IInv
  BY TileBuildInvariant
<1>1. ASSUME IInv, [Next]_vars, phase # "idle", incremental, NEW s \in Tiles,
             row[s].state = "complete", row[s].dependency = config
      PROVE  RowKept(s)
  <2>1. TypeOK /\ CompleteRowsResumable /\ BuildInv
    BY <1>1 DEF IInv
  <2>2. ASSUME NEW t \in Current, MarkTileBuilding(t)
        PROVE  RowKept(s)
    <3>1. Reusable(s)
      BY <1>1, <2>1 DEF Reusable, CompleteRowsResumable, Mine
    <3> QED BY <2>1, <2>2, <3>1 DEF MarkTileBuilding, TypeOK, RowKept
  <2>3. ASSUME NEW t \in Current, StoreCompletedTile(t)
        PROVE  row'[s] = row[s]
    <3>1. TileInv(s)
      BY <2>1 DEF BuildInv
    <3>2. t # s
      BY <1>1, <2>3, <3>1 DEF StoreCompletedTile, TileInv
    <3> QED BY <2>1, <2>3, <3>2 DEF StoreCompletedTile, TypeOK
  <2>4. ASSUME NEW t \in Current, TileTask(t) \/ ReadFails(t) \/ TaskFailsIO(t),
               ~MarkTileBuilding(t), ~StoreCompletedTile(t)
        PROVE  UNCHANGED row
    BY <2>4 DEF TileTask, TaskFailsIO, ReuseTile, ReadFails, StageCore, StageMismatch, StageAuxiliary,
      FinalizeTile, FinalizeFails, PersistEncoded, EncodedMismatch, TaskCancelled, TaskFails
  <2>5. CASE \E t \in Current : TileTask(t) \/ ReadFails(t) \/ TaskFailsIO(t)
    BY <2>2, <2>3, <2>4, <2>5 DEF RowKept
  <2>6. CASE Builder \/ Crash \/ ReleaseFails \/ RequestCancel
    BY <2>6 DEF Builder, Abandon, EndPreparation, EndEncoding, NextLevel, CancelLevel,
      PublishTiles, RemoveCore, RemoveAuxiliary, Crash, ReleaseFails, RequestCancel,
      End, Advance, RowKept
  <2>7. CASE UNCHANGED vars
    BY <2>7 DEF vars, RowKept
  <2>8. CASE \E c \in Configs, reuse \in BOOLEAN : StartBuild(c, reuse)
    BY <1>1, <2>8 DEF StartBuild
  <2> QED BY <1>1, <2>5, <2>6, <2>7, <2>8 DEF Next
<1>2. IInv /\ [Next]_vars =>
        [phase # "idle" /\ incremental =>
           \A t \in Tiles : row[t].state = "complete" /\ row[t].dependency = config
                              => RowKept(t)]_vars
  BY <1>1
<1> QED BY <1>0, <1>2, PTL DEF Spec, CheckpointPreserved

=============================================================================
