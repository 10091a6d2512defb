------------------------- MODULE PublicationProofs -------------------------
(***************************************************************************)
(* Proofs about Publication for every set of builds, every number of packs *)
(* and every number of attempts. Ready says what the phases of a build     *)
(* have established about its temporaries and about the published packs;   *)
(* it is what makes VisibleDatabaseComplete inductive.                     *)
(***************************************************************************)
EXTENDS Publication, TLAPS

Ready ==
  /\ phase \in {"packs", "packsWrite"} =>
       \A n \in PackNumbers : n < cursor => tempPack[Mine(n)] = build
  /\ phase \in {"database", "databaseWrite", "verify"} =>
       \A n \in PackNumbers : tempPack[Mine(n)] = build
  /\ phase = "verify" =>
       \A n \in PackNumbers : n < cursor => finalPack[Mine(n)] \in {None, build}
  /\ phase = "rename" =>
       \A n \in PackNumbers : IF n < cursor THEN finalPack[Mine(n)] = build
                              ELSE finalPack[Mine(n)] \in {None, build} /\ tempPack[Mine(n)] = build
  /\ phase \in {"verify", "rename", "publish"} => tempDatabase = build
  /\ phase = "publish" => \A n \in PackNumbers : finalPack[Mine(n)] = build
  /\ phase \in {"record", "checkpoint"} => database = build
  /\ phase = "idle" => build = None

IInv == TypeOK /\ PacksWhole /\ VisibleDatabaseComplete /\ Ready

-----------------------------------------------------------------------------
\* A build's packs have names of their own.
LEMMA NamesOfPacks ==
  ASSUME NEW b \in Builds
  PROVE  /\ \A n \in PackNumbers : Name(b, n) \in Names
         /\ \A n, m \in PackNumbers : Name(b, n) = Name(b, m) => n = m
  BY PublicationAssumption DEF Name, Names

LEMMA Cursors ==
  /\ 1 \in PackNumbers
  /\ \A c \in PackNumbers : c # PackCount => c + 1 \in PackNumbers
  /\ \A c, n \in PackNumbers : n < c + 1 <=> n < c \/ n = c
  /\ \A n \in PackNumbers : ~(n < 1) /\ n <= PackCount /\ (n < PackCount \/ n = PackCount)
  BY PublicationAssumption DEF PackNumbers

\* A step that leaves the published files alone keeps what readers rely on.
LEMMA PublishedUnchanged ==
  ASSUME PacksWhole, VisibleDatabaseComplete, UNCHANGED <<finalPack, database>>
  PROVE  PacksWhole' /\ VisibleDatabaseComplete'
  BY DEF PacksWhole, VisibleDatabaseComplete, Complete

LEMMA InitIInv == Init => IInv
<1> SUFFICES ASSUME Init PROVE IInv
  OBVIOUS
<1>1. TypeOK
  <2>1. finalPack \in [Names -> Builds \cup {None, "partial"}]
    BY DEF Init
  <2>2. tempPack \in [Names -> Builds \cup {None, "partial"}]
    BY DEF Init
  <2>3. /\ database \in Builds \cup {None, "partial"}
        /\ tempDatabase \in Builds \cup {None, "partial"}
        /\ build \in Builds \cup {None}
    BY DEF Init
  <2>4. attempts \in 0 .. MaxAttempts
    BY PublicationAssumption DEF Init
  <2> QED BY <2>1, <2>2, <2>3, <2>4, Cursors DEF Init, TypeOK, Phases
<1>2. PacksWhole
  BY PublicationAssumption DEF Init, PacksWhole
<1>3. VisibleDatabaseComplete
  BY DEF Init, VisibleDatabaseComplete, Complete
<1>4. Ready
  BY DEF Init, Ready
<1> QED BY <1>1, <1>2, <1>3, <1>4 DEF IInv

\* Every end of a build, whatever it removes, keeps the published files.
LEMMA EndStep ==
  ASSUME IInv, NEW answer \in {"success", "cancelled", "failed", "mismatch", "crashed"},
         End(answer), UNCHANGED finalPack,
         Cleanup \/ UNCHANGED <<tempPack, tempDatabase>>
  PROVE  IInv'
<1> USE DEF IInv
<1>1. UNCHANGED <<finalPack, database>>
  BY DEF End
<1>2. PacksWhole' /\ VisibleDatabaseComplete'
  BY <1>1, PublishedUnchanged
<1>3. Ready'
  BY DEF End, Ready
<1>4. /\ tempPack' \in [Names -> Builds \cup {None, "partial"}]
      /\ tempDatabase' \in Builds \cup {None, "partial"}
  <2>1. CASE Cleanup
    <3>1. CASE CleansUp
      <4>1. PICK gone \in ListedAtFailure :
              /\ tempPack' = [x \in Names |->
                   IF \E n \in PackNumbers \cap gone : x = Mine(n) THEN None ELSE tempPack[x]]
              /\ tempDatabase' = IF DatabaseSlot \in gone THEN None ELSE tempDatabase
        BY <2>1, <3>1 DEF Cleanup
      <4> QED BY <4>1 DEF TypeOK
    <3>2. CASE ~CleansUp
      BY <2>1, <3>2 DEF Cleanup, TypeOK
    <3> QED BY <3>1, <3>2
  <2>2. CASE UNCHANGED <<tempPack, tempDatabase>>
    BY <2>2 DEF TypeOK
  <2> QED BY <2>1, <2>2
<1>5. TypeOK'
  BY <1>1, <1>4 DEF End, TypeOK, Phases
<1> QED BY <1>2, <1>3, <1>5

\* The steps of the environment.
LEMMA EnvironmentStep ==
  ASSUME IInv, \/ \E b \in Builds, staged \in BOOLEAN : StartBuild(b, staged)
               \/ RequestCancel
               \/ Crash
  PROVE  IInv'
<1> USE DEF IInv
<1>1. ASSUME NEW b \in Builds, NEW staged \in BOOLEAN, StartBuild(b, staged) PROVE IInv'
  <2> USE <1>1 DEF StartBuild, files
  <2>1. TypeOK'
    <3>1. attempts' \in 0 .. MaxAttempts
      BY PublicationAssumption DEF TypeOK
    <3>2. phase' \in Phases /\ build' \in Builds
      BY DEF Phases
    <3> QED BY <3>1, <3>2, Cursors DEF TypeOK
  <2>2. Ready'
    BY Cursors DEF Ready
  <2> QED BY <2>1, <2>2, PublishedUnchanged
<1>2. CASE RequestCancel
  <2> USE <1>2 DEF RequestCancel, files, control, context
  <2>1. TypeOK'
    BY DEF TypeOK, Phases
  <2>2. Ready'
    BY DEF Ready, Mine, Name
  <2> QED BY <2>1, <2>2, PublishedUnchanged
<1>3. CASE Crash
  BY <1>3, EndStep DEF Crash
<1> QED BY <1>1, <1>2, <1>3

\* Writing temporaries does not touch the published files.
LEMMA WritingStep ==
  ASSUME IInv, StagePack \/ WritePack \/ AcceptStagedPack \/ WriteDatabase
  PROVE  IInv'
<1> USE DEF IInv
<1>0. build \in Builds /\ UNCHANGED <<finalPack, database, build>> /\ cursor \in PackNumbers
  BY DEF StagePack, WritePack, AcceptStagedPack, WriteDatabase, TypeOK, files, context
<1>p. \A n \in PackNumbers : Mine(n) \in Names /\ Mine(n)' = Mine(n)
  BY <1>0, NamesOfPacks DEF Mine, Name
<1>q. \A n, m \in PackNumbers : Mine(n) = Mine(m) => n = m
  BY <1>0, NamesOfPacks DEF Mine
<1>r. PacksWhole' /\ VisibleDatabaseComplete'
  BY <1>0, PublishedUnchanged
<1>1. CASE StagePack
  <2> USE <1>1 DEF StagePack, OpenTemporary, CloseTemporary, Goto, context
  <2>1. TypeOK'
    BY <1>0, Cursors DEF TypeOK, Phases
  <2>2. Ready'
    BY <1>0, <1>p, Cursors DEF Ready
  <2> QED BY <1>r, <2>1, <2>2
<1>2. CASE WritePack
  <2> USE <1>2 DEF WritePack, OpenTemporary, CloseTemporary, Goto, context
  <2>1. TypeOK'
    BY <1>0, Cursors DEF TypeOK, Phases
  <2>2. Ready'
    <3>1. CASE phase = "packs"
      <4>1. \A n \in PackNumbers : n < cursor => tempPack'[Mine(n)] = build
        BY <1>0, <1>p, <1>q, <3>1, Cursors DEF Ready, TypeOK, PackNumbers
      <4> QED BY <1>0, <1>p, <3>1, <4>1 DEF Ready
    <3>2. CASE phase = "packsWrite"
      <4>1. \A n \in PackNumbers : n < cursor + 1 => tempPack'[Mine(n)] = build
        BY <1>0, <1>p, <1>q, <3>2, Cursors DEF Ready, TypeOK
      <4>2. CASE cursor = PackCount
        BY <1>0, <1>p, <3>2, <4>1, <4>2, Cursors DEF Ready
      <4>3. CASE cursor # PackCount
        BY <1>0, <1>p, <3>2, <4>1, <4>3, Cursors DEF Ready
      <4> QED BY <4>2, <4>3
    <3> QED BY <3>1, <3>2
  <2> QED BY <1>r, <2>1, <2>2
<1>3. CASE AcceptStagedPack
  <2> USE <1>3 DEF AcceptStagedPack, Goto, files, context
  <2>1. TypeOK'
    BY <1>0, Cursors DEF TypeOK, Phases
  <2>2. \A n \in PackNumbers : n < cursor + 1 => tempPack'[Mine(n)] = build
    BY <1>0, <1>p, Cursors DEF Ready
  <2>3. CASE cursor = PackCount
    BY <1>0, <1>p, <1>r, <2>1, <2>2, <2>3, Cursors DEF Ready
  <2>4. CASE cursor # PackCount
    BY <1>0, <1>p, <1>r, <2>1, <2>2, <2>4, Cursors DEF Ready
  <2> QED BY <2>3, <2>4
<1>4. CASE WriteDatabase
  <2> USE <1>4 DEF WriteDatabase, Goto, context
  <2>1. TypeOK'
    BY <1>0, Cursors DEF TypeOK, Phases
  <2>2. Ready'
    BY <1>0, <1>p, Cursors DEF Ready
  <2> QED BY <1>r, <2>1, <2>2
<1> QED BY <1>1, <1>2, <1>3, <1>4

\* The steps that look at, rename and replace the published files.
LEMMA PublishingStep ==
  ASSUME IInv, VerifyPack \/ RenamePack \/ PublishDatabase \/ RecordPack
  PROVE  IInv'
<1> USE DEF IInv
<1>0. build \in Builds /\ UNCHANGED build /\ cursor \in PackNumbers
  BY DEF VerifyPack, RenamePack, PublishDatabase, RecordPack, TypeOK, context
<1>p. \A n \in PackNumbers : Mine(n) \in Names /\ Mine(n)' = Mine(n)
  BY <1>0, NamesOfPacks DEF Mine, Name
<1>q. \A n, m \in PackNumbers : Mine(n) = Mine(m) => n = m
  BY <1>0, NamesOfPacks DEF Mine
<1>1. CASE VerifyPack
  <2> USE <1>1 DEF VerifyPack, Goto, files, context
  <2>1. TypeOK'
    BY <1>0, Cursors DEF TypeOK, Phases
  <2>2. \A n \in PackNumbers : n < cursor + 1 => finalPack[Mine(n)] \in {None, build}
    BY <1>0, Cursors DEF Ready
  <2>3. CASE cursor = PackCount
    BY <1>0, <1>p, <2>1, <2>2, <2>3, Cursors, PublishedUnchanged DEF Ready
  <2>4. CASE cursor # PackCount
    BY <1>0, <1>p, <2>1, <2>2, <2>4, Cursors, PublishedUnchanged DEF Ready
  <2> QED BY <2>3, <2>4
<1>2. CASE RenamePack
  <2> USE <1>2 DEF RenamePack, Goto, context
  <2>1. finalPack[Mine(cursor)] \in {None, build} /\ tempPack[Mine(cursor)] = build
    BY <1>0, PublicationAssumption DEF Ready, PackNumbers
  <2>2. finalPack' = [finalPack EXCEPT ![Mine(cursor)] = build]
    BY <2>1
  <2>3. TypeOK'
    <3>1. finalPack' \in [Names -> Builds \cup {None, "partial"}]
      BY <1>0, <2>2 DEF TypeOK
    <3>2. tempPack' \in [Names -> Builds \cup {None, "partial"}]
      BY DEF TypeOK
    <3>3. phase' \in Phases /\ cursor' \in PackNumbers
      BY <1>0, Cursors DEF Phases
    <3> QED BY <1>0, <3>1, <3>2, <3>3 DEF TypeOK
  <2>4. PacksWhole'
    BY <1>0, <2>2, PublicationAssumption DEF PacksWhole, TypeOK
  <2>5. VisibleDatabaseComplete'
    <3> SUFFICES ASSUME database # None, NEW n \in PackNumbers
                 PROVE  database \in Builds /\ finalPack'[Name(database, n)] = database
      BY DEF VisibleDatabaseComplete, Complete
    <3>1. database \in Builds /\ finalPack[Name(database, n)] = database
      BY DEF VisibleDatabaseComplete, Complete
    <3>2. CASE Name(database, n) = Mine(cursor)
      BY <1>0, <1>p, <2>1, <2>2, <3>1, <3>2, PublicationAssumption DEF TypeOK
    <3>3. CASE Name(database, n) # Mine(cursor)
      BY <2>2, <3>1, <3>3, NamesOfPacks DEF TypeOK
    <3> QED BY <3>2, <3>3
  <2>6. \A n \in PackNumbers :
          IF n < cursor + 1 THEN finalPack'[Mine(n)] = build
          ELSE finalPack'[Mine(n)] \in {None, build} /\ tempPack'[Mine(n)] = build
    <3> SUFFICES ASSUME NEW n \in PackNumbers
                 PROVE  IF n < cursor + 1 THEN finalPack'[Mine(n)] = build
                        ELSE finalPack'[Mine(n)] \in {None, build} /\ tempPack'[Mine(n)] = build
      OBVIOUS
    <3>1. CASE n = cursor
      BY <1>0, <1>p, <2>2, <3>1, Cursors DEF TypeOK
    <3>2. CASE n # cursor
      <4>1. Mine(n) # Mine(cursor) /\ Mine(n) \in Names
        BY <1>0, <1>p, <1>q, <3>2
      <4>2. finalPack'[Mine(n)] = finalPack[Mine(n)] /\ tempPack'[Mine(n)] = tempPack[Mine(n)]
        BY <2>2, <4>1 DEF TypeOK
      <4>3. n < cursor + 1 <=> n < cursor
        BY <1>0, <3>2, Cursors
      <4> QED BY <4>2, <4>3 DEF Ready
    <3> QED BY <3>1, <3>2
  <2>7. Ready'
    <3>1. CASE cursor = PackCount
      <4>1. \A n \in PackNumbers : finalPack'[Mine(n)] = build
        BY <2>6, <3>1, PublicationAssumption DEF PackNumbers
      <4> QED BY <1>0, <1>p, <3>1, <4>1 DEF Ready
    <3>2. CASE cursor # PackCount
      BY <1>0, <1>p, <2>6, <3>2 DEF Ready
    <3> QED BY <3>1, <3>2
  <2> QED BY <2>3, <2>4, <2>5, <2>7
<1>3. CASE PublishDatabase
  <2> USE <1>3 DEF PublishDatabase, Goto, context
  <2>1. database' = build
    BY DEF Ready
  <2>2. TypeOK'
    BY <1>0, <2>1, Cursors DEF TypeOK, Phases
  <2>3. PacksWhole'
    BY DEF PacksWhole
  <2>4. VisibleDatabaseComplete'
    BY <1>0, <2>1 DEF VisibleDatabaseComplete, Complete, Ready, Mine
  <2>5. Ready'
    BY <1>0, <2>1 DEF Ready
  <2> QED BY <2>2, <2>3, <2>4, <2>5
<1>4. CASE RecordPack
  <2> USE <1>4 DEF RecordPack, Goto, files, context
  <2>1. TypeOK'
    BY <1>0, Cursors DEF TypeOK, Phases
  <2>2. Ready'
    BY <1>0 DEF Ready
  <2> QED BY <2>1, <2>2, PublishedUnchanged
<1> QED BY <1>1, <1>2, <1>3, <1>4

LEMMA NextIInv == IInv /\ [Next]_vars => IInv'
<1> SUFFICES ASSUME IInv, [Next]_vars PROVE IInv'
  OBVIOUS
<1>1. CASE \/ \E b \in Builds, staged \in BOOLEAN : StartBuild(b, staged)
           \/ RequestCancel
           \/ Crash
  BY <1>1, EnvironmentStep
<1>2. CASE StagePack \/ WritePack \/ AcceptStagedPack \/ WriteDatabase
  BY <1>2, WritingStep
<1>3. CASE VerifyPack \/ RenamePack \/ PublishDatabase \/ RecordPack
  BY <1>3, PublishingStep
<1>4. CASE ReportSuccess
  BY <1>4, EndStep DEF ReportSuccess
<1>5. CASE FailCancelled \/ FailMismatch \/ FailIO
  BY <1>5, EndStep DEF FailCancelled, FailMismatch, FailIO
<1>6. CASE UNCHANGED vars
  <2> USE <1>6 DEF vars, files, control, context, IInv
  <2>1. TypeOK'
    BY DEF TypeOK
  <2>2. Ready'
    BY DEF Ready, Mine, Name
  <2> QED BY <2>1, <2>2, PublishedUnchanged
<1> QED BY <1>1, <1>2, <1>3, <1>4, <1>5, <1>6 DEF Next, Progress

-----------------------------------------------------------------------------
\* The strengthened invariant holds in every reachable state.
THEOREM PublicationInvariant == Spec => []IInv
  BY InitIInv, NextIInv, PTL DEF Spec

\* A visible database has all its packs, whatever happened to whichever build.
THEOREM ReadersFindCompleteDatabase == Spec => []VisibleDatabaseComplete
<1>1. IInv => VisibleDatabaseComplete  BY DEF IInv
<1> QED BY <1>1, PublicationInvariant, PTL

\* No torn file ever carries the name of a pack.
THEOREM NoTornPack == Spec => []PacksWhole
<1>1. IInv => PacksWhole  BY DEF IInv
<1> QED BY <1>1, PublicationInvariant, PTL

\* Type correctness of the files and of the running build.
THEOREM TypeCorrect == Spec => []TypeOK
<1>1. IInv => TypeOK  BY DEF IInv
<1> QED BY <1>1, PublicationInvariant, PTL

\* A published pack is never changed or removed.
THEOREM PacksAreImmutable == Spec => PublishedPacksImmutable
<1>1. ASSUME [Next]_vars, NEW x \in Names, finalPack[x] # None, IInv
      PROVE  finalPack'[x] = finalPack[x]
  <2>1. CASE RenamePack
    BY <1>1, <2>1 DEF RenamePack, IInv, TypeOK
  <2>2. CASE ~RenamePack
    BY <1>1, <2>2 DEF Next, StartBuild, RequestCancel, Crash, FailIO, Progress, StagePack, WritePack,
                     AcceptStagedPack, WriteDatabase, VerifyPack, PublishDatabase, RecordPack,
                     ReportSuccess, FailCancelled, FailMismatch, files, vars
  <2> QED BY <2>1, <2>2
<1>2. IInv /\ [Next]_vars => [\A x \in Names : finalPack[x] # None => finalPack'[x] = finalPack[x]]_vars
  BY <1>1
<1> QED BY <1>2, PublicationInvariant, PTL DEF Spec, PublishedPacksImmutable

-----------------------------------------------------------------------------
(* What becomes of the temporaries *)

Old(n)  == {None, previous.tempPack[Mine(n)]}
OldDatabase == {None, previous.tempDatabase}

\* While a build runs it has not answered; what it has renamed is gone from under
\* its temporary name; and what it wrote is listed, if it stages nothing earlier.
Tidy ==
  phase # "idle" =>
    /\ result = "none"
    /\ phase \in {"stage", "stageWrite"} => streaming
    /\ phase = "rename" => \A n \in PackNumbers : n < cursor => tempPack[Mine(n)] = None
    /\ phase \in {"publish", "record", "checkpoint"} => \A n \in PackNumbers : tempPack[Mine(n)] = None
    /\ phase \in {"record", "checkpoint"} => tempDatabase = None
    /\ ~streaming =>
         /\ phase = "packsWrite" => cursor \in listed
         /\ phase = "databaseWrite" => DatabaseSlot \in listed
         /\ DatabaseSlot \in listed \/ tempDatabase \in OldDatabase
         /\ \A n \in PackNumbers : n \in listed \/ tempPack[Mine(n)] \in Old(n)

LEMMA InitTidy == Init => Tidy
  BY DEF Init, Tidy

\* What is not touched stays as listed or as it was found.
LEMMA TidyStep == IInv /\ IInv' /\ Tidy /\ [Next]_vars => Tidy'
<1> SUFFICES ASSUME IInv, IInv', Tidy, [Next]_vars, phase' # "idle" PROVE Tidy'
  BY DEF Tidy
<1> USE DEF Tidy, IInv
<1>1. ASSUME NEW b \in Builds, NEW staged \in BOOLEAN, StartBuild(b, staged) PROVE Tidy'
  BY <1>1 DEF StartBuild, files, Old, OldDatabase
<1>2. CASE Crash \/ ReportSuccess \/ FailCancelled \/ FailMismatch \/ FailIO
  BY <1>2 DEF Crash, ReportSuccess, FailCancelled, FailMismatch, FailIO, End
<1>3. CASE RequestCancel \/ UNCHANGED vars
  BY <1>3 DEF RequestCancel, vars, files, control, context, Old, OldDatabase, Mine, Name
<1> DEFINE Inner == \/ StagePack \/ WritePack \/ AcceptStagedPack \/ WriteDatabase
                    \/ VerifyPack \/ RenamePack \/ PublishDatabase \/ RecordPack
<1>4. CASE Inner
  <2>0. /\ phase # "idle" /\ build \in Builds /\ cursor \in PackNumbers
        /\ UNCHANGED <<build, streaming, previous, result>>
    BY <1>4 DEF StagePack, WritePack, AcceptStagedPack, WriteDatabase, VerifyPack, RenamePack,
                PublishDatabase, RecordPack, TypeOK, context
  <2>1. \A n \in PackNumbers : Mine(n) \in Names /\ Mine(n)' = Mine(n)
    BY <2>0, NamesOfPacks DEF Mine, Name
  <2>2. \A n, m \in PackNumbers : Mine(n) = Mine(m) => n = m
    BY <2>0, NamesOfPacks DEF Mine
  <2>3. OldDatabase' = OldDatabase /\ \A n \in PackNumbers : Old(n)' = Old(n)
    BY <2>0, <2>1 DEF Old, OldDatabase
  <2>4. DatabaseSlot \notin PackNumbers
    BY DEF DatabaseSlot, PackNumbers
  <2>5. CASE StagePack
    BY <2>0, <2>5 DEF StagePack, OpenTemporary, CloseTemporary, Goto
  <2>6. CASE WritePack
    <3>1. CASE phase = "packs"
      <4>1. /\ phase' = "packsWrite" /\ cursor' = cursor /\ listed' = listed \cup {cursor}
            /\ tempPack' = [tempPack EXCEPT ![Mine(cursor)] = "partial"]
            /\ UNCHANGED tempDatabase
        BY <2>6, <3>1 DEF WritePack, OpenTemporary, Goto
      <4>2. \A n \in PackNumbers \ {cursor} : tempPack'[Mine(n)] = tempPack[Mine(n)]
        BY <2>0, <2>1, <2>2, <4>1 DEF TypeOK
      <4> QED BY <2>0, <2>1, <2>3, <4>1, <4>2
    <3>2. CASE phase = "packsWrite"
      <4>1. /\ phase' \in {"packs", "database"} /\ listed' = listed
            /\ tempPack' = [tempPack EXCEPT ![Mine(cursor)] = build]
            /\ UNCHANGED tempDatabase
        BY <2>6, <3>2 DEF WritePack, CloseTemporary, Goto
      <4>2. \A n \in PackNumbers \ {cursor} : tempPack'[Mine(n)] = tempPack[Mine(n)]
        BY <2>0, <2>1, <2>2, <4>1 DEF TypeOK
      <4> QED BY <2>0, <2>1, <2>3, <3>2, <4>1, <4>2
    <3> QED BY <2>6, <3>1, <3>2 DEF WritePack
  <2>7. CASE AcceptStagedPack
    BY <2>0, <2>1, <2>3, <2>7 DEF AcceptStagedPack, Goto, files
  <2>8. CASE WriteDatabase
    BY <2>0, <2>1, <2>3, <2>8 DEF WriteDatabase, Goto
  <2>9. CASE VerifyPack
    <3>1. CASE cursor = PackCount
      <4>1. phase' = "rename" /\ cursor' = 1 /\ UNCHANGED <<tempPack, tempDatabase, listed>>
        BY <2>9, <3>1 DEF VerifyPack, Goto, files
      <4> QED BY <2>0, <2>1, <2>3, <4>1, Cursors
    <3>2. CASE cursor # PackCount
      <4>1. phase' = "verify" /\ UNCHANGED <<tempPack, tempDatabase, listed>>
        BY <2>9, <3>2 DEF VerifyPack, Goto, files
      <4> QED BY <2>0, <2>1, <2>3, <4>1
    <3> QED BY <3>1, <3>2
  <2>10. CASE RenamePack
    <3>1. /\ phase = "rename" /\ UNCHANGED <<tempDatabase, listed>>
          /\ tempPack' = [tempPack EXCEPT ![Mine(cursor)] = None]
          /\ IF cursor = PackCount THEN Goto("publish", 1) ELSE Goto("rename", cursor + 1)
      BY <2>10 DEF RenamePack
    <3>2. \A n \in PackNumbers : tempPack'[Mine(n)] = IF n = cursor THEN None ELSE tempPack[Mine(n)]
      BY <2>0, <2>1, <2>2, <3>1 DEF TypeOK
    <3>3. \A n \in PackNumbers : n < cursor + 1 => tempPack'[Mine(n)] = None
      BY <2>0, <3>1, <3>2, Cursors
    <3>4. ~streaming => \A n \in PackNumbers : n \in listed \/ tempPack'[Mine(n)] \in Old(n)
      BY <2>0, <3>2 DEF Old
    <3>5. CASE cursor = PackCount
      <4>1. \A n \in PackNumbers : tempPack'[Mine(n)] = None
        BY <2>0, <3>3, <3>5, Cursors
      <4> QED BY <2>0, <2>1, <2>3, <3>1, <3>4, <3>5, <4>1 DEF Goto
    <3>6. CASE cursor # PackCount
      BY <2>0, <2>1, <2>3, <3>1, <3>3, <3>4, <3>6 DEF Goto
    <3> QED BY <3>5, <3>6
  <2>11. CASE PublishDatabase
    BY <2>0, <2>1, <2>3, <2>11 DEF PublishDatabase, Goto, OldDatabase
  <2>12. CASE RecordPack
    BY <2>0, <2>1, <2>3, <2>12 DEF RecordPack, Goto, files
  <2> QED BY <1>4, <2>5, <2>6, <2>7, <2>8, <2>9, <2>10, <2>11, <2>12
<1> QED BY <1>1, <1>2, <1>3, <1>4 DEF Next, Progress

\* A failing end removes what was listed, and nothing else was written.
LEMMA FailureRemoves ==
  ASSUME IInv, Tidy, phase # "idle", ~streaming, Cleanup
  PROVE  /\ tempDatabase' \in OldDatabase
         /\ \A n \in PackNumbers : tempPack'[Mine(n)] \in Old(n)
<1>0. build \in Builds BY DEF IInv, TypeOK
<1>1. \A n \in PackNumbers : Mine(n) \in Names
  BY <1>0, NamesOfPacks DEF Mine
<1>2. CASE CleansUp
  <2>1. PICK gone \in ListedAtFailure :
          /\ tempPack' = [x \in Names |->
               IF \E n \in PackNumbers \cap gone : x = Mine(n) THEN None ELSE tempPack[x]]
          /\ tempDatabase' = IF DatabaseSlot \in gone THEN None ELSE tempDatabase
    BY <1>2 DEF Cleanup
  <2>2. listed \subseteq gone BY <2>1 DEF ListedAtFailure
  <2> QED BY <1>1, <2>1, <2>2 DEF Tidy, Old, OldDatabase
<1>3. CASE ~CleansUp
  <2>1. UNCHANGED <<tempPack, tempDatabase>> BY <1>3 DEF Cleanup
  <2>2. phase \in {"record", "checkpoint"}
    BY <1>3 DEF CleansUp, Tidy, IInv, TypeOK, Phases
  <2> QED BY <2>1, <2>2 DEF Tidy, Old, OldDatabase
<1> QED BY <1>2, <1>3

\* A build that succeeds leaves no temporary, not even one it found, and a batch
\* build that fails or is cancelled leaves none it wrote.
THEOREM TemporariesAreRemoved == Spec => TemporariesRemoved
<1> DEFINE Removed ==
      phase # "idle" =>
        /\ result' = "success" =>
             tempDatabase' = None /\ \A n \in PackNumbers : tempPack'[Mine(n)] = None
        /\ ~streaming /\ result' \in {"cancelled", "failed", "mismatch"} =>
             /\ tempDatabase' \in {None, previous.tempDatabase}
             /\ \A n \in PackNumbers : tempPack'[Mine(n)] \in {None, previous.tempPack[Mine(n)]}
<1>1. ASSUME IInv, Tidy, [Next]_vars PROVE Removed
  <2> SUFFICES ASSUME phase # "idle", result' \in {"success", "cancelled", "failed", "mismatch"}
               PROVE  Removed
    OBVIOUS
  <2>1. result = "none" BY <1>1 DEF Tidy
  <2>2. ReportSuccess \/ FailCancelled \/ FailIO \/ FailMismatch
    BY <1>1, <2>1 DEF Next, Progress, StartBuild, RequestCancel, Crash, End, StagePack, WritePack,
      AcceptStagedPack, WriteDatabase, VerifyPack, RenamePack, PublishDatabase, RecordPack, vars
  <2>3. CASE ReportSuccess
    BY <1>1, <2>3 DEF ReportSuccess, End, Tidy
  <2>4. CASE FailCancelled \/ FailIO \/ FailMismatch
    <3>1. Cleanup /\ result' # "success"
      BY <2>4 DEF FailCancelled, FailIO, FailMismatch, End
    <3> QED BY <1>1, <3>1, FailureRemoves DEF Old, OldDatabase
  <2> QED BY <2>2, <2>3, <2>4
<1>2. IInv /\ Tidy /\ [Next]_vars => [Removed]_vars BY <1>1
<1>3. Spec => []Tidy BY InitTidy, TidyStep, PublicationInvariant, PTL DEF Spec
<1> QED BY <1>2, <1>3, PublicationInvariant, PTL DEF Spec, TemporariesRemoved

-----------------------------------------------------------------------------
Readable == IF database = None \/ Complete(database) THEN database ELSE "broken"

\* With the invariant, what a reader finds is the database file.
LEMMA ReadableIsDatabase ==
  /\ IInv => Readable = database
  /\ IInv' => Readable' = database'
  BY DEF IInv, VisibleDatabaseComplete, Readable

\* Every step is one the reader of an atomically replaced database expects.
LEMMA StepImplementsAtomicDatabase ==
  IInv /\ IInv' /\ [Next]_vars => [Reader!AtomicNext]_(Reader!atomicVars)
<1> SUFFICES ASSUME IInv, IInv', [Next]_vars
             PROVE  [Reader!AtomicNext]_(<<Readable, build, result>>)
  BY DEF Reader!atomicVars, Readable
<1>0. Readable = database /\ Readable' = database'
  BY ReadableIsDatabase
<1> DEFINE GivesUp == \E answer \in {"cancelled", "failed", "mismatch", "crashed"} : End(answer)
<1>1. ASSUME NEW b \in Builds, NEW staged \in BOOLEAN, StartBuild(b, staged)
      PROVE  Reader!AtomicNext
  <2>1. build = None /\ build' = b /\ result' = "none" /\ database' = database
    BY <1>1 DEF StartBuild, IInv, Ready, files
  <2> QED BY <1>0, <2>1 DEF Reader!AtomicNext, Reader!Begin, Readable
<1>2. CASE PublishDatabase
  <2>1. build # None /\ database' = build /\ UNCHANGED <<build, result>>
    BY <1>2, PublicationAssumption DEF PublishDatabase, IInv, TypeOK, Ready, context
  <2> QED BY <1>0, <2>1 DEF Reader!AtomicNext, Reader!Publish, Readable
<1>3. CASE ReportSuccess
  <2>1. build # None /\ database = build /\ build' = None /\ result' = "success" /\ database' = database
    BY <1>3, PublicationAssumption DEF ReportSuccess, End, IInv, TypeOK, Ready
  <2> QED BY <1>0, <2>1 DEF Reader!AtomicNext, Reader!Succeed, Readable
<1>4. CASE Crash \/ FailIO \/ FailCancelled \/ FailMismatch
  <2>1. GivesUp /\ phase # "idle"
    BY <1>4 DEF Crash, FailIO, FailCancelled, FailMismatch
  <2>2. /\ build # None /\ build' = None /\ database' = database
        /\ result' \in {"cancelled", "failed", "mismatch", "crashed"}
    BY <2>1, PublicationAssumption DEF End, IInv, TypeOK
  <2> QED BY <1>0, <2>2 DEF Reader!AtomicNext, Reader!GiveUp, Readable
<1>5. CASE \/ RequestCancel \/ StagePack \/ WritePack \/ AcceptStagedPack \/ WriteDatabase
           \/ VerifyPack \/ RenamePack \/ RecordPack \/ UNCHANGED vars
  <2>1. UNCHANGED <<database, build, result>>
    BY <1>5 DEF RequestCancel, StagePack, WritePack, AcceptStagedPack, WriteDatabase, VerifyPack,
                RenamePack, RecordPack, files, context, vars
  <2> QED BY <1>0, <2>1
<1> QED BY <1>1, <1>2, <1>3, <1>4, <1>5 DEF Next, Progress

\* The output directory implements the atomically replaced database, for every
\* set of builds, every number of packs and every interruption.
THEOREM PublicationIsAtomic == Spec => ImplementsAtomicDatabase
<1>1. Init => Reader!AtomicInit
  <2> SUFFICES ASSUME Init PROVE Reader!AtomicInit
    OBVIOUS
  <2>1. Readable = database
    BY InitIInv, ReadableIsDatabase
  <2> QED BY <2>1 DEF Init, Reader!AtomicInit, Readable
<1> QED BY <1>1, StepImplementsAtomicDatabase, PublicationInvariant, PTL
       DEF Spec, ImplementsAtomicDatabase, Reader!AtomicSpec
=============================================================================
