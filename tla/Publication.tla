---------------------------- MODULE Publication ----------------------------
(***************************************************************************)
(* Publication of a terrain database: the pack files a build stages        *)
(* (build_packs), the files publish_outputs writes, verifies and renames,  *)
(* and the bookkeeping publish_build does afterwards                       *)
(* (src/src/builder/container_writer.cpp). Builds follow each other in one *)
(* output directory; any of them may fail, be cancelled or crash between   *)
(* two steps, and leaves its files as they are.                            *)
(*                                                                         *)
(* A pack file is named after the database id and its number, and a build  *)
(* is identified with the bytes it computes, so two builds with one id are *)
(* two builder versions that disagree on the bytes of a configuration.     *)
(***************************************************************************)
EXTENDS Integers

CONSTANTS
  Builds,       \* the builds that may run in the output directory
  Ids,          \* database ids
  IdOf,         \* the database id of each build
  PackCount,    \* packs of every build
  MaxAttempts,  \* bound on the number of builds that are started
  None          \* no file, no build

ASSUME PublicationAssumption ==
  /\ IdOf \in [Builds -> Ids]
  /\ PackCount \in Nat \ {0}
  /\ MaxAttempts \in Nat
  /\ None \notin Builds
  /\ "partial" \notin Builds
  /\ None # "partial"

VARIABLES
  finalPack,        \* Packs/<name>_<id>_F.._L.._P<n>.ltp: whose bytes it holds
  tempPack,         \* its temporary sibling
  database,         \* <name>.ltdb: the build whose bytes it holds
  tempDatabase,     \* .<name>.ltdb.tmp
  phase,            \* where the running build stands
  build,            \* the running build
  streaming,        \* its packs were staged to disk by build_packs
  cursor,           \* index of the current loop over the packs
  listed,           \* temporary_paths: pack numbers, and DatabaseSlot
  cancelRequested,  \* the stop_token of the running process
  previous,         \* the files the last build found (history)
  result,           \* what the last build answered
  attempts

files   == <<finalPack, tempPack, database, tempDatabase>>
control == <<phase, cursor, listed>>
context == <<build, streaming, previous, attempts>>
vars    == <<files, control, context, cancelRequested, result>>

PackNumbers  == 1 .. PackCount
DatabaseSlot == 0
Names        == Ids \X PackNumbers
Name(b, n)   == <<IdOf[b], n>>
Mine(n)      == Name(build, n)

Init ==
  /\ database \in Builds \cup {None}
  /\ finalPack \in [Names -> Builds \cup {None}]
  /\ \A x \in Names : finalPack[x] # None => IdOf[finalPack[x]] = x[1]
  /\ database # None => \A n \in PackNumbers : finalPack[Name(database, n)] = database
  /\ tempPack = [x \in Names |-> None]
  /\ tempDatabase = None
  /\ phase = "idle"
  /\ build = None
  /\ streaming = FALSE
  /\ cursor = 1
  /\ listed = {}
  /\ cancelRequested = FALSE
  /\ previous = [database |-> database, tempPack |-> tempPack, tempDatabase |-> None]
  /\ result = "none"
  /\ attempts = 0

-----------------------------------------------------------------------------
(* The environment *)

\* build_packs stages to disk as soon as one tile carries no payload in memory.
StartBuild(b, staged) ==
  /\ phase = "idle"
  /\ attempts < MaxAttempts
  /\ phase' = IF staged THEN "stage" ELSE "packs"
  /\ build' = b
  /\ streaming' = staged
  /\ cursor' = 1
  /\ listed' = {}
  /\ cancelRequested' = FALSE
  /\ previous' = [database |-> database, tempPack |-> tempPack, tempDatabase |-> tempDatabase]
  /\ result' = "none"
  /\ attempts' = attempts + 1
  /\ UNCHANGED files

RequestCancel ==
  /\ phase # "idle"
  /\ ~cancelRequested
  /\ cancelRequested' = TRUE
  /\ UNCHANGED <<files, control, context, result>>

End(answer) ==
  /\ phase' = "idle"
  /\ build' = None
  /\ result' = answer
  /\ UNCHANGED <<database, streaming, cursor, listed, cancelRequested, previous, attempts>>

\* The process dies: nothing is cleaned up.
Crash ==
  /\ phase # "idle"
  /\ End("crashed")
  /\ UNCHANGED <<finalPack, tempPack, tempDatabase>>

-----------------------------------------------------------------------------
(* The running build. A step that follows check_build_execution, or that   *)
(* ends in the checks of write_file_synced and read_file, needs            *)
(* ~cancelRequested.                                                       *)

Goto(next, at) == phase' = next /\ cursor' = at

\* Opening a temporary file truncates it.
OpenTemporary(next) ==
  /\ ~cancelRequested
  /\ tempPack' = [tempPack EXCEPT ![Mine(cursor)] = "partial"]
  /\ Goto(next, cursor)

\* The descriptor is closed after the last block was written and synchronized.
CloseTemporary(next, done) ==
  /\ ~cancelRequested
  /\ tempPack' = [tempPack EXCEPT ![Mine(cursor)] = build]
  /\ IF cursor = PackCount THEN Goto(done, 1) ELSE Goto(next, cursor + 1)

\* build_packs writes each pack of a streaming build to its temporary.
StagePack ==
  /\ \/ phase = "stage" /\ OpenTemporary("stageWrite")
     \/ phase = "stageWrite" /\ CloseTemporary("stage", "packs")
  /\ UNCHANGED <<finalPack, database, tempDatabase, listed, context, cancelRequested, result>>

\* First loop of publish_outputs: every temporary is listed for the cleanup,
\* then written, or found there with its size.
WritePack ==
  /\ \/ /\ phase = "packs" /\ ~streaming
        /\ listed' = listed \cup {cursor}
        /\ OpenTemporary("packsWrite")
     \/ /\ phase = "packsWrite"
        /\ CloseTemporary("packs", "database")
        /\ UNCHANGED listed
  /\ UNCHANGED <<finalPack, database, tempDatabase, context, cancelRequested, result>>

AcceptStagedPack ==
  /\ phase = "packs" /\ streaming
  /\ ~cancelRequested
  /\ tempPack[Mine(cursor)] = build
  /\ listed' = listed \cup {cursor}
  /\ IF cursor = PackCount THEN Goto("database", 1) ELSE Goto("packs", cursor + 1)
  /\ UNCHANGED <<files, context, cancelRequested, result>>

WriteDatabase ==
  /\ ~cancelRequested
  /\ \/ /\ phase = "database"
        /\ listed' = listed \cup {DatabaseSlot}
        /\ tempDatabase' = "partial"
        /\ Goto("databaseWrite", 1)
     \/ /\ phase = "databaseWrite"
        /\ tempDatabase' = build
        /\ Goto("verify", 1)
        /\ UNCHANGED listed
  /\ UNCHANGED <<finalPack, tempPack, database, context, cancelRequested, result>>

\* Mistake: a pack that is already there is not looked at.
VerifyPack_Trusts ==
  /\ phase = "verify"
  /\ ~cancelRequested
  /\ IF cursor = PackCount THEN Goto("rename", 1) ELSE Goto("verify", cursor + 1)
  /\ UNCHANGED <<files, listed, context, cancelRequested, result>>

\* Second loop: a pack that is already there must hold the same bytes.
VerifyPack ==
  /\ phase = "verify"
  /\ ~cancelRequested
  /\ finalPack[Mine(cursor)] \in {None, build}
  /\ IF cursor = PackCount THEN Goto("rename", 1) ELSE Goto("verify", cursor + 1)
  /\ UNCHANGED <<files, listed, context, cancelRequested, result>>

\* Third loop: the temporary becomes the pack, or is dropped for the one there.
RenamePack ==
  /\ phase = "rename"
  /\ ~cancelRequested
  /\ finalPack' = [finalPack EXCEPT ![Mine(cursor)] =
                     IF @ = None THEN tempPack[Mine(cursor)] ELSE @]
  /\ tempPack' = [tempPack EXCEPT ![Mine(cursor)] = None]
  /\ IF cursor = PackCount THEN Goto("publish", 1) ELSE Goto("rename", cursor + 1)
  /\ UNCHANGED <<database, tempDatabase, listed, context, cancelRequested, result>>

\* Mistake: any database that is already there is left alone.
PublishDatabase_Keeps ==
  /\ phase = "publish"
  /\ ~cancelRequested
  /\ database' = IF database # None THEN database ELSE tempDatabase
  /\ tempDatabase' = None
  /\ Goto("record", 1)
  /\ UNCHANGED <<finalPack, tempPack, listed, context, cancelRequested, result>>

\* An identical database is left alone, any other is atomically replaced.
PublishDatabase ==
  /\ phase = "publish"
  /\ ~cancelRequested
  /\ database' = IF database = build THEN database ELSE tempDatabase
  /\ tempDatabase' = None
  /\ Goto("record", 1)
  /\ UNCHANGED <<finalPack, tempPack, listed, context, cancelRequested, result>>

\* publish_build: UpdatePacking for the tiles of each pack, then the checkpoint.
RecordPack ==
  /\ phase = "record"
  /\ ~cancelRequested
  /\ IF cursor = PackCount THEN Goto("checkpoint", 1) ELSE Goto("record", cursor + 1)
  /\ UNCHANGED <<files, listed, context, cancelRequested, result>>

ReportSuccess ==
  /\ phase = "checkpoint"
  /\ ~cancelRequested
  /\ End("success")
  /\ UNCHANGED <<finalPack, tempPack, tempDatabase>>

-----------------------------------------------------------------------------
(* The failing ends of the running build *)

CleansUp == phase \in {"packs", "packsWrite", "database", "databaseWrite",
                       "verify", "rename", "publish"}

\* The path being looked at is listed before a write to it can fail, but after
\* the check at the head of the first loop.
ListedAtFailure ==
  CASE phase = "packs"    -> {listed, listed \cup {cursor}}
    [] phase = "database" -> {listed \cup {DatabaseSlot}}
    [] OTHER -> {listed}

\* Mistake: the cleanup forgets the database's own temporary.
Cleanup_OnlyPacks ==
  IF CleansUp
  THEN /\ \E gone \in ListedAtFailure :
            tempPack' = [x \in Names |->
              IF \E n \in PackNumbers \cap gone : x = Mine(n) THEN None ELSE tempPack[x]]
       /\ UNCHANGED tempDatabase
  ELSE UNCHANGED <<tempPack, tempDatabase>>

\* Every failing return of publish_outputs first removes the listed temporaries;
\* build_packs and the bookkeeping after publication return as they are.
Cleanup ==
  IF CleansUp
  THEN \E gone \in ListedAtFailure :
         /\ tempPack' = [x \in Names |->
              IF \E n \in PackNumbers \cap gone : x = Mine(n) THEN None ELSE tempPack[x]]
         /\ tempDatabase' = IF DatabaseSlot \in gone THEN None ELSE tempDatabase
  ELSE UNCHANGED <<tempPack, tempDatabase>>

\* Mistake: a cancelled build takes back the packs it has already renamed.
FailCancelled_TakesBack ==
  /\ phase # "idle"
  /\ cancelRequested
  /\ Cleanup
  /\ End("cancelled")
  /\ finalPack' = [x \in Names |->
       IF phase = "rename" /\ \E n \in 1 .. cursor - 1 : x = Mine(n) THEN None ELSE finalPack[x]]

FailCancelled ==
  /\ phase # "idle"
  /\ cancelRequested
  /\ Cleanup
  /\ End("cancelled")
  /\ UNCHANGED finalPack

\* An I/O error, an SQLite error, or a progress sink that could not report.
FailIO ==
  /\ phase # "idle"
  /\ Cleanup
  /\ End("failed")
  /\ UNCHANGED finalPack

\* Mistake: the build waits for the other bytes to go away.
FailMismatch_Waits ==
  /\ phase = "verify"
  /\ ~cancelRequested
  /\ finalPack[Mine(cursor)] \notin {None, build}
  /\ Goto("verify", cursor)
  /\ UNCHANGED <<files, listed, context, cancelRequested, result>>

\* A pack already published under this name holds other bytes.
FailMismatch ==
  /\ phase = "verify"
  /\ ~cancelRequested
  /\ finalPack[Mine(cursor)] \notin {None, build}
  /\ Cleanup
  /\ End("mismatch")
  /\ UNCHANGED finalPack

Progress ==
  \/ StagePack \/ WritePack \/ AcceptStagedPack \/ WriteDatabase
  \/ VerifyPack \/ RenamePack \/ PublishDatabase \/ RecordPack \/ ReportSuccess
  \/ FailCancelled \/ FailMismatch

Next ==
  \/ \E b \in Builds, staged \in BOOLEAN : StartBuild(b, staged)
  \/ RequestCancel
  \/ Crash
  \/ FailIO
  \/ Progress

\* A running build keeps running; nothing obliges anyone to start or cancel it.
Spec == Init /\ [][Next]_vars /\ WF_vars(Progress)

-----------------------------------------------------------------------------
(* Properties *)

Phases == {"idle", "stage", "stageWrite", "packs", "packsWrite", "database", "databaseWrite",
           "verify", "rename", "publish", "record", "checkpoint"}

TypeOK ==
  /\ finalPack \in [Names -> Builds \cup {None, "partial"}]
  /\ tempPack \in [Names -> Builds \cup {None, "partial"}]
  /\ database \in Builds \cup {None, "partial"}
  /\ tempDatabase \in Builds \cup {None, "partial"}
  /\ phase \in Phases
  /\ build \in Builds \cup {None}
  /\ phase # "idle" => build \in Builds
  /\ streaming \in BOOLEAN
  /\ cursor \in PackNumbers
  /\ listed \in SUBSET (PackNumbers \cup {DatabaseSlot})
  /\ cancelRequested \in BOOLEAN
  /\ result \in {"none", "success", "cancelled", "failed", "mismatch", "crashed"}
  /\ attempts \in 0 .. MaxAttempts

Complete(b) == \A n \in PackNumbers : finalPack[Name(b, n)] = b

\* Whenever a database is visible, every pack it names is there with the bytes
\* it was published with: after a crash, a cancellation or an I/O error between
\* any two steps of any build, also of another version of the same build.
VisibleDatabaseComplete == database # None => database \in Builds /\ Complete(database)

\* No interruption leaves a torn file under the name of a pack, where it would
\* make every later build of that database end in hash_mismatch.
PacksWhole == \A x \in Names : finalPack[x] # "partial"

\* A pack that was once published never changes and never goes away: a reader
\* that holds an earlier database keeps its terrain.
PublishedPacksImmutable ==
  [][\A x \in Names : finalPack[x] # None => finalPack'[x] = finalPack[x]]_vars

\* A build that reports success has moved or removed all its temporaries, those
\* an interrupted build of the same database left behind included. One that fails
\* before the database is replaced, without crashing, leaves none it wrote. (The
\* packs of a streaming build are written earlier and are not listed for the
\* cleanup until their turn comes.)
TemporariesRemoved ==
  [][phase # "idle" =>
       /\ result' = "success" =>
            tempDatabase' = None /\ \A n \in PackNumbers : tempPack'[Mine(n)] = None
       /\ ~streaming /\ result' \in {"cancelled", "failed", "mismatch"} =>
            /\ tempDatabase' \in {None, previous.tempDatabase}
            /\ \A n \in PackNumbers : tempPack'[Mine(n)] \in {None, previous.tempPack[Mine(n)]}]_vars

\* The output directory implements the atomically replaced database a reader
\* expects; success is reported only for the database that is published.
Reader == INSTANCE AtomicDatabase WITH
  published <- IF database = None \/ Complete(database) THEN database ELSE "broken",
  building  <- build,
  answer    <- result
ImplementsAtomicDatabase == Reader!AtomicSpec

\* Every build ends, whatever it finds in the output directory.
EveryBuildEnds == phase # "idle" ~> phase = "idle"

\* plans/05_Run_Optimization_ImplementationPlan.md:24: cancellation preserves
\* the previously published database.
CancellationPreservesDatabase == result = "cancelled" => database = previous.database
=============================================================================
