---------------------------- MODULE DecodedCache ----------------------------
(***************************************************************************)
(* The decoded rasters that builders keep in a directory between builds    *)
(* (LUNAR_TERRAIN_DECODED_CACHE): EnsureFullRasterCache and                *)
(* EnsureQualityCaches, load_decoded_cache and persist_decoded_cache of    *)
(* src/src/builder/raster_source.cpp. A source decodes its elevations and  *)
(* then its companions; a raster whose file is there is loaded, another    *)
(* one is decoded and its file written under a temporary name.             *)
(*                                                                         *)
(* Sources of one process or of several use the same files, and the same   *)
(* temporary names: files are therefore inodes that a name leads to, and   *)
(* that a stream holds on to. A file and the samples in memory consist of  *)
(* blocks, the header or the allocation first; we record which of them are *)
(* what decoding gives. A hash is what it is taken of.                     *)
(***************************************************************************)
EXTENDS Integers, FiniteSets

CONSTANTS
  Sources,    \* the raster sources that are open, of all processes
  ProcessOf,  \* the process that a source belongs to
  PathOf,     \* the file of every raster of a source, elevations first
  Chunks,     \* blocks of samples in a raster
  Inodes,     \* bound: files that exist at one time, named or open
  MaxStops    \* bound: stops of a process or of the machine

Paths      == UNION {{PathOf[s][r] : r \in DOMAIN PathOf[s]} : s \in Sources}
Rasters(s) == DOMAIN PathOf[s]

\* A source has at least its elevations, and no raster twice; the number of its
\* companions is that of its kind of quality. No file is numbered zero.
ASSUME CacheAssumption ==
  /\ 0 \notin Inodes
  /\ Chunks \in Nat \ {0} /\ MaxStops \in Nat
  /\ \A s \in Sources : 1 \in Rasters(s) /\ Rasters(s) \subseteq Nat \ {0}
  /\ \A s \in Sources : \A r \in Rasters(s) : 1 .. r \subseteq Rasters(s)
  /\ \A s \in Sources : \A r, q \in Rasters(s) : PathOf[s][r] = PathOf[s][q] => r = q

VARIABLES
  rooted,     \* whether there is a directory for decoded rasters
  inodes,     \* what is in the files
  published,  \* the file that the name of a decoded raster leads to
  temporary,  \* the file that its temporary name leads to
  pc,         \* where every source is
  raster,     \* the raster that it is at
  stream,     \* the file that it reads or writes
  at,         \* the block of it that follows
  memory,     \* the samples that it holds
  attempted,  \* the rasters that it has tried to decode
  outcome,    \* how decoding ended
  disturbed,  \* two writers met at one temporary name, or the machine stopped
  stops       \* stops so far

files == <<inodes, published, temporary>>

cacheVars == <<rooted, files, pc, raster, stream, at, memory, attempted, outcome, disturbed, stops>>

NoFile == 0
Blocks == 0 .. Chunks
Blank  == [size |-> 0, right |-> {}]

\* Where the samples of a raster are kept, and nothing without a directory.
Path(s) == PathOf[s][raster[s]]

CacheInit ==
  /\ rooted \in BOOLEAN
  /\ inodes = [i \in Inodes |-> Blank]
  /\ published = [p \in Paths |-> NoFile]
  /\ temporary = [p \in Paths |-> NoFile]
  /\ pc = [s \in Sources |-> "idle"]
  /\ raster = [s \in Sources |-> 1]
  /\ stream = [s \in Sources |-> NoFile]
  /\ at = [s \in Sources |-> 0]
  /\ memory = [s \in Sources |-> [r \in Rasters(s) |-> {}]]
  /\ attempted = [s \in Sources |-> {}]
  /\ outcome = [s \in Sources |-> "none"]
  /\ disturbed = FALSE
  /\ stops = 0

Goto(s, label) == pc' = [pc EXCEPT ![s] = label]

End(s, how) == Goto(s, "idle") /\ outcome' = [outcome EXCEPT ![s] = how]

Hold(s, samples) == memory' = [memory EXCEPT ![s][raster[s]] = samples]

Close(s) == stream' = [stream EXCEPT ![s] = NoFile] /\ at' = [at EXCEPT ![s] = 0]

Advance(s) == Goto(s, "next") /\ raster' = [raster EXCEPT ![s] = @ + 1]

-----------------------------------------------------------------------------
(* EnsureFullRasterCache, EnsureQualityCaches *)

Begin(s) ==
  /\ pc[s] = "idle"
  /\ Goto(s, "next")
  /\ raster' = [raster EXCEPT ![s] = 1]
  /\ outcome' = [outcome EXCEPT ![s] = "none"]
  /\ UNCHANGED <<rooted, files, stream, at, memory, attempted, disturbed, stops>>

AllRastersDone(s) ==
  /\ pc[s] = "next" /\ raster[s] \notin Rasters(s)
  /\ End(s, "ready")
  /\ UNCHANGED <<rooted, files, raster, stream, at, memory, attempted, disturbed, stops>>

\* A raster is tried once, however that ends.
SkipRaster(s) ==
  /\ pc[s] = "next" /\ raster[s] \in attempted[s]
  /\ Advance(s)
  /\ UNCHANGED <<rooted, files, stream, at, memory, attempted, outcome, disturbed, stops>>

AttemptRaster(s) ==
  /\ pc[s] = "next" /\ raster[s] \in Rasters(s) \ attempted[s]
  /\ attempted' = [attempted EXCEPT ![s] = @ \cup {raster[s]}]
  /\ Goto(s, IF rooted /\ published[Path(s)] # NoFile THEN "open" ELSE "decode")
  /\ UNCHANGED <<rooted, files, raster, stream, at, memory, outcome, disturbed, stops>>

Decode(s) ==
  /\ pc[s] = "decode"
  /\ Hold(s, Blocks)
  /\ IF rooted THEN Goto(s, "hash") /\ UNCHANGED raster ELSE Advance(s)
  /\ UNCHANGED <<rooted, files, stream, at, attempted, outcome, disturbed, stops>>

-----------------------------------------------------------------------------
(* load_decoded_cache *)

\* The size of the file is looked at before anything is read.
OpenCache(s) ==
  /\ pc[s] = "open"
  /\ LET file == published[Path(s)]
     IN  IF inodes[file].size = Chunks + 1
         THEN /\ Goto(s, "header")
              /\ stream' = [stream EXCEPT ![s] = file]
              /\ UNCHANGED outcome
         ELSE End(s, "rejected") /\ UNCHANGED stream
  /\ UNCHANGED <<rooted, files, raster, at, memory, attempted, disturbed, stops>>

ReadHeader(s) ==
  /\ pc[s] = "header"
  /\ IF 0 \in inodes[stream[s]].right
     THEN /\ Goto(s, "load") /\ Hold(s, {0})
          /\ at' = [at EXCEPT ![s] = 1]
          /\ UNCHANGED <<outcome, stream>>
     ELSE /\ End(s, "rejected")
          /\ stream' = [stream EXCEPT ![s] = NoFile]
          /\ UNCHANGED <<memory, at>>
  /\ UNCHANGED <<rooted, files, raster, attempted, disturbed, stops>>

ReadChunk(s) ==
  /\ pc[s] = "load" /\ at[s] <= Chunks
  /\ Hold(s, memory[s][raster[s]] \cup (inodes[stream[s]].right \cap {at[s]}))
  /\ at' = [at EXCEPT ![s] = @ + 1]
  /\ UNCHANGED <<rooted, files, pc, raster, stream, attempted, outcome, disturbed, stops>>

\* Mistake: what does not have the hash in the header stays in memory.
FinishLoad_Keeps(s) ==
  /\ pc[s] = "load" /\ at[s] > Chunks
  /\ Close(s)
  /\ IF memory[s][raster[s]] = Blocks
     THEN Advance(s) /\ UNCHANGED <<memory, outcome>>
     ELSE End(s, "rejected") /\ UNCHANGED <<memory, raster>>
  /\ UNCHANGED <<rooted, files, attempted, disturbed, stops>>

FinishLoad(s) ==
  /\ pc[s] = "load" /\ at[s] > Chunks
  /\ Close(s)
  /\ IF memory[s][raster[s]] = Blocks
     THEN Advance(s) /\ UNCHANGED <<memory, outcome>>
     ELSE End(s, "rejected") /\ Hold(s, {}) /\ UNCHANGED raster
  /\ UNCHANGED <<rooted, files, attempted, disturbed, stops>>

-----------------------------------------------------------------------------
(* persist_decoded_cache *)

HashSamples(s) ==
  /\ pc[s] = "hash"
  /\ Goto(s, "create")
  /\ UNCHANGED <<rooted, files, raster, stream, at, memory, attempted, outcome, disturbed, stops>>

Unused(i) ==
  /\ \A p \in Paths : published[p] # i /\ temporary[p] # i
  /\ \A s \in Sources : stream[s] # i

Writing(s) == pc[s] \in {"write", "publish", "discard"}

\* A file of that name is emptied, whoever writes it.
CreateTemporary(s) ==
  /\ pc[s] = "create"
  /\ \E i \in Inodes :
       /\ IF temporary[Path(s)] # NoFile THEN i = temporary[Path(s)]
          ELSE Unused(i) /\ i = CHOOSE j \in Inodes : Unused(j)
       /\ inodes' = [inodes EXCEPT ![i] = Blank]
       /\ temporary' = [temporary EXCEPT ![Path(s)] = i]
       /\ stream' = [stream EXCEPT ![s] = i]
  /\ at' = [at EXCEPT ![s] = 0]
  /\ Goto(s, "write")
  /\ disturbed' = (disturbed \/ \E t \in Sources \ {s} : Writing(t) /\ Path(t) = Path(s))
  /\ UNCHANGED <<rooted, published, raster, memory, attempted, outcome, stops>>

\* A block goes where the stream is; a gap before it reads as zeros.
WriteBlock(s) ==
  /\ pc[s] = "write" /\ at[s] <= Chunks
  /\ inodes' = [inodes EXCEPT ![stream[s]] =
       [size |-> IF @.size <= at[s] THEN at[s] + 1 ELSE @.size, right |-> @.right \cup {at[s]}]]
  /\ at' = [at EXCEPT ![s] = @ + 1]
  /\ UNCHANGED <<rooted, published, temporary, pc, raster, stream, memory, attempted, outcome, disturbed, stops>>

CloseTemporary(s) ==
  /\ pc[s] = "write" /\ at[s] > Chunks
  /\ Close(s)
  /\ Goto(s, "publish")
  /\ UNCHANGED <<rooted, files, raster, memory, attempted, outcome, disturbed, stops>>

\* Whatever file has the temporary name is published; there may be none.
Publish(s) ==
  /\ pc[s] = "publish"
  /\ IF temporary[Path(s)] # NoFile
     THEN /\ published' = [published EXCEPT ![Path(s)] = temporary[Path(s)]]
          /\ temporary' = [temporary EXCEPT ![Path(s)] = NoFile]
          /\ Advance(s) /\ UNCHANGED outcome
     ELSE /\ Goto(s, "discard")
          /\ outcome' = [outcome EXCEPT ![s] = "unpublished"]
          /\ UNCHANGED <<published, temporary, raster>>
  /\ UNCHANGED <<rooted, inodes, stream, at, memory, attempted, disturbed, stops>>

\* What was not written to its end, or not published, is removed by its name.
Discard(s) ==
  /\ pc[s] = "discard"
  /\ temporary' = [temporary EXCEPT ![Path(s)] = NoFile]
  /\ inodes' = [i \in Inodes |->
       IF i = temporary[Path(s)] /\ ~\E t \in Sources : stream[t] = i THEN Blank ELSE inodes[i]]
  /\ Goto(s, "idle")
  /\ UNCHANGED <<rooted, published, raster, stream, at, memory, attempted, outcome, disturbed, stops>>

-----------------------------------------------------------------------------
(* Interruptions *)

\* A decoding or a load that ends early leaves no samples; the hash and the file
\* are made from samples that stay.
GiveUp(s, how) ==
  /\ IF pc[s] \in {"decode", "load"} THEN Hold(s, {}) ELSE UNCHANGED memory
  /\ Close(s)
  /\ outcome' = [outcome EXCEPT ![s] = how]
  /\ UNCHANGED <<rooted, files, raster, attempted, disturbed, stops>>

\* Mistake: a file that could not be written to its end is published.
Cancel_Publishes(s) ==
  /\ pc[s] \in {"next", "load", "decode", "hash", "write"}
  /\ GiveUp(s, "cancelled")
  /\ Goto(s, IF pc[s] = "write" THEN "publish" ELSE "idle")

\* The run is cancelled, which is noticed before every chunk.
Cancel(s) ==
  /\ pc[s] \in {"next", "load", "decode", "hash", "write"}
  /\ GiveUp(s, "cancelled")
  /\ Goto(s, IF pc[s] = "write" THEN "discard" ELSE "idle")

\* A file cannot be opened, read, written or renamed, or GDAL reports an error.
Fail(s) ==
  /\ pc[s] \in {"open", "header", "load", "decode", "create", "write", "publish"}
  /\ GiveUp(s, "failed")
  /\ Goto(s, IF pc[s] \in {"write", "publish"} THEN "discard" ELSE "idle")

Restarted(gone) ==
  /\ pc' = [s \in Sources |-> IF s \in gone THEN "idle" ELSE pc[s]]
  /\ raster' = [s \in Sources |-> IF s \in gone THEN 1 ELSE raster[s]]
  /\ stream' = [s \in Sources |-> IF s \in gone THEN NoFile ELSE stream[s]]
  /\ at' = [s \in Sources |-> IF s \in gone THEN 0 ELSE at[s]]
  /\ memory' = [s \in Sources |-> IF s \in gone THEN [r \in Rasters(s) |-> {}] ELSE memory[s]]
  /\ attempted' = [s \in Sources |-> IF s \in gone THEN {} ELSE attempted[s]]
  /\ outcome' = [s \in Sources |-> IF s \in gone THEN "none" ELSE outcome[s]]
  /\ stops < MaxStops /\ stops' = stops + 1
  /\ UNCHANGED <<rooted, published, temporary>>

\* A process is killed, and started again; a temporary file stays.
Kill(process) ==
  /\ Restarted({s \in Sources : ProcessOf[s] = process})
  /\ UNCHANGED <<inodes, disturbed>>

\* Nothing is synchronized, so a file may lose what was written to it.
Torn(file) ==
  {[size |-> n, right |-> some] : n \in 0 .. file.size, some \in SUBSET file.right}

MachineStop ==
  /\ Restarted(Sources)
  /\ disturbed' = TRUE
  /\ \E p \in Paths :
       /\ published[p] # NoFile
       /\ \E file \in Torn(inodes[published[p]]) :
            inodes' = [inodes EXCEPT ![published[p]] = [file EXCEPT !.right = @ \cap 0 .. file.size - 1]]

-----------------------------------------------------------------------------

Progress(s) ==
  \/ AllRastersDone(s) \/ SkipRaster(s) \/ AttemptRaster(s) \/ Decode(s)
  \/ OpenCache(s) \/ ReadHeader(s) \/ ReadChunk(s) \/ FinishLoad(s)
  \/ HashSamples(s) \/ CreateTemporary(s) \/ WriteBlock(s) \/ CloseTemporary(s) \/ Publish(s) \/ Discard(s)

Interrupt(s) == Cancel(s) \/ Fail(s)

Stop == MachineStop \/ \E s \in Sources : Kill(ProcessOf[s])

CacheNext == Stop \/ \E s \in Sources : Begin(s) \/ Progress(s) \/ Interrupt(s)

CacheSpec == CacheInit /\ [][CacheNext]_cacheVars

-----------------------------------------------------------------------------
(* Properties *)

\* Samples in memory that are not being loaded are all decoded ones, whatever
\* became of the file they were loaded from, and however a load ended. A raster
\* is not tried again, so wrong samples would go into every tile that follows.
SamplesAreDecoded ==
  \A s \in Sources : \A r \in Rasters(s) :
    \/ memory[s][r] \in {{}, Blocks}
    \/ pc[s] = "load" /\ raster[s] = r

\* As long as no two sources write one file at a time and the machine does not
\* stop, a published file is complete, and so nothing is rejected: neither
\* cancelling a run, nor an error, nor killing a process leaves a file that
\* would fail the builds that follow.
UndisturbedCacheLoads ==
  ~disturbed =>
    /\ \A p \in Paths : published[p] # NoFile => inodes[published[p]] = [size |-> Chunks + 1, right |-> Blocks]
    /\ \A s \in Sources : outcome[s] \notin {"rejected", "unpublished"}
=============================================================================
