---------------------------- MODULE DatabaseFile ----------------------------
(***************************************************************************)
(* The file of the database: make_database_file and the chunks it is made  *)
(* of (src/src/builder/container_writer.cpp), and parse_database           *)
(* (src/src/core/database.cpp), which opens it. The file is written when   *)
(* the packs of module Packing are complete; module TileFormat says what   *)
(* the payloads in them hold.                                              *)
(*                                                                         *)
(* A text is a natural number, in the order of the texts, and zero is the  *)
(* empty one. A chunk has a size and something that it holds; the body of  *)
(* a file has a chunk at every offset where one was written. Constant      *)
(* fields, checksums and the hashes of the packs are left out; a hash is   *)
(* what it is taken of.                                                    *)
(***************************************************************************)
EXTENDS Packing, TileFormat

CONSTANTS
  Databases,  \* [tiles, contents, datasets] from which a database is made
  Length,     \* of every text, in bytes
  PathOf      \* the relative path of every pack

VARIABLES
  contents,   \* what every tile is made from
  datasets,   \* the sources, in the order of the configuration
  encoded,    \* the tiles, as encode_tile left them
  file        \* the file of the database, or NoFile

written == <<contents, datasets, encoded>>

databaseVars == <<vars, written, file>>

NoFile == <<>>
Empty  == 0

Dataset == [id : Nat, resolution : Nat, strings : Seq(DOMAIN Length), metadata : DOMAIN Length]

\* A tile shows the samples of some of the sources, of one at least and of no
\* more than encode_tile takes; an error is a difference of two elevations.
Fused(content, sources) ==
  /\ Sources(content) \subseteq {d.id : d \in Range(sources)}
  /\ \A s \in CoreSamples : content.weights[s] \in [Sources(content) -> 0 .. Unit]
  /\ \E id \in Sources(content) : Total(content, id, CoreSamples) > 0
  /\ Len(Palette(content)) < ByteValues * ByteValues
  /\ content.codes \in Seq(0 .. Codes - 1) /\ Len(content.codes) = Serialized * Serialized
  /\ content.error \in 0 .. 4 * Codes /\ content.stored \in [1 .. 3 -> Nat]

\* Texts have a length; no path is empty, no metadata, and no identifier occurs
\* twice; every tile shows a source.
ASSUME DatabaseAssumption ==
  /\ DOMAIN Length \subseteq Nat /\ Length \in [DOMAIN Length -> Nat] /\ Empty \in DOMAIN Length
  /\ \A d \in Databases :
       /\ d.datasets \in Seq(Dataset) /\ d.datasets # <<>>
       /\ \A s \in Range(d.datasets) : Length[s.metadata] > 0
       /\ \A j, k \in DOMAIN d.datasets : d.datasets[j].id = d.datasets[k].id => j = k
       /\ \A k \in DOMAIN d.tiles : Fused(d.contents[k], d.datasets)
       /\ \A k \in DOMAIN d.tiles :
            k - 1 \in DOMAIN PathOf /\ PathOf[k - 1] \in DOMAIN Length \ {Empty}

FileHeader     == 256
DirectoryEntry == 40
DatasetRecord  == 128
PackRecord     == 80
IndexRecord    == 80

\* The tags of the chunks, in their order.
DSET == 1
META == 2
PACK == 3
STRS == 4
TIDX == 5

\* The pipeline has encoded every tile before it is packed.
DatabaseInit ==
  /\ \E d \in Databases :
       /\ tiles = d.tiles /\ contents = d.contents /\ datasets = d.datasets
       /\ encoded = [k \in DOMAIN d.tiles |->
            EncodeTile(d.tiles[k], d.contents[k], Summarize(d.contents[k]), d.datasets)]
  /\ \A k \in DOMAIN tiles : tiles[k].bytes = encoded[k].payload.size
  /\ Init
  /\ file = NoFile

-----------------------------------------------------------------------------
(* The writer *)

Chunk(size, holds) == [size |-> size, holds |-> holds]

\* The datasets are sorted before anything is derived from them.
Registry ==
  LET ids == Ascending({d.id : d \in Range(datasets)})
  IN  [k \in DOMAIN ids |-> CHOOSE d \in Range(datasets) : d.id = ids[k]]

\* The texts of the datasets and packs, in order and behind the empty one.
Texts ==
  LET named == {Range(d.strings) : d \in Range(datasets)}
      paths == {PathOf[p.pack_id] : p \in Range(packs)}
      texts == (UNION named) \cup paths
  IN  <<Empty>> \o Ascending(texts \ {Empty})

\* Where every text is in STRS, and where they end.
StringOffsets(texts) ==
  LET offset[k \in 1 .. Len(texts) + 1] ==
        IF k = 1 THEN 0 ELSE Aligned(offset[k - 1] + 4 + Length[texts[k - 1]], 4)
  IN  offset

\* make_string_table: what is at every offset of STRS
StringsAt(texts, offset) ==
  Chunk(offset[Len(texts) + 1],
        [o \in {offset[k] : k \in DOMAIN texts} |-> texts[CHOOSE k \in DOMAIN texts : offset[k] = o]])

StringTable == StringsAt(Texts, StringOffsets(Texts))

StringId(table, text) == CHOOSE o \in DOMAIN table.holds : table.holds[o] = text

\* Where the metadata of every dataset begin in META.
MetaOffsets ==
  [k \in DOMAIN Registry |-> SumFunction([j \in 1 .. k - 1 |-> Length[Registry[j].metadata]])]

DatasetChunk(table) ==
  Chunk(DatasetRecord * Len(Registry),
        [k \in DOMAIN Registry |->
          LET d == Registry[k]
          IN  [id |-> d.id, string_ids |-> [s \in DOMAIN d.strings |-> StringId(table, d.strings[s])],
               resolution |-> d.resolution,
               meta_offset |-> MetaOffsets[k], meta_bytes |-> Length[d.metadata]]])

MetaChunk ==
  Chunk(SumFunction([k \in DOMAIN Registry |-> Length[Registry[k].metadata]]),
        {[from |-> MetaOffsets[k], text |-> Registry[k].metadata] : k \in DOMAIN Registry})

RegistryHash ==
  [k \in DOMAIN Registry |->
    <<Registry[k].id, Registry[k].strings, Registry[k].resolution, Registry[k].metadata>>]

PackChunk(table) ==
  Chunk(PackRecord * Len(packs),
        [p \in DOMAIN packs |-> [pack |-> packs[p], path_id |-> StringId(table, PathOf[packs[p].pack_id])]])

\* Every placement is written at the position of its tile.
TileIndexChunk ==
  Chunk(IndexRecord * Len(tiles),
        [k \in DOMAIN index |-> [place |-> index[k], summary |-> encoded[k].summary]])

\* Mistake: the last tile is taken for the deepest.
MaximumLevel_Last == tiles[Len(tiles)].level

MaximumLevel ==
  (CHOOSE deepest \in Range(tiles) : \A tile \in Range(tiles) : tile.level <= deepest.level).level

\* database_content_hash
ContentOf(chunks) == [k \in DOMAIN chunks |-> <<k, chunks[k]>>]

Chunks(table) == <<DatasetChunk(table), MetaChunk, PackChunk(table), table, TileIndexChunk>>

\* make_database_file
MakeDatabaseFile(chunks) ==
  LET offset == Regions(FileHeader + DirectoryEntry * Len(chunks), [k \in DOMAIN chunks |-> chunks[k].size])
      chunkAt(o) == CHOOSE k \in DOMAIN chunks : offset[k] = o
  IN  [header |->
         [chunk_count |-> Len(chunks), maximum_level |-> MaximumLevel, tile_count |-> Len(tiles),
          dataset_count |-> Len(datasets), pack_count |-> Len(packs),
          registry_hash |-> RegistryHash, index_hash |-> chunks[TIDX],
          content_hash |-> ContentOf(chunks), database_id |-> RegistryHash],
       directory |-> [k \in DOMAIN chunks |->
                        [tag |-> k, offset |-> offset[k], size |-> chunks[k].size]],
       body |-> [o \in {offset[k] : k \in DOMAIN chunks} |-> chunks[chunkAt(o)]],
       size |-> offset[Len(chunks) + 1]]

WriteDatabase ==
  /\ phase = "done" /\ file = NoFile
  /\ file' = MakeDatabaseFile(Chunks(StringTable))
  /\ UNCHANGED <<vars, written>>

\* A build is cancelled before its database is written.
CancelDatabase ==
  /\ phase = "done" /\ file = NoFile
  /\ phase' = "failed"
  /\ UNCHANGED <<tiles, target, first, at, bytes, ranges, packs, index, written, file>>

DatabaseNext ==
  \/ Next /\ UNCHANGED <<written, file>>
  \/ WriteDatabase
  \/ CancelDatabase

DatabaseSpec == DatabaseInit /\ [][DatabaseNext]_databaseVars

-----------------------------------------------------------------------------
(* The reader *)

\* parse_header
HeaderAccepted == file.header.chunk_count \in 5 .. 4096

\* parse_chunks: the chunks behind the directory, in the order of their tags,
\* apart from each other and complete.
DirectoryAccepted ==
  LET directory == file.directory
      end(c) == c.offset + c.size
  IN  /\ file.header.chunk_count = Len(directory)
      /\ \A k \in 2 .. Len(directory) : directory[k - 1].tag < directory[k].tag
      /\ \A c \in Range(directory) :
           /\ c.offset % 8 = 0 /\ end(c) <= file.size
           /\ c.offset >= FileHeader + DirectoryEntry * Len(directory)
           /\ \A d \in Range(directory) : c = d \/ end(c) <= d.offset \/ end(d) <= c.offset
      /\ \A tag \in {DSET, META, PACK, STRS, TIDX} :
           Cardinality({k \in DOMAIN directory : directory[k].tag = tag}) = 1

\* find_chunk
FindChunk(tag) ==
  LET entry == CHOOSE e \in Range(file.directory) : e.tag = tag
  IN  Chunk(entry.size, file.body[entry.offset].holds)

\* parse_strings: every record is followed by the next one or by the end.
StringsAccepted ==
  LET texts == FindChunk(STRS).holds
  IN  /\ 0 \in DOMAIN texts /\ texts[0] = Empty
      /\ \A o \in DOMAIN texts :
           Aligned(o + 4 + Length[texts[o]], 4) \in DOMAIN texts \cup {FindChunk(STRS).size}
      /\ \A o, p \in DOMAIN texts : o < p => texts[o] < texts[p]

\* The text of META in a range, if it is one.
MetaText(from, size) ==
  LET found == {t \in FindChunk(META).holds : t.from = from /\ Length[t.text] = size}
  IN  {t.text : t \in found}

\* validate_datasets
DatasetsAccepted ==
  LET records == FindChunk(DSET).holds
      texts   == FindChunk(STRS).holds
      end(d)  == d.meta_offset + d.meta_bytes
  IN  /\ FindChunk(DSET).size = DatasetRecord * file.header.dataset_count
      /\ \A k \in 2 .. Len(records) : records[k - 1].id < records[k].id
      /\ \A d \in Range(records) :
           /\ Range(d.string_ids) \subseteq DOMAIN texts
           /\ d.meta_bytes = 0 => d.meta_offset = 0
           /\ end(d) <= FindChunk(META).size
           /\ MetaText(d.meta_offset, d.meta_bytes) # {}
      /\ \A d, e \in Range(records) :
           d.meta_offset < e.meta_offset => end(d) <= e.meta_offset
      /\ file.header.registry_hash =
           [k \in DOMAIN records |->
             <<records[k].id, [s \in DOMAIN records[k].string_ids |-> texts[records[k].string_ids[s]]],
               records[k].resolution,
               CHOOSE t \in MetaText(records[k].meta_offset, records[k].meta_bytes) : TRUE>>]
      /\ file.header.database_id = file.header.registry_hash

\* parse_packs; module Packing has the keys and the sizes.
PacksAccepted ==
  LET records == FindChunk(PACK).holds
      texts   == FindChunk(STRS).holds
  IN  /\ FindChunk(PACK).size = PackRecord * file.header.pack_count
      /\ \A p \in DOMAIN records :
           records[p].path_id \in DOMAIN texts /\ texts[records[p].path_id] # Empty

\* parse_tile_index; module Packing has the places.
TileIndexAccepted ==
  LET entries == FindChunk(TIDX).holds
  IN  /\ FindChunk(TIDX).size = IndexRecord * file.header.tile_count
      /\ \A e \in Range(entries) :
           /\ e.summary.minimum <= e.summary.maximum /\ e.summary.channel_count > 0
           /\ e.summary.primary \in {d.id : d \in Range(FindChunk(DSET).holds)}
           /\ e.place.key.level <= file.header.maximum_level
      /\ file.header.index_hash = FindChunk(TIDX)

\* The hash at the end of parse_database
ContentAccepted ==
  file.header.content_hash =
    [k \in DOMAIN file.directory |-> <<file.directory[k].tag, FindChunk(file.directory[k].tag)>>]

-----------------------------------------------------------------------------
(* Properties *)

\* Every file that make_database_file completes is accepted by parse_database,
\* whatever the order of the sources, the texts they share and their metadata,
\* and every pack is registered with its own path.
FileOpens ==
  file # NoFile =>
    /\ \A p \in DOMAIN packs :
         FindChunk(STRS).holds[FindChunk(PACK).holds[p].path_id] = PathOf[packs[p].pack_id]
    /\ HeaderAccepted /\ DirectoryAccepted /\ StringsAccepted /\ DatasetsAccepted
    /\ PacksAccepted /\ TileIndexAccepted /\ ContentAccepted

\* Two values are rounded twice: the resolution, to millimeters by the writer
\* and from a float by the reader, and the last share, to what floats leave.
Representable(tile) ==
  LET shares == tile.payload.data[2].shares
  IN  /\ HalfUp(tile.payload.effective_resolution * Millimeters, Scale) = tile.summary.effective_resolution
      /\ shares[Len(shares)] >= 0

\* decode_tile reads every payload of encode_tile back to the elevations it was
\* made from, and agrees with the index, where the two roundings agree.
TilesDecode ==
  file # NoFile =>
    \A k \in DOMAIN tiles :
      Representable(encoded[k]) =>
        /\ DecodesTile(encoded[k].payload, tiles[k], FindChunk(TIDX).holds[k].summary)
        /\ ReverseDelta2D(encoded[k].payload.data[1]) = contents[k].codes
=============================================================================
