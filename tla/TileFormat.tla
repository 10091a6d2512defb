----------------------------- MODULE TileFormat -----------------------------
(***************************************************************************)
(* What the payload of a tile says and how it is read: the summary of the  *)
(* fused sources (summarize_fused_core, src/src/builder/fusion.cpp), the   *)
(* writer (encode_tile, src/src/builder/container_writer.cpp) and the      *)
(* reader (decode_tile, src/src/core/database.cpp), two programs that      *)
(* share the layout and nothing else.                                      *)
(*                                                                         *)
(* A content is what a tile is made from: the weights of the sources and   *)
(* the quality flags at the samples of the core, the codes of the samples  *)
(* stored, the geometric error in eighths of a metre, the children, and    *)
(* the sizes to which its channels are compressed; compression loses       *)
(* nothing. Constant fields, checksums and the resolutions in the palette  *)
(* are left out; a hash is the content that it is taken of.                *)
(***************************************************************************)
EXTENDS Integers, SequencesExt, Functions

CONSTANTS
  Core,         \* samples along an edge of the core (257)
  MapSide,      \* entries along an edge of a map (64)
  Codes,        \* codes of elevation (2^16)
  ByteValues,   \* values of a byte (256)
  Precision,    \* values of the fraction of a float (2^24)
  ScaleDigits,  \* bound: every float that occurs is a multiple of 1 / 2^ScaleDigits
  Unit,         \* the weights at a sample add up to Unit
  Millimeters,  \* in a metre (1000)
  Tolerance     \* of the sum of the shares, in 1 / Scale (1e-6)

\* The powers of two that floats are multiples of, in 1 / Scale.
TwoTo[k \in 0 .. ScaleDigits] == IF k = 0 THEN 1 ELSE 2 * TwoTo[k - 1]

Scale == TwoTo[ScaleDigits]

\* A float is precise enough for the tolerance of the shares, for an index of
\* two bytes, and for a difference of elevations, in eighths of a metre.
\* (Floats of 24 digits are multiples of 1 / 2^149: 2^149 <= 1e-6 * 2^149 * 2^24.)
ASSUME FormatAssumption ==
  /\ {Core, MapSide, Codes, ByteValues, Unit, Millimeters} \subseteq Nat \ {0}
  /\ {Precision, ScaleDigits, Tolerance} \subseteq Nat /\ ScaleDigits >= 3
  /\ Scale <= Tolerance * Precision
  /\ ByteValues * ByteValues <= Precision /\ 4 * Codes < Precision

TileHeader    == 128
ChannelRecord == 40

Aligned(n, to) == ((n + to - 1) \div to) * to

\* Where regions of these sizes begin, each one aligned, and where the last one ends.
Regions(from, sizes) ==
  LET begin[k \in 1 .. Len(sizes) + 1] ==
        IF k = 1 THEN Aligned(from, 8)
        ELSE IF k > Len(sizes) THEN begin[k - 1] + sizes[k - 1]
        ELSE Aligned(begin[k - 1] + sizes[k - 1], 8)
  IN  begin

-----------------------------------------------------------------------------
(* Numbers *)

HalfEven(n, d) ==
  LET q == n \div d
      r == n % d
  IN  IF 2 * r < d \/ (2 * r = d /\ q % 2 = 0) THEN q ELSE q + 1

\* std::llround, std::round
HalfUp(n, d) == (2 * n + d) \div (2 * d)

\* Floats of the size of quantity / Scale are multiples of step / Scale.
StepOf(quantity) ==
  LET fine == {step \in Range(TwoTo) : step * Precision > quantity}
  IN  CHOOSE step \in fine : \A other \in fine : step <= other

Magnitude(n, d) == HalfEven(n, d * StepOf(n \div d)) * StepOf(n \div d)

\* The float nearest to n / d, both in 1 / Scale.
Nearest(n, d) == IF n < 0 THEN -Magnitude(-n, d) ELSE Magnitude(n, d)

FloatOf(n, d) == Nearest(n * Scale, d)

-----------------------------------------------------------------------------
(* summarize_fused_core *)

CoreSamples == (0 .. Core - 1) \X (0 .. Core - 1)
MapCells    == (0 .. MapSide - 1) \X (0 .. MapSide - 1)

Block == (Core - 1) \div MapSide

BlockSamples(cell) ==
  {<<cell[1] * Block + x, cell[2] * Block + y>> : x, y \in 0 .. Block - 1}

Total(content, id, samples) ==
  SumFunction([s \in samples |-> content.weights[s][id]])

Sources(content) == DOMAIN content.weights[<<0, 0>>]

\* The numbers of a set in their order: each comes behind those below it.
Ascending(numbers) ==
  [k \in 1 .. Cardinality(numbers) |->
     CHOOSE n \in numbers : Cardinality({m \in numbers : m < n}) = k - 1]

\* The sources that contribute, in the order of their identifiers.
Palette(content) == Ascending({id \in Sources(content) : Total(content, id, CoreSamples) > 0})

\* The first of the largest values.
FirstLargest(values) ==
  CHOOSE k \in DOMAIN values : \A j \in DOMAIN values :
    values[k] > values[j] \/ (values[k] = values[j] /\ k <= j)

\* What the sources of a palette contribute to some samples.
Totals(content, palette, samples) ==
  [k \in DOMAIN palette |-> Total(content, palette[k], samples)]

\* Which source of the palette, counted from zero, contributes most to a cell;
\* empty with a single source.
DominantSources(content, palette) ==
  IF Len(palette) = 1 THEN <<>>
  ELSE [cell \in MapCells |-> FirstLargest(Totals(content, palette, BlockSamples(cell))) - 1]

\* Empty when no flag is set.
QualityMap(content) ==
  LET flags == [cell \in MapCells |-> UNION {content.quality[s] : s \in BlockSamples(cell)}]
  IN  IF \A cell \in MapCells : flags[cell] = {} THEN <<>> ELSE flags

SummaryOf(content, palette) ==
  [palette |-> palette,
   totals  |-> Totals(content, palette, CoreSamples),
   primary |-> palette[FirstLargest(Totals(content, palette, CoreSamples))],
   map     |-> DominantSources(content, palette),
   quality |-> QualityMap(content)]

Summarize(content) == SummaryOf(content, Palette(content))

-----------------------------------------------------------------------------
(* The writer *)

\* The shares of the sources; the last is what the others, rounded, leave.
Shares(totals) ==
  LET rounded == [k \in 1 .. Len(totals) - 1 |-> FloatOf(totals[k], Core * Core * Unit)]
  IN  Append(rounded, Nearest(Scale - SumFunction(rounded), 1))

IndexWidth(palette) == IF Len(palette) <= ByteValues THEN 1 ELSE 2

IndexBytes(value, width) ==
  IF width = 1 THEN <<value % ByteValues>> ELSE <<value % ByteValues, value \div ByteValues>>

\* provenance_bytes
Provenance(summary) ==
  LET width == IF summary.map = <<>> THEN 0 ELSE IndexWidth(summary.palette)
  IN  [palette |-> summary.palette,
       shares  |-> Shares(summary.totals),
       side    |-> IF summary.map = <<>> THEN 0 ELSE MapSide,
       index_width |-> width,
       map     |-> [cell \in DOMAIN summary.map |-> IndexBytes(summary.map[cell], width)],
       size    |-> 16 + 16 * Len(summary.palette) + Cardinality(DOMAIN summary.map) * width]

Serialized == Core + 2

\* The prediction of a sample from its left, lower and diagonal neighbor.
Predicted(codes, k) ==
  LET x == (k - 1) % Serialized
      y == (k - 1) \div Serialized
  IN  CASE x = 0 /\ y = 0 -> 0
        [] x > 0 /\ y = 0 -> codes[k - 1]
        [] x = 0 /\ y > 0 -> codes[k - Serialized]
        [] OTHER -> (codes[k - 1] + codes[k - Serialized] - codes[k - Serialized - 1]) % Codes

\* Mistake: a residual of a falling slope is cut off at zero.
Delta2D_Clamped(codes) ==
  [k \in DOMAIN codes |-> LET d == codes[k] - Predicted(codes, k) IN IF d < 0 THEN 0 ELSE d]

\* delta2d_u16
Delta2D(codes) == [k \in DOMAIN codes |-> (codes[k] - Predicted(codes, k)) % Codes]

Channel(id, side, logical, stored, holds) ==
  [id |-> id, side |-> side, logical_bytes |-> logical, stored_bytes |-> stored, holds |-> holds]

ProvenanceChannel(provenance, stored) ==
  Channel(2, provenance.side, provenance.size, stored, provenance)

Channels(content, summary) ==
  <<Channel(1, Serialized, 2 * Len(content.codes), content.stored[1], Delta2D(content.codes)),
    ProvenanceChannel(Provenance(summary), content.stored[2])>>
  \o (IF summary.quality = <<>> THEN <<>>
      ELSE <<Channel(3, MapSide, MapSide * MapSide, content.stored[3], summary.quality)>>)

\* Where the data of channels of these sizes begin, and where the last end.
DataOffsets(stored) == Regions(TileHeader + ChannelRecord * Len(stored), stored)

ContentHash(key, channels, codes) ==
  <<key, [k \in DOMAIN channels |->
            <<channels[k].id, channels[k].side, IF k = 1 THEN codes ELSE channels[k].holds>>]>>

\* The last part of encode_tile: what the index says of a tile, apart from its
\* place, and the payload.
Encode(key, content, summary, source, channels, offsets) ==
  LET count   == Len(channels)
      size    == offsets[count + 1]
      codes   == Range(content.codes)
      lowest  == CHOOSE c \in codes : \A o \in codes : c <= o
      highest == CHOOSE c \in codes : \A o \in codes : c >= o
      hash    == ContentHash(key, channels, content.codes)
  IN  [summary |->
         [has_quality |-> count = 3, channel_count |-> count,
          logical_bytes |-> SumFunction([k \in 1 .. count |-> channels[k].logical_bytes]),
          minimum |-> lowest, maximum |-> highest, primary |-> summary.primary,
          effective_resolution |-> HalfUp(source.resolution, 2),
          geometric_error |-> HalfUp(content.error * Millimeters, 8),
          children |-> content.children, content_hash |-> hash],
       payload |->
         [key |-> key, has_quality |-> count = 3, channel_count |-> count,
          primary |-> summary.primary, palette_count |-> Len(summary.palette),
          effective_resolution |-> FloatOf(source.resolution, 2 * Millimeters),
          geometric_error |-> FloatOf(content.error, 8),
          minimum |-> lowest, maximum |-> highest, content_hash |-> hash,
          directory_bytes |-> ChannelRecord * count,
          data_offset |-> offsets[1], data_bytes |-> size - offsets[1],
          records |-> [k \in 1 .. count |->
            [id |-> channels[k].id, side |-> channels[k].side, data_offset |-> offsets[k],
             stored_bytes |-> channels[k].stored_bytes, logical_bytes |-> channels[k].logical_bytes]],
          data |-> [k \in 1 .. count |-> channels[k].holds], size |-> size]]

EncodeChannels(key, content, summary, datasets, channels) ==
  Encode(key, content, summary, CHOOSE d \in Range(datasets) : d.id = summary.primary, channels,
         DataOffsets([k \in DOMAIN channels |-> channels[k].stored_bytes]))

EncodeTile(key, content, summary, datasets) ==
  EncodeChannels(key, content, summary, datasets, Channels(content, summary))

-----------------------------------------------------------------------------
(* The reader *)

\* The region of the data: right behind the directory, and up to the end.
FramingAccepted(payload, key, entry) ==
  /\ payload.key = key
  /\ payload.has_quality = entry.has_quality /\ payload.channel_count = entry.channel_count
  /\ payload.primary = entry.primary /\ payload.minimum <= payload.maximum
  /\ payload.directory_bytes = payload.channel_count * ChannelRecord
  /\ payload.data_offset = Aligned(TileHeader + payload.directory_bytes, 8)
  /\ payload.data_offset + payload.data_bytes = payload.size
  /\ payload.content_hash = entry.content_hash

\* The channels in order, aligned, apart from each other, and complete.
RecordsAccepted(payload, entry) ==
  LET records == payload.records
      end(k) == IF k = 0 THEN payload.data_offset
                ELSE records[k].data_offset + records[k].stored_bytes
      ids == {records[k].id : k \in DOMAIN records}
  IN  /\ \A k \in DOMAIN records :
           /\ k > 1 => records[k].id > records[k - 1].id
           /\ records[k].data_offset % 8 = 0
           /\ records[k].data_offset >= end(k - 1) /\ end(k) <= payload.size
      /\ end(Len(records)) = payload.size
      /\ SumFunction([k \in DOMAIN records |-> records[k].logical_bytes]) = entry.logical_bytes
      /\ {1, 2} \subseteq ids /\ (3 \in ids <=> payload.has_quality)

\* reverse_delta2d_u16
ReverseDelta2D(residuals) ==
  LET codes[k \in 0 .. Len(residuals)] ==
        IF k = 0 THEN <<>>
        ELSE LET before == codes[k - 1]
             IN  Append(before, (residuals[k] + Predicted(before, k)) % Codes)
  IN  codes[Len(residuals)]

IndexOf(indexBytes, width) ==
  IF width = 1 THEN indexBytes[1] ELSE indexBytes[1] + ByteValues * indexBytes[2]

\* parse_provenance
ProvenanceAccepted(p, payload) ==
  LET palette == p.palette
      size == 16 + 16 * Len(palette) + p.side * p.side * p.index_width
      sum  == SumFunction(p.shares)
  IN  /\ Len(palette) > 0 /\ Len(palette) = payload.palette_count
      /\ IF p.side = 0 THEN p.index_width = 0
         ELSE p.index_width = IF Len(palette) <= ByteValues THEN 1 ELSE 2
      /\ size = payload.records[2].logical_bytes /\ size = p.size
      /\ \A k \in DOMAIN palette :
           /\ k > 1 => palette[k] > palette[k - 1]
           /\ p.shares[k] >= 0 /\ p.shares[k] <= Scale
      /\ payload.primary \in Range(palette)
      /\ sum - Scale <= Tolerance /\ Scale - sum <= Tolerance
      /\ p.side = payload.records[2].side
      /\ \A cell \in DOMAIN p.map : IndexOf(p.map[cell], p.index_width) < Len(palette)

\* The summaries in the payload, in the index and in the channels agree.
SummariesAccepted(payload, entry, codes) ==
  /\ \E c \in Range(codes) : entry.minimum = c /\ payload.minimum = c
  /\ \E c \in Range(codes) : entry.maximum = c /\ payload.maximum = c
  /\ \A c \in Range(codes) : entry.minimum <= c /\ c <= entry.maximum
  /\ HalfUp(payload.effective_resolution * Millimeters, Scale) = entry.effective_resolution
  /\ HalfUp(payload.geometric_error * Millimeters, Scale) = entry.geometric_error

DecodedHash(payload, codes) ==
  <<payload.key, [k \in DOMAIN payload.records |->
     <<payload.records[k].id, payload.records[k].side, IF k = 1 THEN codes ELSE payload.data[k]>>]>>

DecodesTile(payload, key, entry) ==
  /\ FramingAccepted(payload, key, entry)
  /\ RecordsAccepted(payload, entry)
  /\ payload.records[1].logical_bytes = 2 * payload.records[1].side * payload.records[1].side
  /\ payload.has_quality => payload.records[3].logical_bytes = payload.records[3].side * payload.records[3].side
  /\ LET codes == ReverseDelta2D(payload.data[1])
     IN  /\ DecodedHash(payload, codes) = payload.content_hash
         /\ ProvenanceAccepted(payload.data[2], payload)
         /\ SummariesAccepted(payload, entry, codes)
=============================================================================
