------------------------------ MODULE Packing ------------------------------
(***************************************************************************)
(* How encoded tiles become packs: plan_canonical_pack_ranges              *)
(* (src/src/builder/packing.cpp) cuts the sorted tiles into ranges, and    *)
(* build_packs (src/src/builder/container_writer.cpp) lays every range out *)
(* in a file. The properties are what the reader of the database           *)
(* (src/src/core/database.cpp) demands of the packs and of the tile index. *)
(* Positions count from one. What a payload holds is left out.             *)
(***************************************************************************)
EXTENDS Integers, Sequences, FiniteSets

CONSTANTS
  Inputs,      \* the sequences of tiles that may be packed
  Targets,     \* the sizes of a pack that a configuration may ask for
  MaxPayload   \* the largest payload, 2^32 - 1

TileRecord == [face : Nat, level : Nat, morton : Nat, bytes : Nat]

ASSUME PackingAssumption ==
  /\ Inputs \subseteq Seq(TileRecord)
  /\ Targets \subseteq Nat
  /\ MaxPayload \in Nat

VARIABLES
  tiles,    \* what is packed
  target,   \* target_pack_bytes
  phase,    \* where build_packs is
  first,    \* the first tile of the range that is being planned
  at,       \* the tile that is next
  bytes,    \* the size so far of the range planned or of the file written
  ranges,   \* the ranges planned
  packs,    \* the registry of the packs laid out
  index     \* where every tile laid out is

vars == <<tiles, target, phase, first, at, bytes, ranges, packs, index>>

Header == 64

\* Mistake: payloads follow one another.
align8_None(value) == value

align8(value) == ((value + 7) \div 8) * 8

Group(tile) == <<tile.face, tile.level>>

\* The order of keys: face, level, position in Morton order.
KeyLess(a, b) ==
  \/ a.face < b.face
  \/ a.face = b.face /\ a.level < b.level
  \/ Group(a) = Group(b) /\ a.morton < b.morton

Admissible ==
  /\ tiles # <<>> /\ target > 0
  /\ \A k \in 1 .. Len(tiles) : tiles[k].bytes \in 1 .. MaxPayload
  /\ \A k \in 2 .. Len(tiles) : KeyLess(tiles[k - 1], tiles[k])

Init ==
  /\ tiles \in Inputs /\ target \in Targets
  /\ phase = "checking"
  /\ first = 1 /\ at = 1 /\ bytes = Header
  /\ ranges = <<>> /\ packs = <<>> /\ index = <<>>

Check ==
  /\ phase = "checking"
  /\ phase' = IF Admissible THEN "planning" ELSE "failed"
  /\ UNCHANGED <<tiles, target, first, at, bytes, ranges, packs, index>>

\* A build is cancelled, or an encoded tile cannot be read back.
GiveUp ==
  /\ phase \in {"checking", "planning", "building"}
  /\ phase' = "failed"
  /\ UNCHANGED <<tiles, target, first, at, bytes, ranges, packs, index>>

\* Mistake: alignment is not counted.
Fits_Unaligned == at = first \/ bytes + tiles[at].bytes <= target

Fits == at = first \/ align8(bytes) + tiles[at].bytes <= target

\* Mistake: levels are not kept apart.
SameGroup_Face == tiles[at].face = tiles[first].face

SameGroup == Group(tiles[at]) = Group(tiles[first])

Continues == at <= Len(tiles) /\ SameGroup /\ Fits

Extend ==
  /\ phase = "planning" /\ first <= Len(tiles)
  /\ Continues
  /\ bytes' = align8(bytes) + tiles[at].bytes
  /\ at' = at + 1
  /\ UNCHANGED <<tiles, target, phase, first, ranges, packs, index>>

CloseRange ==
  /\ phase = "planning" /\ first <= Len(tiles)
  /\ ~Continues
  /\ ranges' = Append(ranges, [first |-> first, count |-> at - first])
  /\ first' = at
  /\ bytes' = Header
  /\ UNCHANGED <<tiles, target, phase, at, packs, index>>

Planned ==
  /\ phase = "planning" /\ first > Len(tiles)
  /\ phase' = "building"
  /\ at' = 1
  /\ UNCHANGED <<tiles, target, first, bytes, ranges, packs, index>>

\* The range that is laid out.
Current == ranges[Len(packs) + 1]

Place ==
  /\ phase = "building" /\ Len(packs) < Len(ranges)
  /\ at < Current.first + Current.count
  /\ index' = Append(index, [key |-> tiles[at], pack_id |-> Len(packs),
                             payload_offset |-> align8(bytes), stored_bytes |-> tiles[at].bytes])
  /\ bytes' = align8(bytes) + tiles[at].bytes
  /\ at' = at + 1
  /\ UNCHANGED <<tiles, target, phase, first, ranges, packs>>

ClosePack ==
  /\ phase = "building" /\ Len(packs) < Len(ranges)
  /\ at = Current.first + Current.count
  /\ packs' = Append(packs, [pack_id |-> Len(packs), tile_count |-> Current.count, file_bytes |-> bytes,
                             first_key |-> tiles[Current.first], last_key |-> tiles[at - 1]])
  /\ bytes' = Header
  /\ UNCHANGED <<tiles, target, phase, first, at, ranges, index>>

Finish ==
  /\ phase = "building" /\ Len(packs) = Len(ranges)
  /\ phase' = "done"
  /\ UNCHANGED <<tiles, target, first, at, bytes, ranges, packs, index>>

Ended == phase \in {"done", "failed"} /\ UNCHANGED vars

Next ==
  \/ Check \/ GiveUp
  \/ Extend \/ CloseRange \/ Planned
  \/ Place \/ ClosePack \/ Finish
  \/ Ended

Spec == Init /\ [][Next]_vars

-----------------------------------------------------------------------------
(* What the reader checks *)

\* parse_packs
RegistryAccepted ==
  \A p \in 1 .. Len(packs) :
    /\ p > 1 => packs[p].pack_id > packs[p - 1].pack_id
    /\ packs[p].tile_count > 0 /\ packs[p].file_bytes >= Header
    /\ ~KeyLess(packs[p].last_key, packs[p].first_key)
    /\ Group(packs[p].first_key) = Group(packs[p].last_key)

Entries(id) == {k \in 1 .. Len(index) : index[k].pack_id = id}

End(entry) == entry.payload_offset + entry.stored_bytes

\* parse_tile_index, of every entry
EntriesAccepted ==
  \A k \in 1 .. Len(index) :
    /\ k > 1 => KeyLess(index[k - 1].key, index[k].key)
    /\ index[k].payload_offset >= Header
    /\ index[k].payload_offset % 8 = 0
    /\ index[k].stored_bytes > 0
    /\ \E p \in 1 .. Len(packs) :
         packs[p].pack_id = index[k].pack_id /\ End(index[k]) <= packs[p].file_bytes

\* parse_tile_index, of the entries of a pack
BoundsAccepted ==
  \A p \in 1 .. Len(packs) :
    LET entries == Entries(packs[p].pack_id)
    IN  /\ Cardinality(entries) = packs[p].tile_count
        /\ \E low, high \in entries :
             /\ \A k \in entries : low <= k /\ k <= high
             /\ index[low].key = packs[p].first_key
             /\ index[high].key = packs[p].last_key

\* read_tile: the payloads follow each other to the end of the file.
PayloadsAccepted ==
  \A p \in 1 .. Len(packs) :
    LET entries == Entries(packs[p].pack_id)
    IN  /\ \A j, k \in entries : j < k => End(index[j]) <= index[k].payload_offset
        /\ \E high \in entries : (\A k \in entries : k <= high) /\ End(index[high]) = packs[p].file_bytes

-----------------------------------------------------------------------------
(* Properties *)

TypeOK ==
  /\ tiles \in Inputs /\ target \in Targets
  /\ phase \in {"checking", "planning", "building", "done", "failed"}
  /\ first \in Nat \ {0} /\ at \in Nat \ {0} /\ bytes \in Nat
  /\ ranges \in Seq([first : Nat \ {0}, count : Nat \ {0}])
  /\ packs \in Seq([pack_id : Nat, tile_count : Nat, file_bytes : Nat,
                    first_key : TileRecord, last_key : TileRecord])
  /\ index \in Seq([key : TileRecord, pack_id : Nat, payload_offset : Nat, stored_bytes : Nat])

\* The reader accepts every database that the writer completes: its registry,
\* its index, and the position of every tile in its pack.
ReaderAccepts ==
  phase = "done" =>
    /\ Len(index) = Len(tiles)
    /\ RegistryAccepted /\ EntriesAccepted /\ BoundsAccepted /\ PayloadsAccepted

\* The sizes that were planned are those that are written: a pack exceeds the
\* target only if it holds a single tile, and its successor of the same face and
\* level would not have fit, so that the packs of a database depend on its tiles
\* and the target alone.
PacksFilled ==
  \A p \in 1 .. Len(packs) :
    /\ packs[p].file_bytes <= target \/ packs[p].tile_count = 1
    /\ p > 1 => LET next == packs[p].first_key
                IN  \/ Group(next) # Group(packs[p - 1].first_key)
                    \/ align8(packs[p - 1].file_bytes) + next.bytes > target
=============================================================================
