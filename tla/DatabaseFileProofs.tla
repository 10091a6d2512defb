------------------------- MODULE DatabaseFileProofs -------------------------
(***************************************************************************)
(* Proofs about modules Packing and DatabaseFile: the reader accepts the   *)
(* packs that the builder lays out, for any tiles and any target; no pack  *)
(* could have taken one tile more; the reader opens every file that        *)
(* make_database_file completes, for any sources and any texts; and it     *)
(* decodes every tile to what the tile was made from (module TileFormat).  *)
(***************************************************************************)
EXTENDS DatabaseFile, FunctionTheorems, FiniteSetTheorems, SequenceTheorems, WellFoundedInduction, TLAPS

-----------------------------------------------------------------------------
(* The order of all pairs of tiles and of all pairs of ranges is part of the *)
(* invariant: it is established one tile and one range at a time, as the     *)
(* planner advances.                                                         *)

RangeRecord == [first : Nat \ {0}, count : Nat \ {0}]

Stop(rs, r) == rs[r].first + rs[r].count

\* Where the ranges planned so far end.
PlannedTo(rs) == IF rs = <<>> THEN 1 ELSE Stop(rs, Len(rs))

Ordered(n) == \A i, j \in 1 .. n : i < j => KeyLess(tiles[i], tiles[j])

PhaseInv ==
  /\ phase \in {"planning", "building", "done"} => Admissible
  /\ phase = "checking" => first = 1 /\ at = 1 /\ ranges = <<>>
  /\ phase \in {"checking", "planning"} => packs = <<>> /\ index = <<>>
  /\ bytes >= Header

RangesInv ==
  /\ Len(ranges) > 0 => ranges[1].first = 1
  /\ \A r \in 1 .. Len(ranges) :
       /\ Stop(ranges, r) <= Len(tiles) + 1
       /\ \A k \in ranges[r].first .. Stop(ranges, r) - 1 : Group(tiles[k]) = Group(tiles[ranges[r].first])
  /\ \A r \in 2 .. Len(ranges) : ranges[r].first = Stop(ranges, r - 1)
  /\ \A q, r \in 1 .. Len(ranges) : q < r => Stop(ranges, q) <= ranges[r].first

PlanInv ==
  phase = "planning" =>
    /\ first = PlannedTo(ranges) /\ first <= at /\ at <= Len(tiles) + 1
    /\ \A k \in first .. at - 1 : Group(tiles[k]) = Group(tiles[first])
    /\ Ordered(at - 1)

BuildInv ==
  phase \in {"building", "done"} =>
    /\ PlannedTo(ranges) = Len(tiles) + 1 /\ Ordered(Len(tiles))
    /\ Len(packs) <= Len(ranges)
    /\ Len(index) = at - 1
    /\ Len(packs) < Len(ranges) => Current.first <= at /\ at <= Current.first + Current.count
    /\ Len(packs) = Len(ranges) => at = Len(tiles) + 1
    /\ phase = "done" => Len(packs) = Len(ranges)

PacksInv ==
  phase \in {"building", "done"} =>
    \A p \in 1 .. Len(packs) :
      /\ packs[p].pack_id = p - 1
      /\ packs[p].tile_count = ranges[p].count
      /\ packs[p].first_key = tiles[ranges[p].first]
      /\ packs[p].last_key = tiles[Stop(ranges, p) - 1]
      /\ packs[p].file_bytes = End(index[Stop(ranges, p) - 1])
      /\ packs[p].file_bytes >= Header
      /\ Stop(ranges, p) <= at

IndexInv ==
  phase \in {"building", "done"} =>
    /\ \A k \in 1 .. Len(index) :
         /\ index[k].key = tiles[k] /\ index[k].stored_bytes = tiles[k].bytes
         /\ index[k].payload_offset >= Header /\ index[k].payload_offset % 8 = 0
         /\ index[k].pack_id < Len(ranges) /\ index[k].pack_id <= Len(packs)
         /\ ranges[index[k].pack_id + 1].first <= k /\ k < Stop(ranges, index[k].pack_id + 1)
         /\ index[k].pack_id = Len(packs) => End(index[k]) <= bytes
    /\ \A j, k \in 1 .. Len(index) :
         j < k /\ index[j].pack_id = index[k].pack_id => End(index[j]) <= index[k].payload_offset
    /\ Len(packs) < Len(ranges) /\ at > Current.first => bytes = End(index[at - 1])

IInv ==
  /\ TypeOK /\ PhaseInv /\ RangesInv /\ PlanInv
  /\ BuildInv /\ PacksInv /\ IndexInv

-----------------------------------------------------------------------------
\* The order of keys is a strict order.
LEMMA KeyOrder ==
  ASSUME NEW a \in TileRecord, NEW b \in TileRecord, NEW c \in TileRecord
  PROVE  /\ ~KeyLess(a, a)
         /\ KeyLess(a, b) => ~KeyLess(b, a)
         /\ KeyLess(a, b) /\ KeyLess(b, c) => KeyLess(a, c)
  BY DEF TileRecord, KeyLess, Group

\* Alignment goes up to a multiple of eight.
LEMMA Alignment ==
  ASSUME NEW value \in Nat
  PROVE  align8(value) \in Nat /\ align8(value) >= value /\ align8(value) % 8 = 0
  BY DEF align8

LEMMA TilesType ==
  ASSUME TypeOK
  PROVE  /\ Len(tiles) \in Nat
         /\ \A k \in 1 .. Len(tiles) : tiles[k] \in TileRecord /\ tiles[k].bytes \in Nat
<1>1. tiles \in Seq(TileRecord)
  BY PackingAssumption DEF TypeOK
<1>2. Len(tiles) \in Nat /\ \A k \in 1 .. Len(tiles) : tiles[k] \in TileRecord
  BY <1>1
<1> QED
  BY <1>2 DEF TileRecord

LEMMA RangesType ==
  ASSUME TypeOK
  PROVE  /\ ranges \in Seq(RangeRecord) /\ Len(ranges) \in Nat
         /\ \A r \in 1 .. Len(ranges) :
              /\ ranges[r].first \in Nat \ {0} /\ ranges[r].count \in Nat \ {0}
              /\ Stop(ranges, r) \in Nat /\ ranges[r].first < Stop(ranges, r)
<1>1. ranges \in Seq(RangeRecord)
  BY DEF TypeOK, RangeRecord
<1>2. Len(ranges) \in Nat /\ \A r \in 1 .. Len(ranges) : ranges[r] \in RangeRecord
  BY <1>1
<1>3. \A r \in 1 .. Len(ranges) : ranges[r].first \in Nat \ {0} /\ ranges[r].count \in Nat \ {0}
  BY <1>2 DEF RangeRecord
<1> QED
  BY <1>1, <1>2, <1>3 DEF Stop

LEMMA IndexType ==
  ASSUME TypeOK
  PROVE  /\ Len(index) \in Nat
         /\ \A k \in 1 .. Len(index) :
              /\ index[k].pack_id \in Nat
              /\ index[k].payload_offset \in Nat /\ index[k].stored_bytes \in Nat
              /\ End(index[k]) \in Nat /\ End(index[k]) >= index[k].payload_offset
<1> DEFINE Entry == [key : TileRecord, pack_id : Nat, payload_offset : Nat, stored_bytes : Nat]
<1>1. index \in Seq(Entry)
  BY DEF TypeOK
<1> HIDE DEF Entry
<1>2. Len(index) \in Nat /\ \A k \in 1 .. Len(index) : index[k] \in Entry
  BY <1>1
<1> QED
  BY <1>2 DEF Entry, End

-----------------------------------------------------------------------------
LEMMA InitInvariant == Init => IInv
<1> SUFFICES ASSUME Init PROVE IInv
  OBVIOUS
<1>1. TypeOK
  BY DEF Init, TypeOK, Header
<1>2. PhaseInv /\ RangesInv /\ PlanInv /\ BuildInv /\ PacksInv /\ IndexInv
  BY DEF Init, PhaseInv, RangesInv, PlanInv, BuildInv, PacksInv, IndexInv, Header
<1> QED
  BY <1>1, <1>2 DEF IInv

\* Steps that change the phase and nothing that the planner has made.
LEMMA CheckInvariant == IInv /\ Check => IInv'
<1> SUFFICES ASSUME IInv, Check PROVE IInv'
  OBVIOUS
<1> USE DEF IInv, Check
<1>1. TypeOK'
  BY DEF TypeOK
<1>2. PhaseInv' /\ RangesInv'
  BY DEF PhaseInv, RangesInv, Admissible, Stop
<1>3. PlanInv'
  BY DEF PlanInv, PhaseInv, PlannedTo, Ordered, TypeOK, Admissible, Stop
<1>4. BuildInv' /\ PacksInv' /\ IndexInv'
  BY DEF BuildInv, PacksInv, IndexInv
<1> QED
  BY <1>1, <1>2, <1>3, <1>4

LEMMA GiveUpInvariant == IInv /\ GiveUp => IInv'
<1> SUFFICES ASSUME IInv, GiveUp PROVE IInv'
  OBVIOUS
<1> USE DEF IInv, GiveUp
<1>1. TypeOK'
  BY DEF TypeOK
<1>2. PhaseInv' /\ RangesInv'
  BY DEF PhaseInv, RangesInv, Admissible, Stop
<1>3. PlanInv' /\ BuildInv' /\ PacksInv' /\ IndexInv'
  BY DEF PlanInv, BuildInv, PacksInv, IndexInv
<1> QED
  BY <1>1, <1>2, <1>3

\* The tile that joins the range follows all the tiles before it.
LEMMA ExtendInvariant == IInv /\ Extend => IInv'
<1> SUFFICES ASSUME IInv, Extend PROVE IInv'
  OBVIOUS
<1> USE DEF IInv, Extend
<1>1. /\ Len(tiles) \in Nat /\ at \in 1 .. Len(tiles) /\ tiles[at].bytes \in Nat
      /\ first \in Nat /\ first <= at
  BY TilesType DEF TypeOK, Continues, PlanInv
<1>2. align8(bytes) \in Nat /\ align8(bytes) >= bytes
  BY Alignment DEF TypeOK
<1>3. TypeOK'
  <2>1. at' \in Nat \ {0} /\ bytes' \in Nat
    <3>1. at' = at + 1 /\ bytes' = align8(bytes) + tiles[at].bytes
      OBVIOUS
    <3> HIDE DEF IInv, Extend
    <3> QED
      BY <3>1, <1>1, <1>2
  <2>2. TypeOK /\ UNCHANGED <<tiles, target, phase, first, ranges, packs, index>>
    OBVIOUS
  <2> HIDE DEF IInv, Extend
  <2> QED
    BY <2>1, <2>2 DEF TypeOK
<1>4. PhaseInv' /\ RangesInv'
  <2>1. bytes' >= Header
    BY <1>1, <1>2 DEF PhaseInv, TypeOK, Header
  <2> QED
    BY <2>1 DEF PhaseInv, RangesInv, Admissible, Header
<1>5. Ordered(at)
  <2> SUFFICES ASSUME NEW i \in 1 .. at, NEW j \in 1 .. at, i < j
               PROVE  KeyLess(tiles[i], tiles[j])
    BY DEF Ordered
  <2>1. CASE j < at
    BY <2>1, <1>1 DEF PlanInv, Ordered
  <2>2. CASE j = at
    <3>1. KeyLess(tiles[at - 1], tiles[at])
      BY <2>2, <1>1 DEF PhaseInv, Admissible
    <3>2. i = at - 1 \/ KeyLess(tiles[i], tiles[at - 1])
      BY <2>2, <1>1 DEF PlanInv, Ordered
    <3>3. tiles[i] \in TileRecord /\ tiles[at - 1] \in TileRecord /\ tiles[at] \in TileRecord
      BY <2>2, <1>1, TilesType
    <3> QED
      BY <3>1, <3>2, <3>3, <2>2, KeyOrder
  <2> QED
    BY <2>1, <2>2, <1>1
<1>6. PlanInv'
  <2>1. \A k \in first .. at : Group(tiles[k]) = Group(tiles[first])
    <3>1. Group(tiles[at]) = Group(tiles[first])
      BY <1>1 DEF Continues, SameGroup
    <3>2. \A k \in first .. at - 1 : Group(tiles[k]) = Group(tiles[first])
      BY <1>1 DEF PlanInv
    <3>3. \A k \in first .. at : k = at \/ k \in first .. at - 1
      BY <1>1
    <3> QED
      BY <3>1, <3>2, <3>3
  <2> QED
    BY <1>1, <1>5, <2>1 DEF PlanInv, PlannedTo, Stop, Ordered
<1>7. BuildInv' /\ PacksInv' /\ IndexInv'
  BY DEF BuildInv, PacksInv, IndexInv
<1> QED
  BY <1>3, <1>4, <1>6, <1>7

\* A range that is closed begins where the one before it ends; it is not empty
\* because its first tile always joins it.
LEMMA CloseRangeInvariant == IInv /\ CloseRange => IInv'
<1> SUFFICES ASSUME IInv, CloseRange PROVE IInv'
  OBVIOUS
<1> USE DEF IInv, CloseRange
<1> DEFINE n == Len(ranges)
<1>1. /\ first \in 1 .. Len(tiles) /\ at \in Nat /\ first < at /\ at <= Len(tiles) + 1
      /\ first = PlannedTo(ranges)
  BY TilesType DEF TypeOK, PlanInv, Continues, SameGroup, Fits
<1>2. /\ n \in Nat /\ Len(ranges') = n + 1
      /\ \A r \in 1 .. n : ranges'[r] = ranges[r]
      /\ ranges'[n + 1] = [first |-> first, count |-> at - first]
  BY RangesType
<1>3. TypeOK'
  BY <1>1, <1>2 DEF TypeOK, Header
<1>4. PhaseInv'
  BY DEF PhaseInv, Admissible, Header
<1>5. /\ \A r \in 1 .. n : Stop(ranges', r) = Stop(ranges, r) /\ Stop(ranges, r) \in Nat
      /\ \A r \in 1 .. n : ranges[r].first < Stop(ranges, r) /\ ranges[r].first \in Nat
      /\ Stop(ranges', n + 1) = at
      /\ ranges'[n + 1].first = first
      /\ n # 0 => first = Stop(ranges, n)
  BY <1>1, <1>2, RangesType DEF Stop, PlannedTo
<1>6. RangesInv'
  <2>1. Len(ranges') > 0 => ranges'[1].first = 1
    BY <1>1, <1>2 DEF RangesInv, PlannedTo
  <2>2. ASSUME NEW r \in 1 .. n + 1
        PROVE  /\ Stop(ranges', r) <= Len(tiles) + 1
               /\ \A k \in ranges'[r].first .. Stop(ranges', r) - 1 :
                    Group(tiles[k]) = Group(tiles[ranges'[r].first])
    <3>1. CASE r = n + 1
      BY <1>1, <1>2, <1>5, <3>1 DEF PlanInv
    <3>2. CASE r \in 1 .. n
      BY <1>2, <1>5, <3>2 DEF RangesInv
    <3> QED
      BY <3>1, <3>2, <1>2
  <2>3. \A r \in 2 .. n + 1 : ranges'[r].first = Stop(ranges', r - 1)
    BY SMTT(30), <1>1, <1>2, <1>5 DEF RangesInv, PlannedTo
  <2>4. ASSUME NEW q \in 1 .. n + 1, NEW r \in 1 .. n + 1, q < r
        PROVE  Stop(ranges', q) <= ranges'[r].first
    <3>1. CASE r = n + 1
      <4>1. q \in 1 .. n /\ Stop(ranges', q) = Stop(ranges, q) /\ ranges'[r].first = Stop(ranges, n)
        BY <1>1, <1>2, <1>5, <2>4, <3>1 DEF PlannedTo
      <4>2. q = n \/ Stop(ranges, q) <= ranges[n].first
        BY <4>1, <1>2 DEF RangesInv
      <4>3. /\ Stop(ranges, q) \in Nat /\ Stop(ranges, n) \in Nat /\ ranges[n].first \in Nat
            /\ ranges[n].first < Stop(ranges, n)
        BY <4>1, <1>2, <1>5
      <4>4. Stop(ranges, q) <= Stop(ranges, n)
        BY <4>2, <4>3
      <4> QED
        BY <4>1, <4>4
    <3>2. CASE r \in 1 .. n
      BY <1>2, <1>5, <2>4, <3>2 DEF RangesInv
    <3> QED
      BY <3>1, <3>2, <1>2
  <2> QED
    BY <1>2, <2>1, <2>2, <2>3, <2>4 DEF RangesInv, Group
<1>7. PlanInv'
  <2>1. PlannedTo(ranges') = at
    BY <1>2, <1>5 DEF PlannedTo
  <2> QED
    BY <2>1, <1>1 DEF PlanInv, Ordered, Group
<1>8. BuildInv' /\ PacksInv' /\ IndexInv'
  BY DEF BuildInv, PacksInv, IndexInv
<1> QED
  BY <1>3, <1>4, <1>6, <1>7, <1>8

LEMMA PlannedInvariant == IInv /\ Planned => IInv'
<1> SUFFICES ASSUME IInv, Planned PROVE IInv'
  OBVIOUS
<1> USE DEF IInv, Planned
<1>1. /\ Len(tiles) \in Nat /\ Len(tiles) > 0 /\ PlannedTo(ranges) = Len(tiles) + 1 /\ at = Len(tiles) + 1
      /\ ranges # <<>> /\ Len(ranges) > 0 /\ packs = <<>> /\ index = <<>>
  BY TilesType DEF TypeOK, PlanInv, PhaseInv, Admissible, PlannedTo
<1>2. TypeOK'
  BY DEF TypeOK
<1>3. PhaseInv' /\ RangesInv' /\ PlanInv'
  BY DEF PhaseInv, RangesInv, PlanInv, Admissible, Stop
<1>4. BuildInv'
  <2>1. ranges[1].first = 1 /\ ranges[1].count \in Nat
    BY <1>1, RangesType DEF RangesInv
  <2>2. PlannedTo(ranges') = PlannedTo(ranges) /\ Current' = ranges[1]
    BY <1>1 DEF PlannedTo, Stop, Current
  <2> QED
    BY <1>1, <2>1, <2>2 DEF BuildInv, PlanInv, Ordered
<1>5. PacksInv' /\ IndexInv'
  <2>1. Current' = ranges[1] /\ ranges[1].first = 1
    BY <1>1 DEF RangesInv, Current
  <2> QED
    BY <1>1, <2>1 DEF PacksInv, IndexInv
<1> QED
  BY <1>2, <1>3, <1>4, <1>5

\* What a step of the second half may rely on.
LEMMA Building ==
  ASSUME IInv, phase = "building", Len(packs) < Len(ranges)
  PROVE  /\ Len(packs) \in Nat /\ Len(packs) + 1 \in 1 .. Len(ranges)
         /\ Current = ranges[Len(packs) + 1]
         /\ Current.first + Current.count = Stop(ranges, Len(packs) + 1)
         /\ Current.first \in Nat \ {0} /\ Current.count \in Nat \ {0}
         /\ Current.first + Current.count <= Len(tiles) + 1
         /\ Current.first <= at /\ at <= Current.first + Current.count
         /\ Len(index) = at - 1 /\ at \in Nat \ {0}
<1> USE DEF IInv
<1>1. Len(packs) \in Nat /\ Len(ranges) \in Nat
  BY DEF TypeOK
<1>2. Current = ranges[Len(packs) + 1] /\ Current.first + Current.count = Stop(ranges, Len(packs) + 1)
  BY DEF Current, Stop
<1>3. Current.first \in Nat \ {0} /\ Current.count \in Nat \ {0}
  BY <1>1, <1>2, RangesType
<1> QED
  BY SMTT(30), <1>1, <1>2, <1>3 DEF RangesInv, BuildInv, TypeOK

LEMMA PlaceInvariant == IInv /\ Place => IInv'
<1> SUFFICES ASSUME IInv, Place PROVE IInv'
  OBVIOUS
<1> USE DEF IInv, Place
<1> DEFINE stop == Current.first + Current.count
<1> DEFINE entry == [key |-> tiles[at], pack_id |-> Len(packs),
                     payload_offset |-> align8(bytes), stored_bytes |-> tiles[at].bytes]
<1>1. /\ Len(packs) \in Nat /\ Len(packs) + 1 \in 1 .. Len(ranges) /\ Len(ranges) \in Nat
      /\ Current = ranges[Len(packs) + 1]
      /\ stop = Stop(ranges, Len(packs) + 1) /\ stop \in Nat
      /\ Current.first \in Nat /\ Current.first <= at /\ at < stop /\ stop <= Len(tiles) + 1
      /\ Len(index) = at - 1 /\ at \in Nat \ {0} /\ Len(tiles) \in Nat
  BY Building, TilesType, RangesType
<1>2. /\ at \in 1 .. Len(tiles) /\ tiles[at] \in TileRecord /\ tiles[at].bytes \in Nat
      /\ bytes \in Nat /\ bytes >= 64
      /\ align8(bytes) \in Nat /\ align8(bytes) >= bytes /\ align8(bytes) % 8 = 0
  <2>1. at \in 1 .. Len(tiles)
    BY <1>1
  <2>2. bytes \in Nat /\ bytes >= 64
    BY DEF TypeOK, PhaseInv, Header
  <2> QED
    BY <2>1, <2>2, TilesType, Alignment
<1>3. /\ Len(index') = at
      /\ \A k \in 1 .. at - 1 : index'[k] = index[k]
      /\ index'[at] = entry
      /\ entry.key = tiles[at] /\ entry.pack_id = Len(packs)
      /\ entry.payload_offset = align8(bytes) /\ entry.stored_bytes = tiles[at].bytes
  BY SMTT(30), <1>1 DEF TypeOK
<1>4. TypeOK'
  <2>1. entry \in [key : TileRecord, pack_id : Nat, payload_offset : Nat, stored_bytes : Nat]
    BY <1>1, <1>2
  <2>2. index' \in Seq([key : TileRecord, pack_id : Nat, payload_offset : Nat, stored_bytes : Nat])
    BY <2>1 DEF TypeOK
  <2>3. at' \in Nat \ {0} /\ bytes' \in Nat
    BY SMTT(30), <1>1, <1>2
  <2> QED
    BY <2>2, <2>3 DEF TypeOK
<1>5. PhaseInv' /\ RangesInv' /\ PlanInv'
  <2>1. bytes' >= Header
    BY <1>2 DEF Header
  <2> QED
    BY <2>1 DEF PhaseInv, RangesInv, PlanInv, Admissible
<1>6. BuildInv'
  <2>1. Current' = Current
    BY DEF Current
  <2> QED
    BY SMTT(30), <2>1, <1>1, <1>3 DEF BuildInv, Ordered
<1>7. PacksInv'
  <2> SUFFICES ASSUME NEW p \in 1 .. Len(packs)
               PROVE  End(index'[Stop(ranges, p) - 1]) = End(index[Stop(ranges, p) - 1]) /\ Stop(ranges, p) <= at + 1
    BY DEF PacksInv
  <2>1. Stop(ranges, p) \in Nat /\ Stop(ranges, p) <= at /\ Stop(ranges, p) - 1 \in 1 .. at - 1
    <3>1. p \in 1 .. Len(ranges)
      BY <1>1
    <3>2. Stop(ranges, p) \in Nat /\ ranges[p].first < Stop(ranges, p) /\ ranges[p].first \in Nat \ {0}
      BY <3>1, RangesType
    <3>3. Stop(ranges, p) <= at
      BY DEF PacksInv
    <3> HIDE DEF IInv, Place
    <3> QED
      BY SMTT(30), <3>2, <3>3, <1>1
  <2>2. index'[Stop(ranges, p) - 1] = index[Stop(ranges, p) - 1]
    BY <2>1, <1>3
  <2> QED
    BY <2>1, <2>2, <1>1
<1>8. IndexInv'
  <2>1. \A k \in 1 .. at - 1 :
          /\ End(index'[k]) = End(index[k])
          /\ index[k].payload_offset \in Nat /\ index[k].stored_bytes \in Nat /\ End(index[k]) \in Nat
    BY <1>1, <1>3, IndexType
  <2>2. /\ bytes' = End(index'[at]) /\ bytes' \in Nat
        /\ bytes <= align8(bytes) /\ align8(bytes) <= bytes'
    <3>1. bytes' = align8(bytes) + tiles[at].bytes
      OBVIOUS
    <3> HIDE DEF IInv, Place
    <3> QED
      BY SMTT(30), <3>1, <1>1, <1>2, <1>3 DEF End
  <2>3. ASSUME NEW k \in 1 .. at
        PROVE  /\ index'[k].key = tiles[k] /\ index'[k].stored_bytes = tiles[k].bytes
               /\ index'[k].payload_offset >= Header /\ index'[k].payload_offset % 8 = 0
               /\ index'[k].pack_id < Len(ranges) /\ index'[k].pack_id <= Len(packs)
               /\ ranges[index'[k].pack_id + 1].first <= k /\ k < Stop(ranges, index'[k].pack_id + 1)
               /\ index'[k].pack_id = Len(packs) => End(index'[k]) <= bytes'
    <3>1. CASE k = at
      <4>1. /\ index'[at].key = tiles[at] /\ index'[at].stored_bytes = tiles[at].bytes
            /\ index'[at].payload_offset = align8(bytes) /\ index'[at].pack_id = Len(packs)
        BY <1>3
      <4>2. align8(bytes) >= Header /\ align8(bytes) % 8 = 0
        BY <1>2 DEF Header
      <4>3. /\ Len(packs) < Len(ranges) /\ Len(packs) <= Len(packs)
            /\ ranges[Len(packs) + 1].first <= at /\ at < Stop(ranges, Len(packs) + 1)
        BY <1>1
      <4>4. End(index'[at]) <= bytes'
        <5> HIDE DEF Place
        <5> QED
          BY <2>2
      <4> QED
        BY <3>1, <4>1, <4>2, <4>3, <4>4
    <3>2. CASE k \in 1 .. at - 1
      <4>1. index[k].pack_id = Len(packs) => End(index[k]) <= bytes
        BY <3>2, <1>1 DEF IndexInv
      <4>2. index[k].pack_id = Len(packs) => End(index'[k]) <= bytes'
        <5>1. End(index'[k]) = End(index[k]) /\ End(index[k]) \in Nat
          BY <3>2, <2>1
        <5> HIDE DEF Place, IInv
        <5> QED
          BY <4>1, <5>1, <2>2, <1>2
      <4> QED
        BY <4>2, <3>2, <1>1, <1>3 DEF IndexInv
    <3> QED
      BY SMTT(30), <3>1, <3>2, <1>1
  <2>4. ASSUME NEW j \in 1 .. at, NEW k \in 1 .. at, j < k, index'[j].pack_id = index'[k].pack_id
        PROVE  End(index'[j]) <= index'[k].payload_offset
    <3>1. j \in 1 .. at - 1 /\ index'[j] = index[j] /\ End(index'[j]) = End(index[j]) /\ End(index[j]) \in Nat
      <4>1. j \in 1 .. at - 1
        BY <2>4, <1>1
      <4> QED
        BY <4>1, <2>1, <1>3
    <3>2. CASE k = at
      <4>1. End(index[j]) <= bytes
        BY <3>1, <3>2, <2>4, <1>1, <1>3 DEF IndexInv
      <4> QED
        BY <4>1, <3>1, <3>2, <1>2, <1>3
    <3>3. CASE k \in 1 .. at - 1
      BY <3>1, <3>3, <2>4, <1>1, <1>3 DEF IndexInv
    <3> QED
      BY <3>2, <3>3, <1>1
  <2>5. bytes' = End(index'[at' - 1])
    <3>1. at' - 1 = at
      BY <1>1
    <3> HIDE DEF IInv, Place
    <3> QED
      BY <3>1, <2>2
  <2> QED
    BY <2>3, <2>4, <2>5, <1>3 DEF IndexInv
<1> QED
  BY <1>4, <1>5, <1>6, <1>7, <1>8

\* A file ends with the payload that was placed last.
LEMMA ClosePackInvariant == IInv /\ ClosePack => IInv'
<1> SUFFICES ASSUME IInv, ClosePack PROVE IInv'
  OBVIOUS
<1> USE DEF IInv, ClosePack
<1> DEFINE n == Len(packs)
<1> DEFINE pack == [pack_id |-> n, tile_count |-> Current.count, file_bytes |-> bytes,
                    first_key |-> tiles[Current.first], last_key |-> tiles[at - 1]]
<1>1. /\ n \in Nat /\ n + 1 \in 1 .. Len(ranges) /\ Len(ranges) \in Nat
      /\ Current = ranges[n + 1] /\ Current.count \in Nat
      /\ at = Stop(ranges, n + 1) /\ Current.first \in Nat \ {0} /\ Current.first < at
      /\ Len(index) = at - 1 /\ at \in Nat \ {0} /\ at - 1 \in 1 .. Len(tiles)
      /\ Current.first \in 1 .. Len(tiles) /\ Len(tiles) \in Nat
  BY SMTT(30), Building, TilesType, RangesType
<1>2. /\ bytes \in Nat /\ bytes >= Header /\ bytes = End(index[at - 1])
      /\ tiles[Current.first] \in TileRecord /\ tiles[at - 1] \in TileRecord
  BY <1>1, TilesType DEF TypeOK, PhaseInv, IndexInv
<1>3. /\ Len(packs') = n + 1
      /\ \A p \in 1 .. n : packs'[p] = packs[p]
      /\ packs'[n + 1] = pack
      /\ pack.pack_id = n /\ pack.tile_count = Current.count /\ pack.file_bytes = bytes
      /\ pack.first_key = tiles[Current.first] /\ pack.last_key = tiles[at - 1]
  BY <1>1 DEF TypeOK
<1>4. TypeOK'
  <2>1. pack \in [pack_id : Nat, tile_count : Nat, file_bytes : Nat,
                  first_key : TileRecord, last_key : TileRecord]
    BY <1>1, <1>2
  <2>2. packs' \in Seq([pack_id : Nat, tile_count : Nat, file_bytes : Nat,
                        first_key : TileRecord, last_key : TileRecord])
    BY <2>1 DEF TypeOK
  <2> QED
    BY <2>2 DEF TypeOK, Header
<1>5. PhaseInv' /\ RangesInv' /\ PlanInv'
  BY DEF PhaseInv, RangesInv, PlanInv, Admissible, Header
<1>6. BuildInv'
  <2>1. CASE n + 1 = Len(ranges)
    <3>1. at = Len(tiles) + 1
      BY <2>1, <1>1 DEF BuildInv, PlannedTo
    <3>2. /\ PlannedTo(ranges) = Len(tiles) + 1 /\ Ordered(Len(tiles))
          /\ Len(packs') = Len(ranges) /\ ~(Len(packs') < Len(ranges)) /\ Len(packs') <= Len(ranges)
      <4>1. PlannedTo(ranges) = Len(tiles) + 1 /\ Ordered(Len(tiles))
        BY DEF BuildInv
      <4> QED
        BY <4>1, <2>1, <1>1, <1>3
    <3> QED
      BY <3>1, <3>2, <1>1 DEF BuildInv, Ordered
  <2>2. CASE n + 1 < Len(ranges)
    <3>1. Current' = ranges[n + 2] /\ n + 2 \in 2 .. Len(ranges)
      BY <2>2, <1>1, <1>3 DEF Current
    <3>2. Current'.first = at /\ Current'.count \in Nat
      <4>1. ranges[n + 2].first = Stop(ranges, n + 2 - 1)
        BY <3>1 DEF RangesInv
      <4>2. n + 2 - 1 = n + 1
        BY <1>1
      <4> QED
        BY SMTT(30), <4>1, <4>2, <3>1, <1>1, RangesType
    <3>3. Current'.first <= at' /\ at' <= Current'.first + Current'.count
      BY <3>2, <1>1
    <3> QED
      BY <3>3, <2>2, <1>1, <1>3 DEF BuildInv, Ordered
  <2> QED
    BY <2>1, <2>2, <1>1
<1>7. PacksInv'
  <2> SUFFICES ASSUME NEW p \in 1 .. n + 1
               PROVE  /\ packs'[p].pack_id = p - 1
                      /\ packs'[p].tile_count = ranges[p].count
                      /\ packs'[p].first_key = tiles[ranges[p].first]
                      /\ packs'[p].last_key = tiles[Stop(ranges, p) - 1]
                      /\ packs'[p].file_bytes = End(index[Stop(ranges, p) - 1])
                      /\ packs'[p].file_bytes >= Header
                      /\ Stop(ranges, p) <= at
    BY <1>3 DEF PacksInv, End
  <2>1. CASE p = n + 1
    BY SMTT(90), <2>1, <1>1, <1>2, <1>3
  <2>2. CASE p \in 1 .. n
    BY <2>2, <1>3 DEF PacksInv
  <2> QED
    BY SMTT(30), <2>1, <2>2, <1>1
<1>8. IndexInv'
  <2>1. \A k \in 1 .. Len(index) : index[k].pack_id <= n /\ index[k].pack_id \in Nat
    BY IndexType DEF IndexInv
  <2>2. \A k \in 1 .. Len(index) : index[k].pack_id # n + 1 /\ index[k].pack_id <= n + 1
    <3> HIDE DEF IInv, ClosePack
    <3> QED
      BY <2>1, <1>1
  <2>3. Len(packs') < Len(ranges) => ~(at > Current'.first)
    <3> SUFFICES ASSUME n + 1 < Len(ranges) PROVE ~(at > Current'.first)
      BY <1>3
    <3>1. Current' = ranges[n + 2] /\ n + 2 \in 2 .. Len(ranges) /\ n + 2 - 1 = n + 1
      BY <1>1, <1>3 DEF Current
    <3>2. ranges[n + 2].first = Stop(ranges, n + 1)
      BY <3>1 DEF RangesInv
    <3> QED
      BY <3>1, <3>2, <1>1
  <2> QED
    BY <2>2, <2>3, <1>3 DEF IndexInv, End
<1> QED
  BY <1>4, <1>5, <1>6, <1>7, <1>8

LEMMA FinishInvariant == IInv /\ Finish => IInv'
<1> SUFFICES ASSUME IInv, Finish PROVE IInv'
  OBVIOUS
<1> USE DEF IInv, Finish
<1>1. TypeOK'
  BY DEF TypeOK
<1>2. PhaseInv' /\ RangesInv' /\ PlanInv'
  BY DEF PhaseInv, RangesInv, PlanInv, Admissible
<1>3. BuildInv' /\ PacksInv' /\ IndexInv'
  BY DEF BuildInv, PacksInv, IndexInv, Current, Ordered, End
<1> QED
  BY <1>1, <1>2, <1>3

LEMMA StutterInvariant == IInv /\ UNCHANGED vars => IInv'
<1> SUFFICES ASSUME IInv, UNCHANGED vars PROVE IInv'
  OBVIOUS
<1> USE DEF IInv, vars
<1>1. TypeOK'
  BY DEF TypeOK
<1>2. PhaseInv' /\ RangesInv' /\ PlanInv'
  BY DEF PhaseInv, RangesInv, PlanInv, Admissible, Ordered
<1>3. BuildInv' /\ PacksInv' /\ IndexInv'
  BY DEF BuildInv, PacksInv, IndexInv, Current, Ordered
<1> QED
  BY <1>1, <1>2, <1>3

THEOREM Invariance == Spec => []IInv
<1>1. IInv /\ [Next]_vars => IInv'
  BY CheckInvariant, GiveUpInvariant, ExtendInvariant, CloseRangeInvariant, PlannedInvariant,
     PlaceInvariant, ClosePackInvariant, FinishInvariant, StutterInvariant
     DEF Next, Ended
<1> QED
  BY InitInvariant, <1>1, PTL DEF Spec

\* Every quantity stays in its range, in particular no range is ever empty.
THEOREM TypeCorrect == Spec => []TypeOK
<1>1. IInv => TypeOK
  BY DEF IInv
<1> QED
  BY Invariance, <1>1, PTL

-----------------------------------------------------------------------------
(* What the reader finds *)

LEMMA Complete ==
  ASSUME IInv, phase = "done"
  PROVE  /\ Len(index) = Len(tiles) /\ Len(packs) = Len(ranges)
         /\ Len(index) \in Nat /\ Len(ranges) \in Nat /\ Ordered(Len(tiles))
         /\ \A p \in 1 .. Len(packs) :
              /\ Stop(ranges, p) \in Nat /\ ranges[p].first \in Nat \ {0}
              /\ ranges[p].first < Stop(ranges, p) /\ Stop(ranges, p) <= Len(index) + 1
              /\ ranges[p].count = Stop(ranges, p) - ranges[p].first
              /\ ranges[p].count \in Nat \ {0}
<1>1. /\ Len(index) = at - 1 /\ at = Len(tiles) + 1 /\ Len(packs) = Len(ranges)
      /\ Ordered(Len(tiles)) /\ Len(tiles) \in Nat
  BY TilesType DEF IInv, BuildInv
<1>2. ASSUME NEW p \in 1 .. Len(packs)
      PROVE  /\ Stop(ranges, p) \in Nat /\ ranges[p].first \in Nat \ {0}
             /\ ranges[p].first < Stop(ranges, p) /\ Stop(ranges, p) <= Len(tiles) + 1
             /\ ranges[p].count \in Nat \ {0}
  BY <1>1, RangesType DEF IInv, RangesInv
<1>3. \A p \in 1 .. Len(packs) : ranges[p].count = Stop(ranges, p) - ranges[p].first
  BY <1>2 DEF Stop
<1> QED
  BY <1>1, <1>2, <1>3, RangesType, IndexType DEF IInv

\* A pack holds the tiles of its range: ranges do not overlap.
LEMMA EntriesOfPack ==
  ASSUME IInv, phase = "done", NEW p \in 1 .. Len(packs)
  PROVE  Entries(packs[p].pack_id) = ranges[p].first .. Stop(ranges, p) - 1
<1>1. packs[p].pack_id = p - 1
  BY DEF IInv, PacksInv
<1>2. ASSUME NEW k \in 1 .. Len(index), index[k].pack_id = p - 1
      PROVE  k \in ranges[p].first .. Stop(ranges, p) - 1
  <2>1. ranges[index[k].pack_id + 1].first <= k /\ k < Stop(ranges, index[k].pack_id + 1)
    BY DEF IInv, IndexInv
  <2>2. index[k].pack_id + 1 = p
    BY <1>2, Complete
  <2> QED
    BY <2>1, <2>2, Complete
<1>3. ASSUME NEW k \in ranges[p].first .. Stop(ranges, p) - 1
      PROVE  k \in 1 .. Len(index) /\ index[k].pack_id = p - 1
  <2>1. k \in 1 .. Len(index)
    BY Complete
  <2> DEFINE q == index[k].pack_id + 1
  <2>2. q \in 1 .. Len(packs) /\ ranges[q].first <= k /\ k < Stop(ranges, q)
    <3>1. /\ index[k].pack_id < Len(ranges) /\ index[k].pack_id \in Nat
          /\ ranges[q].first <= k /\ k < Stop(ranges, q)
      BY <2>1, IndexType DEF IInv, IndexInv
    <3> QED
      BY <3>1, Complete
  <2> HIDE DEF q
  <2>3. /\ q < p => Stop(ranges, q) <= ranges[p].first
        /\ p < q => Stop(ranges, p) <= ranges[q].first
    BY <2>2, Complete DEF IInv, RangesInv
  <2>4. /\ Stop(ranges, q) \in Nat /\ ranges[q].first \in Nat
        /\ Stop(ranges, p) \in Nat /\ ranges[p].first \in Nat
    BY <2>2, Complete
  <2>5. q = p
    BY <2>2, <2>3, <2>4
  <2> QED
    BY <2>1, <2>5, IndexType DEF q, IInv
<1> QED
  BY <1>1, <1>2, <1>3 DEF Entries

LEMMA RegistryOfComplete == IInv /\ phase = "done" => RegistryAccepted
<1> SUFFICES ASSUME IInv, phase = "done", NEW p \in 1 .. Len(packs)
             PROVE  /\ p > 1 => packs[p].pack_id > packs[p - 1].pack_id
                    /\ packs[p].tile_count > 0 /\ packs[p].file_bytes >= Header
                    /\ ~KeyLess(packs[p].last_key, packs[p].first_key)
                    /\ Group(packs[p].first_key) = Group(packs[p].last_key)
  BY DEF RegistryAccepted
<1> DEFINE low == ranges[p].first
<1> DEFINE high == Stop(ranges, p) - 1
<1>1. /\ packs[p].pack_id = p - 1 /\ packs[p].tile_count = ranges[p].count
      /\ packs[p].file_bytes >= Header
      /\ packs[p].first_key = tiles[low] /\ packs[p].last_key = tiles[high]
  BY DEF IInv, PacksInv
<1>2. p > 1 => packs[p - 1].pack_id = p - 2
  BY Complete DEF IInv, PacksInv
<1>3. low \in 1 .. Len(tiles) /\ high \in 1 .. Len(tiles) /\ low <= high /\ high \in low .. high
  BY Complete
<1>4. Group(tiles[high]) = Group(tiles[low])
  BY <1>3, Complete DEF IInv, RangesInv
<1>5. ~KeyLess(tiles[high], tiles[low])
  <2>1. tiles[low] \in TileRecord /\ tiles[high] \in TileRecord
    BY <1>3, TilesType DEF IInv
  <2>2. low = high \/ KeyLess(tiles[low], tiles[high])
    BY <1>3, Complete DEF Ordered
  <2> QED
    BY <2>1, <2>2, KeyOrder
<1> QED
  BY <1>1, <1>2, <1>4, <1>5, Complete

LEMMA PayloadsOfComplete == IInv /\ phase = "done" => PayloadsAccepted
<1> SUFFICES ASSUME IInv, phase = "done", NEW p \in 1 .. Len(packs)
             PROVE  LET entries == Entries(packs[p].pack_id)
                    IN  /\ \A j, k \in entries : j < k => End(index[j]) <= index[k].payload_offset
                        /\ \E high \in entries :
                             (\A k \in entries : k <= high) /\ End(index[high]) = packs[p].file_bytes
  BY DEF PayloadsAccepted
<1>1. \A j, k \in Entries(packs[p].pack_id) : j < k => End(index[j]) <= index[k].payload_offset
  BY DEF Entries, IInv, IndexInv
<1>2. /\ Stop(ranges, p) - 1 \in Entries(packs[p].pack_id)
      /\ \A k \in Entries(packs[p].pack_id) : k <= Stop(ranges, p) - 1
  BY EntriesOfPack, Complete
<1>3. End(index[Stop(ranges, p) - 1]) = packs[p].file_bytes
  BY DEF IInv, PacksInv
<1> QED
  BY <1>1, <1>2, <1>3

LEMMA BoundsOfComplete == IInv /\ phase = "done" => BoundsAccepted
<1> SUFFICES ASSUME IInv, phase = "done", NEW p \in 1 .. Len(packs)
             PROVE  LET entries == Entries(packs[p].pack_id)
                    IN  /\ Cardinality(entries) = packs[p].tile_count
                        /\ \E low, high \in entries :
                             /\ \A k \in entries : low <= k /\ k <= high
                             /\ index[low].key = packs[p].first_key
                             /\ index[high].key = packs[p].last_key
  BY DEF BoundsAccepted
<1> DEFINE low == ranges[p].first
<1> DEFINE high == Stop(ranges, p) - 1
<1>1. /\ low \in 1 .. Len(index) /\ high \in 1 .. Len(index) /\ low <= high
      /\ ranges[p].count = high - low + 1
  BY Complete
<1>2. /\ packs[p].tile_count = ranges[p].count
      /\ packs[p].first_key = tiles[low] /\ packs[p].last_key = tiles[high]
  BY DEF IInv, PacksInv
<1>3. index[low].key = tiles[low] /\ index[high].key = tiles[high]
  BY <1>1 DEF IInv, IndexInv
<1>4. Entries(packs[p].pack_id) = low .. high
  BY EntriesOfPack
<1> HIDE DEF low, high
<1>5. low \in Int /\ high \in Int
  BY <1>1
<1>6. Cardinality(low .. high) = high - low + 1
  BY <1>1, <1>5, FS_Interval
<1> QED
  BY <1>1, <1>2, <1>3, <1>4, <1>5, <1>6

LEMMA EntriesOfComplete == IInv /\ phase = "done" => EntriesAccepted
<1> SUFFICES ASSUME IInv, phase = "done", NEW k \in 1 .. Len(index)
             PROVE  /\ k > 1 => KeyLess(index[k - 1].key, index[k].key)
                    /\ index[k].payload_offset >= Header
                    /\ index[k].payload_offset % 8 = 0
                    /\ index[k].stored_bytes > 0
                    /\ \E p \in 1 .. Len(packs) :
                         packs[p].pack_id = index[k].pack_id /\ End(index[k]) <= packs[p].file_bytes
  BY DEF EntriesAccepted
<1>1. k > 1 => KeyLess(index[k - 1].key, index[k].key)
  <2> SUFFICES ASSUME k > 1 PROVE KeyLess(index[k - 1].key, index[k].key)
    OBVIOUS
  <2>1. k - 1 \in 1 .. Len(index)
    BY Complete
  <2>2. index[k - 1].key = tiles[k - 1] /\ index[k].key = tiles[k]
    BY <2>1 DEF IInv, IndexInv
  <2> QED
    BY <2>1, <2>2, Complete DEF Ordered
<1>2. index[k].payload_offset >= Header /\ index[k].payload_offset % 8 = 0
  BY DEF IInv, IndexInv
<1>3. index[k].stored_bytes > 0
  <2>1. index[k].stored_bytes = tiles[k].bytes /\ k \in 1 .. Len(tiles)
    BY Complete DEF IInv, IndexInv
  <2> QED
    BY <2>1, PackingAssumption DEF IInv, PhaseInv, Admissible
<1>4. \E p \in 1 .. Len(packs) :
        packs[p].pack_id = index[k].pack_id /\ End(index[k]) <= packs[p].file_bytes
  <2> DEFINE p == index[k].pack_id + 1
  <2>1. index[k].pack_id \in Nat /\ index[k].pack_id < Len(ranges)
    BY IndexType DEF IInv, IndexInv
  <2>2. p \in 1 .. Len(packs) /\ p - 1 = index[k].pack_id
    BY <2>1, Complete
  <2>3. packs[p].pack_id = index[k].pack_id
    BY <2>2 DEF IInv, PacksInv
  <2> HIDE DEF p
  <2>4. k \in Entries(packs[p].pack_id)
    BY <2>3 DEF Entries
  <2>5. PICK high \in Entries(packs[p].pack_id) :
          (\A j \in Entries(packs[p].pack_id) : j <= high) /\ End(index[high]) = packs[p].file_bytes
    BY <2>2, PayloadsOfComplete DEF PayloadsAccepted
  <2>6. k <= high /\ high \in 1 .. Len(index)
    BY <2>4, <2>5 DEF Entries
  <2>7. k = high \/ End(index[k]) <= index[high].payload_offset
    BY <2>2, <2>4, <2>6, PayloadsOfComplete DEF PayloadsAccepted
  <2>8. /\ End(index[high]) >= index[high].payload_offset /\ End(index[high]) \in Nat
        /\ End(index[k]) \in Nat /\ index[high].payload_offset \in Nat
    BY <2>6, IndexType DEF IInv
  <2>9. End(index[k]) <= End(index[high])
    BY <2>7, <2>8
  <2> QED
    BY <2>2, <2>3, <2>5, <2>9
<1> QED
  BY <1>1, <1>2, <1>3, <1>4

\* Whatever the tiles and the target, the reader accepts what is written: the
\* registry of packs, every entry of the index, and every position in a pack.
THEOREM ReaderAcceptsAlways == Spec => []ReaderAccepts
<1>1. IInv => ReaderAccepts
  BY Complete, RegistryOfComplete, EntriesOfComplete, BoundsOfComplete, PayloadsOfComplete
     DEF ReaderAccepts
<1> QED
  BY Invariance, <1>1, PTL

-----------------------------------------------------------------------------
(* The sizes of packs. No invariant says what a planned range would measure  *)
(* if it were written, so the range is measured: a measure gives, behind     *)
(* every tile of a range, the size of a file that ends there.                *)

Measures == [0 .. Len(tiles) -> Nat]

IsMeasure(s, low, high) ==
  /\ s[low - 1] = Header
  /\ \A k \in low .. high : s[k] = align8(s[k - 1]) + tiles[k].bytes

\* Whether the range is as full as it may be, if a file of it has this size.
Full(low, stop, size) ==
  /\ size <= target \/ stop = low + 1
  /\ stop <= Len(tiles) /\ Group(tiles[stop]) = Group(tiles[low]) =>
       align8(size) + tiles[stop].bytes > target

RangesFull ==
  \A r \in 1 .. Len(ranges) : \A s \in Measures :
    IsMeasure(s, ranges[r].first, Stop(ranges, r) - 1) =>
      Full(ranges[r].first, Stop(ranges, r), s[Stop(ranges, r) - 1])

PlanSized ==
  /\ phase = "checking" => bytes = Header
  /\ phase = "planning" =>
       /\ at = first => bytes = Header
       /\ at > first + 1 => bytes <= target
       /\ \A s \in Measures : IsMeasure(s, first, at - 1) => s[at - 1] = bytes

\* Where a payload of a range begins.
Placed(r, k) ==
  index[k].payload_offset = align8(IF k = ranges[r].first THEN Header ELSE End(index[k - 1]))

BuildSized ==
  phase \in {"building", "done"} =>
    /\ \A r \in 1 .. Len(ranges) : \A k \in ranges[r].first .. Stop(ranges, r) - 1 :
         k <= Len(index) => Placed(r, k)
    /\ Len(packs) < Len(ranges) /\ at = Current.first => bytes = Header

SizeInv == RangesFull /\ PlanSized /\ BuildSized /\ PacksFilled

\* What is laid out measures its range.
LEMMA LaidOutIsMeasured ==
  ASSUME IInv, BuildSized, phase \in {"building", "done"},
         NEW r \in 1 .. Len(ranges), Stop(ranges, r) - 1 <= Len(index)
  PROVE  \E s \in Measures :
           /\ IsMeasure(s, ranges[r].first, Stop(ranges, r) - 1)
           /\ s[Stop(ranges, r) - 1] = End(index[Stop(ranges, r) - 1])
<1> DEFINE low == ranges[r].first
           high == Stop(ranges, r) - 1
           s == [k \in 0 .. Len(tiles) |-> IF k \in low .. high THEN End(index[k]) ELSE Header]
<1>1. /\ low \in Nat \ {0} /\ high \in Nat /\ low <= high /\ high <= Len(index)
      /\ high <= Len(tiles) /\ Len(tiles) \in Nat /\ Len(index) \in Nat
  BY RangesType, TilesType, IndexType DEF IInv, RangesInv
<1>2. \A k \in low .. high : End(index[k]) \in Nat
  BY <1>1, IndexType DEF IInv
<1>3. \A k \in low .. high : Placed(r, k) /\ End(index[k]) = index[k].payload_offset + tiles[k].bytes
  <2> SUFFICES ASSUME NEW k \in low .. high
               PROVE  Placed(r, k) /\ End(index[k]) = index[k].payload_offset + tiles[k].bytes
    OBVIOUS
  <2>1. k \in 1 .. Len(index) /\ k <= Len(index) BY <1>1
  <2>2. index[k].stored_bytes = tiles[k].bytes BY <2>1 DEF IInv, IndexInv
  <2> QED BY <2>1, <2>2 DEF BuildSized, End
<1> HIDE DEF low, high
<1>4. s \in Measures BY <1>1, <1>2 DEF Measures, Header
<1>5. IsMeasure(s, low, high)
  <2>1. s[low - 1] = Header BY <1>1
  <2>2. ASSUME NEW k \in low .. high
        PROVE  s[k] = align8(s[k - 1]) + tiles[k].bytes
    <3>1. s[k] = End(index[k]) BY <1>1
    <3>2. s[k - 1] = IF k = low THEN Header ELSE End(index[k - 1]) BY <1>1
    <3> HIDE DEF s
    <3> QED BY <1>3, <3>1, <3>2 DEF Placed, low
  <2> QED BY <2>1, <2>2 DEF IsMeasure
<1>6. s[high] = End(index[high]) BY <1>1
<1> QED BY <1>4, <1>5, <1>6 DEF low, high

LEMMA SizeInit == Init => SizeInv
  BY DEF Init, SizeInv, RangesFull, PlanSized, BuildSized, PacksFilled

\* What a range measures depends on the tiles, which do not change.
LEMMA SizeRangesKept ==
  ASSUME SizeInv, UNCHANGED <<tiles, target, ranges>>
  PROVE  RangesFull'
<1>1. Measures' = Measures BY DEF Measures
<1>2. \A s, low, high : IsMeasure(s, low, high)' <=> IsMeasure(s, low, high)
  BY DEF IsMeasure, Header, align8
<1>3. \A low, stop, size : Full(low, stop, size)' <=> Full(low, stop, size)
  BY DEF Full, align8, Group
<1>4. RangesFull BY DEF SizeInv
<1>5. \A r : Stop(ranges, r)' = Stop(ranges, r) BY DEF Stop
<1> QED BY Zenon, <1>1, <1>2, <1>3, <1>4, <1>5 DEF RangesFull

LEMMA SizeKept ==
  ASSUME SizeInv, UNCHANGED <<tiles, target, ranges, packs>>
  PROVE  RangesFull' /\ PacksFilled'
  BY SizeRangesKept DEF SizeInv, PacksFilled

LEMMA ExtendSized == IInv /\ SizeInv /\ Extend => SizeInv'
<1> SUFFICES ASSUME IInv, SizeInv, Extend PROVE SizeInv'
  OBVIOUS
<1>1. /\ UNCHANGED <<tiles, target, phase, first, ranges, packs, index>> /\ phase = "planning"
      /\ at' = at + 1 /\ bytes' = align8(bytes) + tiles[at].bytes
      /\ Fits /\ at <= Len(tiles) /\ first <= at /\ at \in Nat \ {0} /\ first \in Nat \ {0}
      /\ Len(tiles) \in Nat /\ target \in Nat
  BY TilesType, PackingAssumption DEF Extend, Continues, IInv, TypeOK, PlanInv
<1>2. RangesFull' /\ PacksFilled' BY <1>1, SizeKept
<1>3. at' > first + 1 => bytes' <= target BY <1>1 DEF Fits
<1>4. ASSUME NEW s \in Measures, IsMeasure(s, first, at)
      PROVE  s[at] = bytes'
  <2>1. IsMeasure(s, first, at - 1) BY <1>1, <1>4 DEF IsMeasure
  <2>2. s[at - 1] = bytes BY <1>1, <2>1 DEF SizeInv, PlanSized
  <2>3. s[at] = align8(s[at - 1]) + tiles[at].bytes BY <1>1, <1>4 DEF IsMeasure
  <2> QED BY <1>1, <2>2, <2>3
<1>5. PlanSized'
  <2>1. Measures' = Measures BY <1>1 DEF Measures
  <2>2. \A s : IsMeasure(s, first, at - 1)' <=> IsMeasure(s, first, at)
    <3>1. at' - 1 = at BY <1>1
    <3> QED BY <1>1, <3>1 DEF IsMeasure, Header, align8
  <2>3. \A s \in Measures' : IsMeasure(s, first, at - 1)' => s[at'-1] = bytes'
    <3>1. at' - 1 = at BY <1>1
    <3> QED BY <1>4, <2>1, <2>2, <3>1
  <2>4. at' # first' /\ phase' = "planning" BY <1>1
  <2> QED BY <1>1, <1>3, <2>3, <2>4 DEF PlanSized
<1>6. BuildSized' BY <1>1 DEF BuildSized
<1> QED BY <1>2, <1>5, <1>6 DEF SizeInv

\* A range is closed when nothing is left that belongs to it and fits.
LEMMA CloseRangeSized == IInv /\ SizeInv /\ CloseRange => SizeInv'
<1> SUFFICES ASSUME IInv, SizeInv, CloseRange PROVE SizeInv'
  OBVIOUS
<1> DEFINE n == Len(ranges)
<1>1. /\ UNCHANGED <<tiles, target, phase, at, packs, index>> /\ phase = "planning"
      /\ first' = at /\ bytes' = Header /\ ~Continues
      /\ ranges' = Append(ranges, [first |-> first, count |-> at - first])
      /\ first < at /\ at <= Len(tiles) + 1 /\ at \in Nat \ {0} /\ first \in Nat \ {0}
      /\ Len(tiles) \in Nat /\ target \in Nat /\ bytes \in Nat
  <2>1. first <= at /\ first <= Len(tiles) /\ at <= Len(tiles) + 1
    BY DEF CloseRange, IInv, PlanInv
  <2>2. first # at BY <2>1 DEF CloseRange, Continues, SameGroup, Fits
  <2> QED BY <2>1, <2>2, TilesType, PackingAssumption DEF CloseRange, IInv, TypeOK
<1>2. /\ n \in Nat /\ Len(ranges') = n + 1
      /\ \A r \in 1 .. n : ranges'[r] = ranges[r] /\ Stop(ranges', r) = Stop(ranges, r)
      /\ ranges'[n + 1].first = first /\ Stop(ranges', n + 1) = at
  BY <1>1, RangesType DEF IInv, Stop
<1>3. ASSUME NEW s \in Measures, IsMeasure(s, first, at - 1)
      PROVE  Full(first, at, s[at - 1])
  <2>1. s[at - 1] = bytes BY <1>1, <1>3 DEF SizeInv, PlanSized
  <2>2. bytes <= target \/ at = first + 1 BY <1>1 DEF SizeInv, PlanSized
  <2>3. at <= Len(tiles) /\ Group(tiles[at]) = Group(tiles[first]) => ~Fits
    BY <1>1 DEF Continues, SameGroup
  <2>4. align8(bytes) \in Nat BY <1>1, Alignment
  <2>5. at <= Len(tiles) => at \in 1 .. Len(tiles) BY <1>1
  <2>6. at <= Len(tiles) => tiles[at].bytes \in Nat BY <2>5, TilesType DEF IInv
  <2> QED BY <1>1, <2>1, <2>2, <2>3, <2>4, <2>6 DEF Full, Fits
<1>4. RangesFull'
  <2>1. Measures' = Measures BY <1>1 DEF Measures
  <2>2. \A s, low, high : IsMeasure(s, low, high)' <=> IsMeasure(s, low, high)
    BY <1>1 DEF IsMeasure, Header, align8
  <2>3. \A low, stop, size : Full(low, stop, size)' <=> Full(low, stop, size)
    BY <1>1 DEF Full, align8, Group
  <2>4. ASSUME NEW r \in 1 .. n + 1, NEW s \in Measures,
               IsMeasure(s, ranges'[r].first, Stop(ranges', r) - 1)
        PROVE  Full(ranges'[r].first, Stop(ranges', r), s[Stop(ranges', r) - 1])
    <3>1. CASE r = n + 1 BY <1>2, <1>3, <2>4, <3>1
    <3>2. CASE r \in 1 .. n BY <1>2, <2>4, <3>2 DEF SizeInv, RangesFull
    <3> QED BY <1>2, <3>1, <3>2
  <2> QED BY <1>2, <2>1, <2>2, <2>3, <2>4 DEF RangesFull
<1>5. PlanSized'
  <2>1. ASSUME NEW s, IsMeasure(s, at, at - 1) PROVE s[at - 1] = Header
    BY <2>1 DEF IsMeasure
  <2>2. \A s : IsMeasure(s, first, at - 1)' <=> IsMeasure(s, at, at - 1)
    BY <1>1 DEF IsMeasure, Header, align8
  <2> QED BY <1>1, <2>1, <2>2 DEF PlanSized, Header
<1>6. BuildSized' /\ PacksFilled'
  BY <1>1 DEF BuildSized, SizeInv, PacksFilled
<1> QED BY <1>4, <1>5, <1>6 DEF SizeInv

\* Nothing is laid out when the writing begins.
LEMMA PlannedSized == IInv /\ SizeInv /\ Planned => SizeInv'
<1> SUFFICES ASSUME IInv, SizeInv, Planned PROVE SizeInv'
  OBVIOUS
<1>1. /\ UNCHANGED <<tiles, target, ranges, packs, index, first, bytes>>
      /\ phase = "planning" /\ phase' = "building" /\ first > Len(tiles)
      /\ at \in Nat /\ first \in Nat /\ first <= at /\ at <= Len(tiles) + 1 /\ Len(tiles) \in Nat
      /\ index = <<>>
  BY TilesType DEF Planned, IInv, PlanInv, PhaseInv, TypeOK
<1>2. bytes' = Header BY <1>1 DEF SizeInv, PlanSized
<1>3. BuildSized'
  <2>1. Len(index') = 0 BY <1>1
  <2>2. \A r \in 1 .. Len(ranges') : ranges'[r].first \in Nat \ {0}
    BY <1>1, RangesType DEF IInv
  <2> QED BY <1>1, <1>2, <2>1, <2>2 DEF BuildSized
<1> QED BY <1>1, <1>3, SizeKept DEF SizeInv, PlanSized

\* A payload is placed behind the one before it, or behind the header.
LEMMA PlaceSized == IInv /\ SizeInv /\ Place => SizeInv'
<1> SUFFICES ASSUME IInv, SizeInv, Place PROVE SizeInv'
  OBVIOUS
<1> DEFINE n == Len(packs)
<1>1. /\ UNCHANGED <<tiles, target, phase, first, ranges, packs>> /\ phase = "building"
      /\ n < Len(ranges) /\ at < Current.first + Current.count /\ at' = at + 1
      /\ bytes' = align8(bytes) + tiles[at].bytes
      /\ index' = Append(index, [key |-> tiles[at], pack_id |-> n,
                                 payload_offset |-> align8(bytes), stored_bytes |-> tiles[at].bytes])
  BY DEF Place
<1>2. /\ n \in Nat /\ n + 1 \in 1 .. Len(ranges) /\ Len(ranges) \in Nat
      /\ Current = ranges[n + 1] /\ Current.first + Current.count = Stop(ranges, n + 1)
      /\ Current.first \in Nat \ {0} /\ Current.first <= at /\ at \in Nat \ {0} /\ Len(index) = at - 1
  BY <1>1, Building, RangesType DEF IInv
<1>3. /\ Len(index') = at /\ index'[at].payload_offset = align8(bytes)
      /\ \A k \in 1 .. at - 1 : index'[k] = index[k]
  <2> DEFINE Entry == [key : TileRecord, pack_id : Nat, payload_offset : Nat, stored_bytes : Nat]
             entry == [key |-> tiles[at], pack_id |-> n,
                       payload_offset |-> align8(bytes), stored_bytes |-> tiles[at].bytes]
  <2>1. index \in Seq(Entry) BY DEF IInv, TypeOK
  <2>2. entry.payload_offset = align8(bytes) OBVIOUS
  <2>3. index' = Append(index, entry) BY <1>1
  <2> HIDE DEF Entry, entry
  <2> QED BY <1>2, <2>1, <2>2, <2>3
<1>4. bytes = IF at = Current.first THEN Header ELSE End(index[at - 1])
  BY <1>1, <1>2 DEF IInv, IndexInv, SizeInv, BuildSized
<1>5. ASSUME NEW r \in 1 .. Len(ranges), NEW k \in ranges[r].first .. Stop(ranges, r) - 1, k <= at
      PROVE  Placed(r, k)'
  <2>0. k \in Nat \ {0} BY RangesType DEF IInv
  <2>1. CASE k = at
    <3>1. /\ r < n + 1 => Stop(ranges, r) <= ranges[n + 1].first
          /\ n + 1 < r => Stop(ranges, n + 1) <= ranges[r].first
      BY <1>2 DEF IInv, RangesInv
    <3>2. Stop(ranges, r) \in Nat /\ ranges[r].first \in Nat /\ Stop(ranges, n + 1) \in Nat
      BY <1>2, RangesType DEF IInv
    <3>3. r = n + 1 BY <1>1, <1>2, <2>1, <3>1, <3>2
    <3>4. at # Current.first => index'[at - 1] = index[at - 1] BY <1>2, <1>3
    <3>5. ranges'[r].first = Current.first BY <1>1, <1>2, <3>3
    <3> QED BY <1>3, <1>4, <2>1, <3>4, <3>5 DEF Placed, End, align8, Header
  <2>2. CASE k < at
    <3>1. Placed(r, k) BY <1>1, <1>2, <2>0, <2>2 DEF SizeInv, BuildSized
    <3>2. /\ index'[k] = index[k]
          /\ k # ranges[r].first => index'[k - 1] = index[k - 1]
      <4>1. ranges[r].first \in Nat \ {0} BY RangesType DEF IInv
      <4> QED BY <1>2, <1>3, <2>0, <2>2, <4>1
    <3>3. ranges' = ranges BY <1>1
    <3>4. CASE k = ranges[r].first BY <3>1, <3>2, <3>3, <3>4 DEF Placed, align8, Header
    <3>5. CASE k # ranges[r].first
      <4>1. index'[k - 1] = index[k - 1] BY <3>2, <3>5
      <4>2. index[k].payload_offset = align8(End(index[k - 1])) BY <3>1, <3>5 DEF Placed
      <4>3. index'[k].payload_offset = align8(End(index'[k - 1])) BY <3>2, <4>1, <4>2
      <4> QED BY <3>3, <3>5, <4>3 DEF Placed, align8, End
    <3> QED BY <3>4, <3>5
  <2> QED BY <1>2, <1>5, <2>0, <2>1, <2>2
<1>6. BuildSized'
  <2>1. Current' = Current BY <1>1 DEF Current
  <2>2. ~(at' = Current'.first) BY <1>1, <1>2, <2>1
  <2>3. \A r : Stop(ranges, r)' = Stop(ranges, r) BY <1>1 DEF Stop
  <2> QED BY <1>1, <1>3, <1>5, <2>2, <2>3 DEF BuildSized
<1> QED BY <1>1, <1>6, SizeKept DEF SizeInv, PlanSized

\* The pack that is closed measures its range, which is full.
LEMMA ClosePackSized == IInv /\ SizeInv /\ ClosePack => SizeInv'
<1> SUFFICES ASSUME IInv, SizeInv, ClosePack PROVE SizeInv'
  OBVIOUS
<1> DEFINE n == Len(packs)
<1>1. /\ UNCHANGED <<tiles, target, phase, first, at, ranges, index>> /\ phase = "building"
      /\ n < Len(ranges) /\ at = Current.first + Current.count /\ bytes' = Header
      /\ packs' = Append(packs, [pack_id |-> n, tile_count |-> Current.count, file_bytes |-> bytes,
                                 first_key |-> tiles[Current.first], last_key |-> tiles[at - 1]])
  BY DEF ClosePack
<1>2. /\ n \in Nat /\ n + 1 \in 1 .. Len(ranges) /\ Len(ranges) \in Nat
      /\ Current = ranges[n + 1] /\ Current.first + Current.count = Stop(ranges, n + 1)
      /\ Current.first \in Nat \ {0} /\ Current.count \in Nat \ {0}
      /\ at \in Nat \ {0} /\ Len(index) = at - 1 /\ at <= Len(tiles) + 1 /\ Len(tiles) \in Nat
      /\ target \in Nat /\ bytes \in Nat
  BY <1>1, Building, RangesType, TilesType, PackingAssumption DEF IInv, TypeOK
<1>3. /\ Len(packs') = n + 1
      /\ \A p \in 1 .. n : packs'[p] = packs[p]
      /\ packs'[n + 1].file_bytes = bytes /\ packs'[n + 1].tile_count = Current.count
      /\ packs'[n + 1].first_key = tiles[Current.first]
  <2> DEFINE Pack == [pack_id : Nat, tile_count : Nat, file_bytes : Nat,
                      first_key : TileRecord, last_key : TileRecord]
             pack == [pack_id |-> n, tile_count |-> Current.count, file_bytes |-> bytes,
                      first_key |-> tiles[Current.first], last_key |-> tiles[at - 1]]
  <2>1. packs \in Seq(Pack) BY DEF IInv, TypeOK
  <2>2. /\ pack.file_bytes = bytes /\ pack.tile_count = Current.count
        /\ pack.first_key = tiles[Current.first]
    OBVIOUS
  <2>3. packs' = Append(packs, pack) BY <1>1
  <2> HIDE DEF Pack, pack
  <2> QED BY <1>2, <2>1, <2>2, <2>3
<1>4. bytes = End(index[at - 1])
  <2>1. Len(packs) < Len(ranges) /\ at > Current.first
    BY SMTT(60), <1>1, <1>2
  <2>2. IndexInv
    BY DEF IInv
  <2> QED
    BY <1>1, <2>1, <2>2 DEF IndexInv
\* Every pack that is closed is as full as it may be.
<1>5. ASSUME NEW p \in 1 .. n + 1
      PROVE  Full(ranges[p].first, Stop(ranges, p), packs'[p].file_bytes)
  <2>0. p \in 1 .. Len(ranges) BY <1>2
  <2>1. Stop(ranges, p) <= at /\ packs'[p].file_bytes = End(index[Stop(ranges, p) - 1])
    <3>1. CASE p = n + 1 BY SMTT(60), <1>1, <1>2, <1>3, <1>4, <3>1
    <3>2. CASE p \in 1 .. n BY <1>1, <1>3, <3>2 DEF IInv, PacksInv
    <3> QED BY <1>2, <3>1, <3>2
  <2>2. Stop(ranges, p) - 1 <= Len(index) BY <1>2, <2>0, <2>1, RangesType DEF IInv
  <2>3. PICK s \in Measures : /\ IsMeasure(s, ranges[p].first, Stop(ranges, p) - 1)
                              /\ s[Stop(ranges, p) - 1] = End(index[Stop(ranges, p) - 1])
    BY <1>1, <2>0, <2>2, LaidOutIsMeasured DEF SizeInv
  <2> QED BY <2>0, <2>1, <2>3 DEF SizeInv, RangesFull
<1>6. ASSUME NEW p \in 1 .. n + 1
      PROVE  /\ packs'[p].first_key = tiles[ranges[p].first]
             /\ packs'[p].tile_count = ranges[p].count
  <2>1. CASE p = n + 1 BY <1>2, <1>3, <2>1
  <2>2. CASE p \in 1 .. n BY <1>1, <1>3, <2>2 DEF IInv, PacksInv
  <2> QED BY <1>2, <2>1, <2>2
<1>7. PacksFilled'
  <2> SUFFICES ASSUME NEW p \in 1 .. n + 1
               PROVE  /\ packs'[p].file_bytes <= target \/ packs'[p].tile_count = 1
                      /\ p > 1 => \/ Group(packs'[p].first_key) # Group(packs'[p - 1].first_key)
                                  \/ align8(packs'[p - 1].file_bytes) + packs'[p].first_key.bytes > target
    BY <1>1, <1>3 DEF PacksFilled, Group, align8
  <2>0. p \in 1 .. Len(ranges) BY <1>2
  <2>1. packs'[p].file_bytes <= target \/ packs'[p].tile_count = 1
    <3>1. ranges[p].first \in Nat /\ ranges[p].count \in Nat BY <2>0, RangesType DEF IInv
    <3> QED BY <1>5, <1>6, <3>1 DEF Full, Stop
  <2>2. CASE p > 1
    <3>1. p - 1 \in 1 .. n + 1 /\ p \in 2 .. Len(ranges) BY <1>2, <2>0, <2>2
    <3>2. ranges[p].first = Stop(ranges, p - 1) BY <3>1 DEF IInv, RangesInv
    <3>3. ranges[p].first <= Len(tiles)
      <4>1. Stop(ranges, p) <= Len(tiles) + 1 BY <2>0 DEF IInv, RangesInv
      <4> QED BY <1>2, <2>0, <4>1, RangesType DEF IInv
    <3>4. /\ packs'[p].first_key = tiles[Stop(ranges, p - 1)]
          /\ packs'[p - 1].first_key = tiles[ranges[p - 1].first]
      BY <1>6, <3>1, <3>2
    <3>5. Full(ranges[p - 1].first, Stop(ranges, p - 1), packs'[p - 1].file_bytes)
      BY <1>5, <3>1
    <3> QED BY <2>1, <3>2, <3>3, <3>4, <3>5 DEF Full
  <2> QED BY <2>1, <2>2
<1>8. RangesFull' BY <1>1, SizeRangesKept
<1>9. BuildSized'
  <2>1. \A r, k : Placed(r, k)' <=> Placed(r, k) BY <1>1 DEF Placed, End, align8, Header
  <2>2. \A r : Stop(ranges, r)' = Stop(ranges, r) BY <1>1 DEF Stop
  <2> QED BY <1>1, <2>1, <2>2 DEF SizeInv, BuildSized, Header
<1> QED BY <1>1, <1>7, <1>8, <1>9 DEF SizeInv, PlanSized

\* The other steps change the phase, or nothing.
LEMMA OtherSized ==
  ASSUME IInv, SizeInv, Check \/ GiveUp \/ Finish \/ CancelDatabase \/ UNCHANGED vars
  PROVE  SizeInv'
<1>1. UNCHANGED <<tiles, target, first, at, bytes, ranges, packs, index>>
  BY DEF Check, GiveUp, Finish, CancelDatabase, vars
<1>2. \/ phase = "checking" /\ phase' = "planning"
      \/ phase' = "failed"
      \/ phase = "building" /\ phase' = "done" /\ Len(packs) = Len(ranges)
      \/ phase' = phase
  BY DEF Check, GiveUp, Finish, CancelDatabase, vars
<1>3. RangesFull' /\ PacksFilled' BY <1>1, SizeKept
<1>4. PlanSized'
  <2>1. CASE phase = "checking" /\ phase' = "planning"
    <3>1. first = 1 /\ at = 1 /\ bytes = Header BY <2>1 DEF IInv, PhaseInv, SizeInv, PlanSized
    <3> QED BY <1>1, <2>1, <3>1 DEF PlanSized, IsMeasure, Header
  <2>2. CASE phase' = phase
    <3>1. Measures' = Measures BY <1>1 DEF Measures
    <3>2. \A s, low, high : IsMeasure(s, low, high)' <=> IsMeasure(s, low, high)
      BY <1>1 DEF IsMeasure, Header, align8
    <3> QED BY <1>1, <2>2, <3>1, <3>2 DEF SizeInv, PlanSized, Header
  <2> QED BY <1>2, <2>1, <2>2 DEF PlanSized
<1>5. BuildSized'
  <2>1. \A r, k : Placed(r, k)' <=> Placed(r, k) BY <1>1 DEF Placed, End, align8, Header
  <2>2. \A r : Stop(ranges, r)' = Stop(ranges, r) BY <1>1 DEF Stop
  <2>3. Current' = Current BY <1>1 DEF Current
  <2> QED BY <1>1, <1>2, <2>1, <2>2, <2>3 DEF SizeInv, BuildSized, Header
<1> QED BY <1>3, <1>4, <1>5 DEF SizeInv

\* A pack exceeds the target only with a single tile, and the next tile of its
\* face and level never fits, whatever the tiles and the target are.
THEOREM PacksAlwaysFilled == Spec => []PacksFilled
<1>1. IInv /\ SizeInv /\ [Next]_vars => SizeInv'
  BY ExtendSized, CloseRangeSized, PlannedSized, PlaceSized, ClosePackSized, OtherSized
     DEF Next, Ended
<1>2. SizeInv => PacksFilled BY DEF SizeInv
<1> QED BY SizeInit, Invariance, <1>1, <1>2, PTL DEF Spec

-----------------------------------------------------------------------------
(* Numbers. Induction is stated of sets, because the library states it of    *)
(* operators.                                                                *)

LessNat == {pair \in Nat \X Nat : pair[1] < pair[2]}

LEMMA LeastNatural ==
  ASSUME NEW S \in SUBSET Nat, S # {}
  PROVE  \E m \in S : \A n \in S : m <= n
<1>1. IsWellFoundedOn(LessNat, Nat)
  BY NatLessThanWellFounded, Zenon DEF LessNat, OpToRel
<1>2. PICK m \in S : \A n \in S : ~(<<n, m>> \in LessNat)
  BY <1>1, WFMin
<1>3. \A n \in S : <<n, m>> \in Nat \X Nat /\ <<n, m>>[1] = n /\ <<n, m>>[2] = m
  OBVIOUS
<1>4. \A n \in S : ~(n < m) BY <1>2, <1>3 DEF LessNat
<1> QED BY <1>2, <1>4

LEMMA Induction ==
  ASSUME NEW S \in SUBSET Nat, 0 \in S, \A n \in S : n + 1 \in S
  PROVE  S = Nat
<1> SUFFICES ASSUME Nat \ S # {} PROVE FALSE
  OBVIOUS
<1>1. PICK m \in Nat \ S : \A n \in Nat \ S : m <= n BY LeastNatural
<1>2. m - 1 \in Nat BY <1>1
<1>3. m - 1 \in S BY <1>1, <1>2
<1>4. (m - 1) + 1 = m BY <1>2
<1> QED BY <1>1, <1>3, <1>4

\* A sequence of numbers of which each one follows from the one before.
Follows(f, from, step, n) ==
  /\ f \in [1 .. n + 1 -> Nat] /\ f[1] = from
  /\ \A k \in 1 .. n : f[k + 1] = step[<<k, f[k]>>]

LEMMA Stepwise ==
  ASSUME NEW from \in Nat, NEW top \in Nat, NEW step \in [(1 .. top) \X Nat -> Nat]
  PROVE  \E f : Follows(f, from, step, top)
<1> DEFINE S == {n \in Nat : n <= top => \E f : Follows(f, from, step, n)}
<1>1. 0 \in S
  <2>1. Follows([k \in 1 .. 1 |-> from], from, step, 0) BY DEF Follows
  <2> QED BY <2>1
<1>2. ASSUME NEW n \in S PROVE n + 1 \in S
  <2> SUFFICES ASSUME n + 1 <= top PROVE \E f : Follows(f, from, step, n + 1)
    OBVIOUS
  <2>1. PICK f : Follows(f, from, step, n) OBVIOUS
  <2> DEFINE g == [k \in 1 .. (n + 1) + 1 |-> IF k = n + 2 THEN step[<<n + 1, f[n + 1]>>] ELSE f[k]]
  <2>2. n + 1 \in 1 .. top /\ f[n + 1] \in Nat BY <2>1 DEF Follows
  <2>3. step[<<n + 1, f[n + 1]>>] \in Nat BY <2>2
  <2>4. g \in [1 .. (n + 1) + 1 -> Nat] /\ g[1] = from BY <2>1, <2>3 DEF Follows
  <2>5. ASSUME NEW k \in 1 .. n + 1 PROVE g[k + 1] = step[<<k, g[k]>>]
    <3>1. CASE k = n + 1
      <4>1. g[k] = f[n + 1] /\ g[k + 1] = step[<<n + 1, f[n + 1]>>] BY <3>1
      <4> QED BY <3>1, <4>1
    <3>2. CASE k \in 1 .. n
      <4>1. g[k] = f[k] /\ g[k + 1] = f[k + 1] BY <3>2
      <4> QED BY <2>1, <3>2, <4>1 DEF Follows
    <3> QED BY <3>1, <3>2
  <2> HIDE DEF g
  <2>6. Follows(g, from, step, n + 1) BY <2>4, <2>5 DEF Follows
  <2> QED BY <2>6
<1> HIDE DEF S
<1>3. S = Nat
  <2>1. S \in SUBSET Nat BY DEF S
  <2> QED BY <1>1, <1>2, <2>1, Induction
<1> QED BY <1>3 DEF S

\* Numbers that grow from each to the next grow from the earlier to the later.
LEMMA Growing ==
  ASSUME NEW top \in Nat, NEW f \in [1 .. top -> Nat], \A k \in 2 .. top : f[k - 1] < f[k]
  PROVE  \A j, k \in 1 .. top : j < k => f[j] < f[k]
<1> DEFINE S == {n \in Nat : \A j \in 1 .. top : j < n /\ n <= top => f[j] < f[n]}
<1>1. 0 \in S OBVIOUS
<1>2. ASSUME NEW n \in S PROVE n + 1 \in S
  <2> SUFFICES ASSUME NEW j \in 1 .. top, j < n + 1, n + 1 <= top PROVE f[j] < f[n + 1]
    OBVIOUS
  <2>1. n \in 1 .. top /\ n + 1 \in 2 .. top /\ (n + 1) - 1 = n OBVIOUS
  <2>2. f[n] < f[n + 1] BY <2>1
  <2>3. f[j] \in Nat /\ f[n] \in Nat /\ f[n + 1] \in Nat BY <2>1
  <2>4. CASE j = n BY <2>2, <2>4
  <2>5. CASE j < n
    <3>1. f[j] < f[n] BY <2>1, <2>5
    <3> QED BY <2>2, <2>3, <3>1
  <2> QED BY <2>4, <2>5
<1> HIDE DEF S
<1>3. S = Nat
  <2>1. S \in SUBSET Nat BY DEF S
  <2> QED BY <1>1, <1>2, <2>1, Induction
<1>4. ASSUME NEW j \in 1 .. top, NEW k \in 1 .. top, j < k PROVE f[j] < f[k]
  <2>1. k \in S BY <1>3
  <2> QED BY <1>4, <2>1 DEF S
<1> QED BY <1>4

-----------------------------------------------------------------------------
(* Sums. SumFunctionOnSet takes the elements of a set as CHOOSE gives them;  *)
(* the sum is the same in every order.                                       *)

Pick(s) == CHOOSE x \in s : TRUE

AddOne(f, g, s) == IF s = {} THEN 0 ELSE f[Pick(s)] + g[s \ {Pick(s)}]

\* The sums over all subsets.
Sums(f, S, g) == g = [s \in SUBSET S |-> AddOne(f, g, s)]

Small(S, n) == {s \in SUBSET S : Cardinality(s) <= n}

LEMMA PickSmaller ==
  ASSUME NEW S, IsFiniteSet(S), NEW n \in Nat, NEW s \in Small(S, n + 1), s # {}
  PROVE  Pick(s) \in s /\ s \ {Pick(s)} \in Small(S, n)
<1>1. Pick(s) \in s BY DEF Pick
<1>2. IsFiniteSet(s) BY FS_Subset DEF Small
<1>3. Cardinality(s) \in Nat /\ Cardinality(s) <= n + 1 BY <1>2, FS_CardinalityType DEF Small
<1>4. Cardinality(s \ {Pick(s)}) = Cardinality(s) - 1 BY <1>1, <1>2, FS_RemoveElement
<1>5. s \ {Pick(s)} \in SUBSET S BY DEF Small
<1> QED BY <1>1, <1>3, <1>4, <1>5 DEF Small

\* What is shown of all subsets of up to n elements, for every n, holds of all.
LEMMA AllSmall ==
  ASSUME NEW S, IsFiniteSet(S), NEW K \in SUBSET SUBSET S,
         \A n \in Nat : Small(S, n) \subseteq K
  PROVE  K = SUBSET S
<1>1. ASSUME NEW s \in SUBSET S PROVE s \in K
  <2>1. IsFiniteSet(s) BY FS_Subset
  <2>2. Cardinality(s) \in Nat BY <2>1, FS_CardinalityType
  <2>3. s \in Small(S, Cardinality(s)) BY <2>2 DEF Small
  <2> QED BY <2>2, <2>3
<1> QED BY <1>1

\* A set of subsets to which a subset belongs once it does without one element.
LEMMA SubsetInduction ==
  ASSUME NEW S, IsFiniteSet(S), NEW K \in SUBSET SUBSET S, {} \in K,
         \A s \in SUBSET S : s # {} /\ (\A x \in s : s \ {x} \in K) => s \in K
  PROVE  K = SUBSET S
<1> DEFINE N == {n \in Nat : Small(S, n) \subseteq K}
<1>1. 0 \in N
  <2>1. ASSUME NEW s \in Small(S, 0) PROVE s = {}
    <3>1. IsFiniteSet(s) BY FS_Subset DEF Small
    <3>2. Cardinality(s) \in Nat /\ Cardinality(s) <= 0 BY <3>1, FS_CardinalityType DEF Small
    <3>3. Cardinality(s) = 0 BY <3>2
    <3> QED BY <3>1, <3>3, FS_EmptySet
  <2> QED BY <2>1
<1>2. ASSUME NEW n \in N PROVE n + 1 \in N
  <2>0. Small(S, n) \subseteq K /\ n \in Nat /\ n + 1 \in Nat OBVIOUS
  <2> HIDE DEF N
  <2> SUFFICES ASSUME NEW s \in Small(S, n + 1), s # {} PROVE s \in K
    BY <2>0 DEF N
  <2>1. ASSUME NEW x \in s PROVE s \ {x} \in K
    <3>1. IsFiniteSet(s) BY FS_Subset DEF Small
    <3>2. Cardinality(s) \in Nat /\ Cardinality(s) <= n + 1 BY <3>1, FS_CardinalityType DEF Small
    <3>3. Cardinality(s \ {x}) = Cardinality(s) - 1 BY <3>1, FS_RemoveElement
    <3>4. s \ {x} \in Small(S, n) BY <2>0, <3>2, <3>3 DEF Small
    <3> QED BY <2>0, <3>4
  <2>2. s \in SUBSET S BY DEF Small
  <2> QED BY <2>1, <2>2
<1> HIDE DEF N
<1>3. N = Nat
  <2>1. N \in SUBSET Nat BY DEF N
  <2> QED BY <1>1, <1>2, <2>1, Induction
<1>4. \A n \in Nat : Small(S, n) \subseteq K BY <1>3 DEF N
<1> QED BY <1>4, AllSmall

LEMMA SumsExist ==
  ASSUME NEW f, NEW S, IsFiniteSet(S)
  PROVE  \E g : Sums(f, S, g)
<1> DEFINE Known == {n \in Nat : \E g : g = [s \in Small(S, n) |-> AddOne(f, g, s)]}
<1>1. 0 \in Known
  <2> DEFINE g == [s \in Small(S, 0) |-> 0]
  <2>1. \A s \in Small(S, 0) : s = {}
    <3> SUFFICES ASSUME NEW s \in Small(S, 0) PROVE s = {}
      OBVIOUS
    <3>1. IsFiniteSet(s) BY FS_Subset DEF Small
    <3>2. Cardinality(s) \in Nat /\ Cardinality(s) <= 0 BY <3>1, FS_CardinalityType DEF Small
    <3>3. Cardinality(s) = 0 BY <3>2
    <3> QED BY <3>1, <3>3, FS_EmptySet
  <2>2. \A s \in Small(S, 0) : AddOne(f, g, s) = 0 BY <2>1 DEF AddOne
  <2>3. g = [s \in Small(S, 0) |-> AddOne(f, g, s)] BY <2>2
  <2> HIDE DEF g
  <2> QED BY <2>3
<1>2. ASSUME NEW n \in Known PROVE n + 1 \in Known
  <2>1. n \in Nat OBVIOUS
  <2>2. PICK g : g = [s \in Small(S, n) |-> AddOne(f, g, s)] OBVIOUS
  <2> DEFINE h == [s \in Small(S, n + 1) |-> AddOne(f, g, s)]
  <2>3. \A s \in Small(S, n) : s \in Small(S, n + 1) /\ h[s] = g[s]
    <3>1. \A s \in Small(S, n) : s \in Small(S, n + 1)
      <4> SUFFICES ASSUME NEW s \in Small(S, n) PROVE s \in Small(S, n + 1)
        OBVIOUS
      <4>1. IsFiniteSet(s) BY FS_Subset DEF Small
      <4>2. Cardinality(s) \in Nat BY <4>1, FS_CardinalityType
      <4> QED BY <2>1, <4>2 DEF Small
    <3>2. \A s \in Small(S, n) : g[s] = AddOne(f, g, s) BY <2>2
    <3> QED BY <3>1, <3>2
  <2>4. ASSUME NEW s \in Small(S, n + 1) PROVE AddOne(f, g, s) = AddOne(f, h, s)
    <3>1. CASE s = {} BY <3>1 DEF AddOne
    <3>2. CASE s # {}
      <4>1. s \ {Pick(s)} \in Small(S, n) BY <2>1, <3>2, PickSmaller
      <4>2. h[s \ {Pick(s)}] = g[s \ {Pick(s)}] BY <2>3, <4>1
      <4> HIDE DEF h
      <4> QED BY <3>2, <4>2 DEF AddOne
    <3> QED BY <3>1, <3>2
  <2>5. h = [s \in Small(S, n + 1) |-> AddOne(f, h, s)] BY <2>4
  <2> HIDE DEF h
  <2> QED BY <2>1, <2>5
<1> HIDE DEF Known
<1>3. Known = Nat
  <2>1. Known \in SUBSET Nat BY DEF Known
  <2> QED BY <1>1, <1>2, <2>1, Induction
<1>4. Cardinality(S) \in Nat BY FS_CardinalityType
<1>5. Small(S, Cardinality(S)) = SUBSET S
  <2>1. \A s \in SUBSET S : Cardinality(s) <= Cardinality(S) BY FS_Subset
  <2> QED BY <2>1 DEF Small
<1>6. \E g : g = [s \in Small(S, Cardinality(S)) |-> AddOne(f, g, s)]
  <2>1. Cardinality(S) \in Known BY <1>3, <1>4
  <2> QED BY <2>1 DEF Known
<1> QED BY <1>5, <1>6 DEF Sums

LEMMA SumIsSum ==
  ASSUME NEW f, NEW S, IsFiniteSet(S)
  PROVE  \E g : Sums(f, S, g) /\ SumFunctionOnSet(f, S) = g[S]
<1> DEFINE G == CHOOSE g : Sums(f, S, g)
<1>1. Sums(f, S, G) BY SumsExist, Zenon
<1>2. SumFunctionOnSet(f, S) = G[S]
  BY Zenon DEF SumFunctionOnSet, FoldFunctionOnSet, MapThenFoldSet, Sums, AddOne, Pick
<1> QED BY <1>1, <1>2

\* Functions that agree on a set have the same sum over it.
LEMMA SumSame ==
  ASSUME NEW f, NEW h, NEW S, IsFiniteSet(S), NEW T \in SUBSET S, \A x \in T : f[x] = h[x],
         NEW g, Sums(h, S, g)
  PROVE  SumFunctionOnSet(f, T) = g[T]
<1>1. IsFiniteSet(T) BY FS_Subset
<1>2. PICK e : Sums(f, T, e) /\ SumFunctionOnSet(f, T) = e[T] BY <1>1, SumIsSum
<1> DEFINE K == {s \in SUBSET T : e[s] = g[s]}
<1>3. \A s \in SUBSET T : e[s] = AddOne(f, e, s) /\ g[s] = AddOne(h, g, s) BY <1>2 DEF Sums
<1>4. {} \in K
  <2>1. e[{}] = 0 /\ g[{}] = 0 BY <1>3 DEF AddOne
  <2> QED BY <2>1
<1>5. ASSUME NEW s \in SUBSET T, s # {}, \A x \in s : s \ {x} \in K PROVE s \in K
  <2>1. Pick(s) \in s BY <1>5 DEF Pick
  <2>2. s \ {Pick(s)} \in K BY <1>5, <2>1
  <2>3. e[s \ {Pick(s)}] = g[s \ {Pick(s)}] BY <2>2
  <2>4. f[Pick(s)] = h[Pick(s)] BY <2>1
  <2>5. e[s] = g[s] BY <1>3, <1>5, <2>3, <2>4 DEF AddOne
  <2> QED BY <2>5
<1>6. K \in SUBSET SUBSET T OBVIOUS
<1> HIDE DEF K
<1>7. K = SUBSET T BY <1>1, <1>4, <1>5, <1>6, SubsetInduction
<1> QED BY <1>2, <1>7 DEF K

LEMMA SumsType ==
  ASSUME NEW f, NEW S, IsFiniteSet(S), \A x \in S : f[x] \in Nat, NEW g, Sums(f, S, g)
  PROVE  \A s \in SUBSET S : g[s] \in Nat
<1> DEFINE K == {s \in SUBSET S : g[s] \in Nat}
<1>1. \A s \in SUBSET S : g[s] = AddOne(f, g, s) BY DEF Sums
<1>2. {} \in K
  <2>1. g[{}] = 0 BY <1>1 DEF AddOne
  <2> QED BY <2>1
<1>3. ASSUME NEW s \in SUBSET S, s # {}, \A x \in s : s \ {x} \in K PROVE s \in K
  <2>1. Pick(s) \in s BY <1>3 DEF Pick
  <2>2. s \ {Pick(s)} \in K BY <1>3, <2>1
  <2>3. g[s \ {Pick(s)}] \in Nat /\ f[Pick(s)] \in Nat BY <2>1, <2>2
  <2>4. g[s] \in Nat BY <1>1, <1>3, <2>3 DEF AddOne
  <2> QED BY <2>4
<1>4. K \in SUBSET SUBSET S OBVIOUS
<1> HIDE DEF K
<1>5. K = SUBSET S BY <1>2, <1>3, <1>4, SubsetInduction
<1> QED BY <1>5 DEF K

\* The sum does not depend on which element is taken first.
LEMMA SumsAnyOrder ==
  ASSUME NEW f, NEW S, IsFiniteSet(S), \A x \in S : f[x] \in Nat, NEW g, Sums(f, S, g)
  PROVE  \A s \in SUBSET S : \A x \in s : g[s] = f[x] + g[s \ {x}]
<1> DEFINE K == {s \in SUBSET S : \A x \in s : g[s] = f[x] + g[s \ {x}]}
<1>1. \A s \in SUBSET S : g[s] = AddOne(f, g, s) BY DEF Sums
<1>2. {} \in K OBVIOUS
<1>3. ASSUME NEW s \in SUBSET S, s # {}, \A x \in s : s \ {x} \in K PROVE s \in K
  <2> DEFINE y == Pick(s)
  <2>1. y \in s BY <1>3 DEF Pick
  <2>2. g[s] = f[y] + g[s \ {y}] BY <1>1, <1>3 DEF AddOne
  <2> HIDE DEF y
  <2>3. ASSUME NEW x \in s PROVE g[s] = f[x] + g[s \ {x}]
    <3>1. CASE x = y BY <2>2, <3>1
    <3>2. CASE x # y
      <4> DEFINE r == (s \ {x}) \ {y}
      <4>1. x \in s \ {y} /\ y \in s \ {x} /\ (s \ {y}) \ {x} = r BY <2>1, <3>2
      <4>2. s \ {y} \in K /\ s \ {x} \in K BY <1>3, <2>1
      <4>3. r \in SUBSET S OBVIOUS
      <4> HIDE DEF r
      <4>4. g[s \ {y}] = f[x] + g[(s \ {y}) \ {x}] BY <4>1, <4>2
      <4>5. g[s \ {x}] = f[y] + g[(s \ {x}) \ {y}] BY <4>1, <4>2
      <4>6. f[x] \in Nat /\ f[y] \in Nat /\ g[r] \in Nat BY <2>1, <4>3, SumsType
      <4>7. g[s] = f[y] + (f[x] + g[r]) BY <2>2, <4>1, <4>4
      <4>8. g[s \ {x}] = f[y] + g[r] BY <4>5 DEF r
      <4> QED BY <4>6, <4>7, <4>8
    <3> QED BY <3>1, <3>2
  <2> QED BY <2>3
<1>4. K \in SUBSET SUBSET S OBVIOUS
<1> HIDE DEF K
<1>5. K = SUBSET S BY <1>2, <1>3, <1>4, SubsetInduction
<1> QED BY <1>5 DEF K

\* The functions agree on all elements but one, and the first is of naturals.
AgreeBut(f, h, S, x) ==
  /\ IsFiniteSet(S) /\ x \in S
  /\ \A y \in S : f[y] \in Nat
  /\ \A y \in S \ {x} : h[y] = f[y]

Adds(total, part, rest) == total = part + rest

\* The sum over a set is that over the set without an element, and the element.
LEMMA SumSplits ==
  ASSUME NEW f, NEW h, NEW S, NEW x, AgreeBut(f, h, S, x)
  PROVE  /\ SumFunctionOnSet(f, S) \in Nat /\ SumFunctionOnSet(h, S \ {x}) \in Nat
         /\ Adds(SumFunctionOnSet(f, S), f[x], SumFunctionOnSet(h, S \ {x}))
<1>0. IsFiniteSet(S) /\ x \in S /\ (\A y \in S : f[y] \in Nat) /\ \A y \in S \ {x} : h[y] = f[y]
  BY DEF AgreeBut
<1>1. PICK g : Sums(f, S, g) /\ SumFunctionOnSet(f, S) = g[S] BY <1>0, SumIsSum
<1>2. SumFunctionOnSet(h, S \ {x}) = g[S \ {x}] BY <1>0, <1>1, SumSame
<1>3. g[S] \in Nat /\ g[S \ {x}] \in Nat BY <1>0, <1>1, SumsType
<1>4. g[S] = f[x] + g[S \ {x}] BY <1>0, <1>1, SumsAnyOrder
<1> QED BY <1>1, <1>2, <1>3, <1>4 DEF Adds

\* What a sum of naturals is.
LEMMA SumType ==
  ASSUME NEW f, NEW S, IsFiniteSet(S), \A x \in S : f[x] \in Nat
  PROVE  SumFunctionOnSet(f, S) \in Nat
<1>1. PICK g : Sums(f, S, g) /\ SumFunctionOnSet(f, S) = g[S] BY SumIsSum
<1> QED BY <1>1, SumsType

-----------------------------------------------------------------------------
(* Order: what comes of sorting numbers, and the least and greatest of them. *)

Below(S, n) == {m \in S : m < n}

\* The numbers below one are fewer than those below a larger one.
LEMMA FewerBelow ==
  ASSUME NEW S \in SUBSET Nat, IsFiniteSet(S), NEW m \in S, NEW n \in S, m < n
  PROVE  Cardinality(Below(S, m)) < Cardinality(Below(S, n))
<1>1. IsFiniteSet(Below(S, m)) /\ IsFiniteSet(Below(S, n)) BY FS_Subset DEF Below
<1>2. m \notin Below(S, m) /\ Below(S, m) \cup {m} \in SUBSET Below(S, n)
  <2>1. m \notin Below(S, m) BY DEF Below
  <2>2. ASSUME NEW x \in S, x < m PROVE x < n
    <3>1. x \in Nat /\ m \in Nat /\ n \in Nat OBVIOUS
    <3> QED BY <2>2, <3>1
  <2> QED BY <2>1, <2>2 DEF Below
<1>3. Cardinality(Below(S, m) \cup {m}) = Cardinality(Below(S, m)) + 1 BY <1>1, <1>2, FS_AddElement
<1>4. Cardinality(Below(S, m) \cup {m}) <= Cardinality(Below(S, n)) BY <1>1, <1>2, FS_Subset
<1>5. Cardinality(Below(S, m)) \in Nat /\ Cardinality(Below(S, n)) \in Nat BY <1>1, FS_CardinalityType
<1> QED BY <1>3, <1>4, <1>5

LEMMA AscendingSorts ==
  ASSUME NEW S \in SUBSET Nat, IsFiniteSet(S)
  PROVE  LET a == Ascending(S)
         IN  /\ Cardinality(S) \in Nat /\ a \in [1 .. Cardinality(S) -> S]
             /\ \A j, k \in 1 .. Cardinality(S) : j < k => a[j] < a[k]
             /\ \A n \in S : \E k \in 1 .. Cardinality(S) : a[k] = n
<1> DEFINE N == Cardinality(S)
           a == Ascending(S)
           rank == [n \in S |-> Cardinality(Below(S, n)) + 1]
<1>1. N \in Nat BY FS_CardinalityType
<1>2. \A n \in S : Cardinality(Below(S, n)) \in 0 .. N - 1
  <2> SUFFICES ASSUME NEW n \in S PROVE Cardinality(Below(S, n)) \in 0 .. N - 1
    OBVIOUS
  <2>1. Below(S, n) \in SUBSET (S \ {n}) BY DEF Below
  <2>2. IsFiniteSet(S \ {n}) /\ Cardinality(S \ {n}) = N - 1 BY FS_RemoveElement
  <2>3. Cardinality(Below(S, n)) <= N - 1 BY <2>1, <2>2, FS_Subset
  <2>4. IsFiniteSet(Below(S, n)) BY <2>1, <2>2, FS_Subset
  <2>5. Cardinality(Below(S, n)) \in Nat BY <2>4, FS_CardinalityType
  <2> QED BY <1>1, <2>3, <2>5
<1> HIDE DEF N
<1>3. rank \in [S -> 1 .. N] BY <1>1, <1>2
<1>4. \A m, n \in S : m < n => rank[m] < rank[n]
  <2> SUFFICES ASSUME NEW m \in S, NEW n \in S, m < n PROVE rank[m] < rank[n]
    OBVIOUS
  <2>1. Cardinality(Below(S, m)) < Cardinality(Below(S, n)) BY FewerBelow
  <2> QED BY <1>1, <1>2, <2>1
<1>5. \A n \in S : rank[n] = Cardinality(Below(S, n)) + 1 OBVIOUS
<1> HIDE DEF rank
<1>6. \A m, n \in S : rank[m] = rank[n] => m = n
  <2> SUFFICES ASSUME NEW m \in S, NEW n \in S, m # n PROVE rank[m] # rank[n]
    OBVIOUS
  <2>1. m \in Nat /\ n \in Nat /\ rank[m] \in Nat /\ rank[n] \in Nat BY <1>1, <1>3
  <2>2. m < n \/ n < m BY <2>1
  <2> QED BY <1>4, <2>1, <2>2
<1>7. rank \in Injection(S, 1 .. N) BY <1>3, <1>6 DEF Injection, IsInjective
<1>8. IsFiniteSet(1 .. N) /\ Cardinality(1 .. N) = N
  <2>1. 1 \in Int /\ N \in Int BY <1>1
  <2> QED BY <1>1, <2>1, FS_Interval
<1>9. rank \in Surjection(S, 1 .. N)
  <2>1. Cardinality(S) = N BY DEF N
  <2> QED BY <1>7, <1>8, <2>1, FS_Injection
<1>10. \A k \in 1 .. N : \E n \in S : rank[n] = k BY <1>9 DEF Surjection
<1>11. \A k \in 1 .. N : a[k] \in S /\ rank[a[k]] = k
  <2> SUFFICES ASSUME NEW k \in 1 .. N PROVE a[k] \in S /\ rank[a[k]] = k
    OBVIOUS
  <2>1. a[k] = CHOOSE n \in S : Cardinality({m \in S : m < n}) = k - 1 BY DEF Ascending, N
  <2>2. PICK n \in S : rank[n] = k BY <1>10
  <2>3. Cardinality({m \in S : m < n}) = k - 1 BY <1>1, <1>2, <1>5, <2>2 DEF Below
  <2>4. a[k] \in S /\ Cardinality({m \in S : m < a[k]}) = k - 1 BY <2>1, <2>3
  <2> HIDE DEF a
  <2>5. Cardinality(Below(S, a[k])) = k - 1 BY <2>4 DEF Below
  <2>6. rank[a[k]] = Cardinality(Below(S, a[k])) + 1 BY <1>5, <2>4
  <2>7. k \in Int /\ (k - 1) + 1 = k BY <1>1
  <2> QED BY <2>4, <2>5, <2>6, <2>7
<1>12. a = [k \in 1 .. N |-> a[k]]
  <2> DEFINE At(k) == CHOOSE n \in S : Cardinality({m \in S : m < n}) = k - 1
  <2>1. a = [k \in 1 .. N |-> At(k)] BY Zenon DEF Ascending, N
  <2> HIDE DEF a, At
  <2> QED BY <2>1
<1> HIDE DEF a
<1>13. a \in [1 .. N -> S] BY <1>11, <1>12
<1>14. ASSUME NEW j \in 1 .. N, NEW k \in 1 .. N, j < k PROVE a[j] < a[k]
  <2>1. a[j] \in S /\ a[k] \in S /\ rank[a[j]] = j /\ rank[a[k]] = k BY <1>11
  <2>2. a[j] \in Nat /\ a[k] \in Nat BY <2>1
  <2>3. ASSUME a[k] < a[j] PROVE FALSE
    <3>1. rank[a[k]] < rank[a[j]] BY <1>4, <2>1, <2>3
    <3>2. k < j BY <2>1, <3>1
    <3> QED BY <1>1, <1>14, <3>2
  <2>4. a[k] # a[j] BY <1>14, <2>1
  <2> QED BY <2>2, <2>3, <2>4
<1>15. ASSUME NEW n \in S PROVE \E k \in 1 .. N : a[k] = n
  <2>1. rank[n] \in 1 .. N BY <1>3
  <2>2. a[rank[n]] = n BY <1>6, <1>11, <2>1
  <2> QED BY <2>1, <2>2
<1> QED BY <1>1, <1>13, <1>14, <1>15 DEF N, a

\* A finite set of numbers has a least and a greatest one.
LEMMA Extremes ==
  ASSUME NEW S \in SUBSET Nat, IsFiniteSet(S), S # {}
  PROVE  /\ \E m \in S : \A n \in S : m <= n
         /\ \E m \in S : \A n \in S : n <= m
<1> DEFINE a == Ascending(S)
           N == Cardinality(S)
<1>1. /\ N \in Nat /\ a \in [1 .. N -> S]
      /\ \A j, k \in 1 .. N : j < k => a[j] < a[k]
      /\ \A n \in S : \E k \in 1 .. N : a[k] = n
  BY AscendingSorts
<1>2. N # 0 BY FS_EmptySet
<1> HIDE DEF a, N
<1>3. 1 \in 1 .. N /\ N \in 1 .. N /\ a[1] \in S /\ a[N] \in S BY <1>1, <1>2
<1>4. \A n \in S : a[1] <= n /\ n <= a[N]
  <2> SUFFICES ASSUME NEW n \in S PROVE a[1] <= n /\ n <= a[N]
    OBVIOUS
  <2>1. PICK k \in 1 .. N : a[k] = n BY <1>1
  <2>2. k = 1 \/ 1 < k BY <1>1
  <2>3. k = N \/ k < N BY <1>1
  <2>4. a[1] \in Nat /\ a[N] \in Nat /\ n \in Nat BY <1>3
  <2> QED BY <1>1, <1>3, <2>1, <2>2, <2>3, <2>4
<1> QED BY <1>3, <1>4

\* The members of a sequence are finitely many.
LEMMA RangeFinite ==
  ASSUME NEW S, NEW s \in Seq(S)
  PROVE  IsFiniteSet(Range(s)) /\ Range(s) \in SUBSET S /\ \A k \in 1 .. Len(s) : s[k] \in Range(s)
<1>1. s \in [1 .. Len(s) -> S] /\ Len(s) \in Nat BY LenProperties
<1>2. IsFiniteSet(1 .. Len(s)) BY <1>1, FS_Interval
<1>3. Range(s) = {s[k] : k \in 1 .. Len(s)} BY <1>1 DEF Range
<1>4. s \in Surjection(1 .. Len(s), Range(s)) BY <1>1, <1>3 DEF Surjection
<1> QED BY <1>1, <1>2, <1>3, <1>4, FS_Surjection

-----------------------------------------------------------------------------
(* Layout: regions that follow each other, aligned. *)

LEMMA AlignedUp ==
  /\ \A n \in Nat : Aligned(n, 8) \in Nat /\ Aligned(n, 8) % 8 = 0 /\ n <= Aligned(n, 8)
  /\ \A n \in Nat : Aligned(n, 4) \in Nat /\ n <= Aligned(n, 4)
BY DEF Aligned

\* Where regions begin and end.
LEMMA RegionsFollow ==
  ASSUME NEW from \in Nat, NEW sizes \in Seq(Nat)
  PROVE  LET r == Regions(from, sizes)
             n == Len(sizes)
         IN  /\ r \in [1 .. n + 1 -> Nat]
             /\ r[1] = Aligned(from, 8)
             /\ \A k \in 2 .. n : r[k] = Aligned(r[k - 1] + sizes[k - 1], 8)
             /\ n > 0 => r[n + 1] = r[n] + sizes[n]
<1> DEFINE n == Len(sizes)
           r == Regions(from, sizes)
           Begin(g, k) == IF k = 1 THEN Aligned(from, 8)
                          ELSE IF k > n THEN g[k - 1] + sizes[k - 1]
                          ELSE Aligned(g[k - 1] + sizes[k - 1], 8)
           step == [p \in (1 .. n) \X Nat |-> IF p[1] = n THEN p[2] + sizes[p[1]] ELSE Aligned(p[2] + sizes[p[1]], 8)]
<1>1. n \in Nat /\ \A k \in 1 .. n : sizes[k] \in Nat BY LenProperties, ElementOfSeq
<1>2. r = CHOOSE g : g = [k \in 1 .. n + 1 |-> Begin(g, k)] BY Zenon DEF Regions
<1> HIDE DEF n, r
<1>3. step \in [(1 .. n) \X Nat -> Nat]
  <2> SUFFICES ASSUME NEW p \in (1 .. n) \X Nat
               PROVE  (IF p[1] = n THEN p[2] + sizes[p[1]] ELSE Aligned(p[2] + sizes[p[1]], 8)) \in Nat
    OBVIOUS
  <2>1. p[1] \in 1 .. n /\ p[2] \in Nat OBVIOUS
  <2>2. p[2] + sizes[p[1]] \in Nat BY <1>1, <2>1
  <2> QED BY <2>2, AlignedUp
<1>4. Aligned(from, 8) \in Nat BY AlignedUp
<1>5. \A k \in 1 .. n, m \in Nat :
        step[<<k, m>>] = IF k = n THEN m + sizes[k] ELSE Aligned(m + sizes[k], 8)
  OBVIOUS
<1> HIDE DEF step
<1>6. PICK f : Follows(f, Aligned(from, 8), step, n) BY <1>1, <1>3, <1>4, Stepwise
<1>7. f = [k \in 1 .. n + 1 |-> Begin(f, k)]
  <2>1. ASSUME NEW k \in 1 .. n + 1 PROVE f[k] = Begin(f, k)
    <3>1. CASE k = 1 BY <1>6, <3>1 DEF Follows
    <3>2. CASE k # 1
      <4>1. k - 1 \in 1 .. n /\ (k - 1) + 1 = k BY <1>1, <3>2
      <4>2. k - 1 \in 1 .. n + 1 BY <1>1, <4>1
      <4>3. f[k - 1] \in Nat BY <1>6, <4>2 DEF Follows
      <4>4. f[(k - 1) + 1] = step[<<k - 1, f[k - 1]>>] BY <1>6, <4>1 DEF Follows
      <4>5. f[k] = IF k - 1 = n THEN f[k - 1] + sizes[k - 1] ELSE Aligned(f[k - 1] + sizes[k - 1], 8)
        BY <1>5, <4>1, <4>4, <4>3
      <4>6. k - 1 = n <=> k > n BY <1>1, <4>1
      <4> QED BY <3>2, <4>5, <4>6
    <3> QED BY <3>1, <3>2
  <2>2. f = [k \in 1 .. n + 1 |-> f[k]] BY <1>6 DEF Follows
  <2> QED BY <2>1, <2>2
<1>8. r = [k \in 1 .. n + 1 |-> Begin(r, k)] BY <1>2, <1>7, Zenon
<1>9. DOMAIN r = 1 .. n + 1 /\ \A k \in 1 .. n + 1 : r[k] = Begin(r, k) BY <1>8
<1>10. r[1] = Aligned(from, 8) BY <1>1, <1>9
<1>11. r \in [1 .. n + 1 -> Nat]
  <2> DEFINE S == {k \in Nat : k <= n => r[k + 1] \in Nat}
  <2>1. 0 \in S BY <1>4, <1>10
  <2>2. ASSUME NEW k \in S PROVE k + 1 \in S
    <3> SUFFICES ASSUME k + 1 <= n PROVE r[(k + 1) + 1] \in Nat
      OBVIOUS
    <3>1. r[k + 1] \in Nat /\ k + 1 \in 1 .. n /\ (k + 1) + 1 \in 1 .. n + 1 /\ (k + 1) + 1 # 1
          /\ ((k + 1) + 1) - 1 = k + 1
      BY <1>1
    <3>2. r[k + 1] + sizes[k + 1] \in Nat BY <1>1, <3>1
    <3>3. r[(k + 1) + 1] = IF (k + 1) + 1 > n THEN r[k + 1] + sizes[k + 1] ELSE Aligned(r[k + 1] + sizes[k + 1], 8)
      BY <1>9, <3>1
    <3> QED BY <3>2, <3>3, AlignedUp
  <2> HIDE DEF S
  <2>3. S = Nat
    <3>1. S \in SUBSET Nat BY DEF S
    <3> QED BY <2>1, <2>2, <3>1, Induction
  <2>4. ASSUME NEW k \in 1 .. n + 1 PROVE r[k] \in Nat
    <3>1. k - 1 \in Nat /\ k - 1 <= n /\ (k - 1) + 1 = k BY <1>1
    <3> QED BY <2>3, <3>1 DEF S
  <2> QED BY <1>8, <2>4
<1>12. ASSUME NEW k \in 2 .. n PROVE r[k] = Aligned(r[k - 1] + sizes[k - 1], 8)
  <2>1. k \in 1 .. n + 1 /\ k # 1 /\ ~(k > n) BY <1>1
  <2> QED BY <1>9, <2>1
<1>13. n > 0 => r[n + 1] = r[n] + sizes[n]
  <2> SUFFICES ASSUME n > 0 PROVE r[n + 1] = r[n] + sizes[n]
    OBVIOUS
  <2>1. n + 1 \in 1 .. n + 1 /\ n + 1 # 1 /\ n + 1 > n /\ (n + 1) - 1 = n BY <1>1
  <2> QED BY <1>9, <2>1
<1> QED BY <1>10, <1>11, <1>12, <1>13 DEF n, r

\* Regions lie behind what is before them, aligned, apart from each other and before the end.
LEMMA RegionsApart ==
  ASSUME NEW from \in Nat, NEW sizes \in Seq(Nat), sizes # <<>>
  PROVE  LET r == Regions(from, sizes)
             n == Len(sizes)
         IN  /\ \A k \in 1 .. n : r[k] % 8 = 0 /\ from <= r[k] /\ r[k] + sizes[k] <= r[n + 1]
             /\ \A j, k \in 1 .. n : j < k => r[j] + sizes[j] <= r[k]
<1> DEFINE n == Len(sizes)
           r == Regions(from, sizes)
<1>1. n \in Nat /\ n > 0 /\ \A k \in 1 .. n : sizes[k] \in Nat
  BY LenProperties, ElementOfSeq, EmptySeq
<1>2. /\ r \in [1 .. n + 1 -> Nat] /\ r[1] = Aligned(from, 8)
      /\ \A k \in 2 .. n : r[k] = Aligned(r[k - 1] + sizes[k - 1], 8)
      /\ n > 0 => r[n + 1] = r[n] + sizes[n]
  BY RegionsFollow
<1> HIDE DEF n, r
<1>3. \A k \in 2 .. n : r[k - 1] + sizes[k - 1] <= r[k] /\ r[k] % 8 = 0
  <2> SUFFICES ASSUME NEW k \in 2 .. n PROVE r[k - 1] + sizes[k - 1] <= r[k] /\ r[k] % 8 = 0
    OBVIOUS
  <2>1. k - 1 \in 1 .. n /\ k - 1 \in 1 .. n + 1 BY <1>1
  <2>2. r[k - 1] + sizes[k - 1] \in Nat
    <3>1. r[k - 1] \in Nat /\ sizes[k - 1] \in Nat BY <1>1, <1>2, <2>1
    <3> QED BY <3>1
  <2> QED BY <1>2, <2>2, AlignedUp
<1> DEFINE S == {m \in Nat : m + 1 <= n =>
                   from <= r[m + 1] /\ \A j \in 1 .. n : j < m + 1 => r[j] + sizes[j] <= r[m + 1]}
<1>4. 0 \in S
  <2>1. from <= r[1] BY <1>2, AlignedUp
  <2> QED BY <2>1
<1>5. ASSUME NEW m \in S PROVE m + 1 \in S
  <2> SUFFICES ASSUME (m + 1) + 1 <= n
               PROVE  /\ from <= r[(m + 1) + 1]
                      /\ \A j \in 1 .. n : j < (m + 1) + 1 => r[j] + sizes[j] <= r[(m + 1) + 1]
    OBVIOUS
  <2>1. /\ m \in Nat /\ m + 1 \in 1 .. n /\ m + 1 \in 1 .. n + 1 /\ (m + 1) + 1 \in 2 .. n
        /\ (m + 1) + 1 \in 1 .. n + 1 /\ ((m + 1) + 1) - 1 = m + 1
    BY <1>1
  <2>2. from <= r[m + 1] /\ \A j \in 1 .. n : j < m + 1 => r[j] + sizes[j] <= r[m + 1] BY <2>1
  <2>3. r[m + 1] + sizes[m + 1] <= r[(m + 1) + 1] BY <1>3, <2>1
  <2>4. r[m + 1] \in Nat /\ r[(m + 1) + 1] \in Nat /\ sizes[m + 1] \in Nat BY <1>1, <1>2, <2>1
  <2>5. r[m + 1] <= r[(m + 1) + 1] BY <2>3, <2>4
  <2>6. ASSUME NEW j \in 1 .. n, j < (m + 1) + 1 PROVE r[j] + sizes[j] <= r[(m + 1) + 1]
    <3>0. j \in 1 .. n + 1 BY <1>1
    <3>1. r[j] \in Nat /\ sizes[j] \in Nat BY <1>1, <1>2, <3>0
    <3>2. CASE j = m + 1 BY <2>3, <3>2
    <3>3. CASE j < m + 1
      <4>1. r[j] + sizes[j] <= r[m + 1] BY <2>2, <3>3
      <4> QED BY <2>4, <2>5, <3>1, <4>1
    <3> QED BY <2>1, <2>6, <3>2, <3>3
  <2> QED BY <2>2, <2>4, <2>5, <2>6
<1> HIDE DEF S
<1>6. S = Nat
  <2>1. S \in SUBSET Nat BY DEF S
  <2> QED BY <1>4, <1>5, <2>1, Induction
<1>7. ASSUME NEW k \in 1 .. n
      PROVE  from <= r[k] /\ \A j \in 1 .. n : j < k => r[j] + sizes[j] <= r[k]
  <2>1. k - 1 \in Nat /\ (k - 1) + 1 = k /\ k <= n BY <1>1
  <2>2. k - 1 \in S BY <1>6, <2>1
  <2> QED BY <2>1, <2>2 DEF S
<1>8. ASSUME NEW k \in 1 .. n PROVE r[k] % 8 = 0
  <2>1. CASE k = 1 BY <1>2, <2>1, AlignedUp
  <2>2. CASE k # 1
    <3>1. k \in 2 .. n BY <1>1, <2>2
    <3> QED BY <1>3, <3>1
  <2> QED BY <2>1, <2>2
<1>9. ASSUME NEW k \in 1 .. n PROVE r[k] + sizes[k] <= r[n + 1]
  <2>1. n \in 1 .. n /\ n \in 1 .. n + 1 /\ k \in 1 .. n + 1 /\ n + 1 \in 1 .. n + 1 BY <1>1
  <2>2. r[n + 1] = r[n] + sizes[n] BY <1>1, <1>2
  <2>3. r[n] \in Nat /\ sizes[n] \in Nat /\ r[k] \in Nat /\ sizes[k] \in Nat BY <1>1, <1>2, <2>1
  <2>4. CASE k = n BY <2>2, <2>3, <2>4
  <2>5. CASE k < n
    <3>1. r[k] + sizes[k] <= r[n] BY <1>7, <2>1, <2>5
    <3> QED BY <2>2, <2>3, <3>1
  <2> QED BY <1>1, <2>4, <2>5
<1> QED BY <1>7, <1>8, <1>9 DEF n, r

\* Where the texts of a table are.
LEMMA TextsFollow ==
  ASSUME NEW texts \in Seq(DOMAIN Length), texts # <<>>
  PROVE  LET s == StringOffsets(texts)
             n == Len(texts)
         IN  /\ s \in [1 .. n + 1 -> Nat] /\ s[1] = 0
             /\ \A k \in 1 .. n : s[k + 1] = Aligned(s[k] + 4 + Length[texts[k]], 4)
             /\ \A j, k \in 1 .. n + 1 : j < k => s[j] < s[k]
<1> DEFINE n == Len(texts)
           s == StringOffsets(texts)
           Begin(g, k) == IF k = 1 THEN 0 ELSE Aligned(g[k - 1] + 4 + Length[texts[k - 1]], 4)
           step == [p \in (1 .. n) \X Nat |-> Aligned(p[2] + 4 + Length[texts[p[1]]], 4)]
<1>1. n \in Nat /\ \A k \in 1 .. n : Length[texts[k]] \in Nat
  BY LenProperties, ElementOfSeq, DatabaseAssumption
<1>2. s = CHOOSE g : g = [k \in 1 .. n + 1 |-> Begin(g, k)] BY Zenon DEF StringOffsets
<1> HIDE DEF n, s
<1>3. \A m \in Nat, k \in 1 .. n : /\ Aligned(m + 4 + Length[texts[k]], 4) \in Nat
                                   /\ m < Aligned(m + 4 + Length[texts[k]], 4)
  <2> SUFFICES ASSUME NEW m \in Nat, NEW k \in 1 .. n
               PROVE  /\ Aligned(m + 4 + Length[texts[k]], 4) \in Nat
                      /\ m < Aligned(m + 4 + Length[texts[k]], 4)
    OBVIOUS
  <2>1. Length[texts[k]] \in Nat BY <1>1
  <2> DEFINE i == m + 4 + Length[texts[k]]
  <2>2. i \in Nat /\ m < i BY <2>1
  <2> HIDE DEF i
  <2>3. Aligned(i, 4) \in Nat /\ i <= Aligned(i, 4) BY <2>2, AlignedUp
  <2>4. m < Aligned(i, 4) BY <2>2, <2>3
  <2> QED BY <2>3, <2>4 DEF i
<1>4. step \in [(1 .. n) \X Nat -> Nat]
  <2> SUFFICES ASSUME NEW p \in (1 .. n) \X Nat PROVE Aligned(p[2] + 4 + Length[texts[p[1]]], 4) \in Nat
    OBVIOUS
  <2>1. p[1] \in 1 .. n /\ p[2] \in Nat OBVIOUS
  <2> QED BY <1>3, <2>1
<1>5. \A k \in 1 .. n, m \in Nat : step[<<k, m>>] = Aligned(m + 4 + Length[texts[k]], 4) OBVIOUS
<1> HIDE DEF step
<1>6. PICK f : Follows(f, 0, step, n) BY <1>1, <1>4, Stepwise
<1>7. f = [k \in 1 .. n + 1 |-> Begin(f, k)]
  <2>1. ASSUME NEW k \in 1 .. n + 1 PROVE f[k] = Begin(f, k)
    <3>1. CASE k = 1 BY <1>6, <3>1 DEF Follows
    <3>2. CASE k # 1
      <4>1. k - 1 \in 1 .. n /\ (k - 1) + 1 = k /\ k - 1 \in 1 .. n + 1 BY <1>1, <3>2
      <4>2. f[k - 1] \in Nat BY <1>6, <4>1 DEF Follows
      <4>3. f[(k - 1) + 1] = step[<<k - 1, f[k - 1]>>] BY <1>6, <4>1 DEF Follows
      <4>4. f[k] = Aligned(f[k - 1] + 4 + Length[texts[k - 1]], 4) BY <1>5, <4>1, <4>2, <4>3
      <4> QED BY <3>2, <4>4
    <3> QED BY <3>1, <3>2
  <2>2. f = [k \in 1 .. n + 1 |-> f[k]] BY <1>6 DEF Follows
  <2> QED BY <2>1, <2>2
<1>8. s = [k \in 1 .. n + 1 |-> Begin(s, k)] BY <1>2, <1>7, Zenon
<1>9. DOMAIN s = 1 .. n + 1 /\ \A k \in 1 .. n + 1 : s[k] = Begin(s, k) BY <1>8
<1>10. s[1] = 0 BY <1>1, <1>9
<1>11. \A k \in 1 .. n : s[k + 1] = Aligned(s[k] + 4 + Length[texts[k]], 4)
  <2> SUFFICES ASSUME NEW k \in 1 .. n PROVE s[k + 1] = Aligned(s[k] + 4 + Length[texts[k]], 4)
    OBVIOUS
  <2>1. k + 1 \in 1 .. n + 1 /\ k + 1 # 1 /\ (k + 1) - 1 = k BY <1>1
  <2> QED BY <1>9, <2>1
<1>12. s \in [1 .. n + 1 -> Nat]
  <2> DEFINE S == {k \in Nat : k <= n => s[k + 1] \in Nat}
  <2>1. 0 \in S BY <1>10
  <2>2. ASSUME NEW k \in S PROVE k + 1 \in S
    <3> SUFFICES ASSUME k + 1 <= n PROVE s[(k + 1) + 1] \in Nat
      OBVIOUS
    <3>1. s[k + 1] \in Nat /\ k + 1 \in 1 .. n BY <1>1
    <3> QED BY <1>3, <1>11, <3>1
  <2> HIDE DEF S
  <2>3. S = Nat
    <3>1. S \in SUBSET Nat BY DEF S
    <3> QED BY <2>1, <2>2, <3>1, Induction
  <2>4. ASSUME NEW k \in 1 .. n + 1 PROVE s[k] \in Nat
    <3>1. k - 1 \in Nat /\ k - 1 <= n /\ (k - 1) + 1 = k BY <1>1
    <3> QED BY <2>3, <3>1 DEF S
  <2> QED BY <1>8, <2>4
<1>13. \A k \in 2 .. n + 1 : s[k - 1] < s[k]
  <2> SUFFICES ASSUME NEW k \in 2 .. n + 1 PROVE s[k - 1] < s[k]
    OBVIOUS
  <2>1. k - 1 \in 1 .. n /\ k - 1 \in 1 .. n + 1 /\ (k - 1) + 1 = k BY <1>1
  <2>2. s[k - 1] \in Nat BY <1>12, <2>1
  <2>3. s[(k - 1) + 1] = Aligned(s[k - 1] + 4 + Length[texts[k - 1]], 4) BY <1>11, <2>1
  <2> QED BY <1>3, <2>1, <2>2, <2>3
<1>14. \A j, k \in 1 .. n + 1 : j < k => s[j] < s[k]
  <2>1. n + 1 \in Nat BY <1>1
  <2> QED BY <1>12, <1>13, <2>1, Growing
<1> QED BY <1>10, <1>11, <1>12, <1>14 DEF n, s

\* In a table whose texts ascend, every text has one offset.
LEMMA TableHolds ==
  ASSUME NEW texts \in Seq(DOMAIN Length), texts # <<>>,
         \A j, k \in 1 .. Len(texts) : j < k => texts[j] < texts[k]
  PROVE  LET s == StringOffsets(texts)
             h == StringsAt(texts, s).holds
         IN  /\ DOMAIN h = {s[k] : k \in 1 .. Len(texts)}
             /\ \A k \in 1 .. Len(texts) : h[s[k]] = texts[k]
             /\ \A k \in 1 .. Len(texts) :
                  StringId(StringsAt(texts, s), texts[k]) = s[k]
<1> DEFINE s == StringOffsets(texts)
           n == Len(texts)
           table == StringsAt(texts, s)
           h == table.holds
<1>1. /\ s \in [1 .. n + 1 -> Nat] /\ n \in Nat
      /\ \A j, k \in 1 .. n + 1 : j < k => s[j] < s[k]
  BY TextsFollow, LenProperties
<1>2. DOMAIN texts = 1 .. n BY LenProperties
<1> HIDE DEF s
<1>3. \A j, k \in 1 .. n : s[j] = s[k] => j = k
  <2> SUFFICES ASSUME NEW j \in 1 .. n, NEW k \in 1 .. n, j # k PROVE s[j] # s[k]
    OBVIOUS
  <2>1. j \in 1 .. n + 1 /\ k \in 1 .. n + 1 BY <1>1
  <2>2. s[j] \in Nat /\ s[k] \in Nat BY <1>1, <2>1
  <2>3. j < k \/ k < j BY <1>1
  <2>4. CASE j < k
    <3>1. s[j] < s[k] BY <1>1, <2>1, <2>4
    <3> QED BY <2>2, <3>1
  <2>5. CASE k < j
    <3>1. s[k] < s[j] BY <1>1, <2>1, <2>5
    <3> QED BY <2>2, <3>1
  <2> QED BY <2>3, <2>4, <2>5
<1>4. h = [o \in {s[k] : k \in 1 .. n} |-> texts[CHOOSE k \in 1 .. n : s[k] = o]]
  BY <1>2 DEF StringsAt, Chunk
<1> HIDE DEF table, h, n
<1>5. DOMAIN h = {s[k] : k \in 1 .. n} BY <1>4
<1>6. ASSUME NEW k \in 1 .. n PROVE h[s[k]] = texts[k]
  <2> DEFINE j == CHOOSE i \in 1 .. n : s[i] = s[k]
  <2>1. j \in 1 .. n /\ s[j] = s[k] OBVIOUS
  <2>2. h[s[k]] = texts[j] BY <1>4
  <2> HIDE DEF j
  <2>3. j = k BY <1>3, <2>1
  <2> QED BY <2>2, <2>3
<1>7. \A j, k \in 1 .. n : texts[j] = texts[k] => j = k
  <2> SUFFICES ASSUME NEW j \in 1 .. n, NEW k \in 1 .. n, j # k PROVE texts[j] # texts[k]
    OBVIOUS
  <2>1. texts[j] \in Nat /\ texts[k] \in Nat
    BY ElementOfSeq, DatabaseAssumption DEF n
  <2>2. j < k \/ k < j BY <1>1
  <2> QED BY <2>1, <2>2 DEF n
<1>8. ASSUME NEW k \in 1 .. n PROVE StringId(table, texts[k]) = s[k]
  <2> DEFINE Found(o) == h[o] = texts[k]
             o == CHOOSE o \in DOMAIN h : Found(o)
  <2>1. StringId(table, texts[k]) = o BY DEF StringId, h
  <2>2. s[k] \in DOMAIN h /\ h[s[k]] = texts[k] BY <1>5, <1>6
  <2>3. o \in DOMAIN h /\ h[o] = texts[k] BY <2>2
  <2> HIDE DEF o
  <2>4. PICK j \in 1 .. n : o = s[j] BY <1>5, <2>3
  <2>5. texts[j] = texts[k] BY <1>6, <2>3, <2>4
  <2>6. j = k BY <1>7, <2>5
  <2> QED BY <2>1, <2>4, <2>6
<1> QED BY <1>5, <1>6, <1>8 DEF s, n, h, table

-----------------------------------------------------------------------------
(* What a database is made from. *)

Prepared ==
  \E d \in Databases :
    /\ tiles = d.tiles /\ contents = d.contents /\ datasets = d.datasets
    /\ encoded = [k \in DOMAIN d.tiles |->
         EncodeTile(d.tiles[k], d.contents[k], Summarize(d.contents[k]), d.datasets)]

LEMMA SourcesKnown ==
  ASSUME Prepared
  PROVE  /\ datasets \in Seq(Dataset) /\ Len(datasets) \in Nat \ {0}
         /\ \A d \in Range(datasets) :
              /\ d.id \in Nat /\ d.strings \in Seq(DOMAIN Length) /\ d.metadata \in DOMAIN Length
              /\ Length[d.metadata] \in Nat \ {0}
         /\ \A d, e \in Range(datasets) : d.id = e.id => d = e
         /\ \A j, k \in 1 .. Len(datasets) : datasets[j].id = datasets[k].id => j = k
<1>1. /\ datasets \in Seq(Dataset) /\ datasets # <<>>
      /\ \A s \in Range(datasets) : Length[s.metadata] > 0
      /\ \A j, k \in DOMAIN datasets : datasets[j].id = datasets[k].id => j = k
  BY DatabaseAssumption DEF Prepared
<1>2. Len(datasets) \in Nat \ {0} BY <1>1, EmptySeq
<1>3. DOMAIN datasets = 1 .. Len(datasets) BY <1>1, LenProperties
<1>4. Range(datasets) \in SUBSET Dataset BY <1>1, RangeFinite
<1>5. Length \in [DOMAIN Length -> Nat] BY DatabaseAssumption
<1>6. ASSUME NEW d \in Range(datasets)
      PROVE  /\ d.id \in Nat /\ d.strings \in Seq(DOMAIN Length) /\ d.metadata \in DOMAIN Length
             /\ Length[d.metadata] \in Nat \ {0}
  <2>1. d \in Dataset BY <1>4
  <2>2. d.id \in Nat /\ d.strings \in Seq(DOMAIN Length) /\ d.metadata \in DOMAIN Length
    BY <2>1 DEF Dataset
  <2>3. Length[d.metadata] \in Nat BY <1>5, <2>2
  <2>4. Length[d.metadata] > 0 BY <1>1
  <2> QED BY <2>2, <2>3, <2>4
<1>7. ASSUME NEW d \in Range(datasets), NEW e \in Range(datasets), d.id = e.id PROVE d = e
  <2>1. PICK j \in DOMAIN datasets : d = datasets[j] BY DEF Range
  <2>2. PICK k \in DOMAIN datasets : e = datasets[k] BY DEF Range
  <2> QED BY <1>1, <1>7, <2>1, <2>2
<1> QED BY <1>1, <1>2, <1>3, <1>6, <1>7

\* The registry has every dataset once, in the order of the identifiers.
LEMMA RegistrySorts ==
  ASSUME Prepared
  PROVE  LET n == Len(datasets)
         IN  /\ Registry \in [1 .. n -> Range(datasets)] /\ Len(Registry) = n
             /\ \A j, k \in 1 .. n : j < k => Registry[j].id < Registry[k].id
             /\ \A d \in Range(datasets) : \E k \in 1 .. n : Registry[k].id = d.id
<1> DEFINE n == Len(datasets)
           ids == {d.id : d \in Range(datasets)}
           a == Ascending(ids)
           idAt == [k \in 1 .. n |-> datasets[k].id]
<1>1. /\ n \in Nat \ {0} /\ datasets \in Seq(Dataset)
      /\ \A d \in Range(datasets) : d.id \in Nat
      /\ \A d, e \in Range(datasets) : d.id = e.id => d = e
      /\ \A j, k \in 1 .. n : datasets[j].id = datasets[k].id => j = k
  BY SourcesKnown
<1>2. DOMAIN datasets = 1 .. n BY <1>1, LenProperties
<1> HIDE DEF n
<1>3. \A k \in 1 .. n : datasets[k] \in Range(datasets) BY <1>2 DEF Range
<1>4. \A d \in Range(datasets) : \E k \in 1 .. n : d = datasets[k] BY <1>2 DEF Range
<1>5. idAt \in [1 .. n -> ids] BY <1>3
<1>6. \A i \in ids : \E k \in 1 .. n : idAt[k] = i BY <1>4
<1>7. \A j, k \in 1 .. n : idAt[j] = idAt[k] => j = k BY <1>1
<1>8. ids \in SUBSET Nat BY <1>1
<1> HIDE DEF ids, idAt
<1>9. idAt \in Bijection(1 .. n, ids)
  <2>1. idAt \in Surjection(1 .. n, ids) BY <1>5, <1>6 DEF Surjection
  <2>2. idAt \in Injection(1 .. n, ids) BY <1>5, <1>7 DEF Injection, IsInjective
  <2> QED BY <2>1, <2>2 DEF Bijection
<1>10. IsFiniteSet(1 .. n) /\ Cardinality(1 .. n) = n
  <2>1. 1 \in Int /\ n \in Int BY <1>1
  <2> QED BY <1>1, <2>1, FS_Interval
<1>11. IsFiniteSet(ids) /\ Cardinality(ids) = n
  <2>1. ExistsBijection(1 .. n, ids) BY <1>9 DEF ExistsBijection
  <2> QED BY <1>10, <2>1, FS_Bijection
<1>12. /\ a \in [1 .. n -> ids]
       /\ \A j, k \in 1 .. n : j < k => a[j] < a[k]
       /\ \A i \in ids : \E k \in 1 .. n : a[k] = i
  BY <1>8, <1>11, AscendingSorts
<1> HIDE DEF a
<1>13. DOMAIN a = 1 .. n BY <1>12
<1>14. Registry = [k \in 1 .. n |-> CHOOSE d \in Range(datasets) : d.id = a[k]]
  BY <1>13, Zenon DEF Registry, a, ids
<1>15. ASSUME NEW k \in 1 .. n PROVE Registry[k] \in Range(datasets) /\ Registry[k].id = a[k]
  <2>1. a[k] \in ids BY <1>12
  <2>2. \E d \in Range(datasets) : d.id = a[k] BY <2>1 DEF ids
  <2>3. Registry[k] = CHOOSE d \in Range(datasets) : d.id = a[k] BY <1>14
  <2> QED BY <2>2, <2>3
<1>16. Registry \in [1 .. n -> Range(datasets)]
  <2>1. Registry = [k \in 1 .. n |-> Registry[k]] BY <1>14
  <2> QED BY <1>15, <2>1
<1>17. Registry \in Seq(Range(datasets)) /\ Len(Registry) = n BY <1>1, <1>16
<1>18. ASSUME NEW d \in Range(datasets) PROVE \E k \in 1 .. n : Registry[k].id = d.id
  <2>1. d.id \in ids BY DEF ids
  <2>2. PICK k \in 1 .. n : a[k] = d.id BY <1>12, <2>1
  <2> QED BY <1>15, <2>2
<1> QED BY <1>12, <1>15, <1>16, <1>17, <1>18 DEF n

\* The metadata of the registry follow each other.
LEMMA MetaFollows ==
  ASSUME Prepared
  PROVE  LET n == Len(datasets)
             m == MetaOffsets
             size(k) == Length[Registry[k].metadata]
         IN  /\ m \in [1 .. n -> Nat] /\ MetaChunk.size \in Nat \ {0}
             /\ \A j, k \in 1 .. n : j < k => m[j] + size(j) <= m[k]
             /\ \A k \in 1 .. n : m[k] + size(k) <= MetaChunk.size
             /\ \A k \in 1 .. n : size(k) \in Nat \ {0}
<1> DEFINE n == Len(datasets)
           size(k) == Length[Registry[k].metadata]
           part(k) == [j \in 1 .. k - 1 |-> size(j)]
           M == [k \in 1 .. n + 1 |-> SumFunctionOnSet(part(k), 1 .. k - 1)]
<1>1. /\ n \in Nat \ {0} /\ Registry \in [1 .. n -> Range(datasets)]
      /\ \A d \in Range(datasets) : Length[d.metadata] \in Nat \ {0}
  BY SourcesKnown, RegistrySorts
<1>2. \A k \in 1 .. n : size(k) \in Nat \ {0} BY <1>1
<1>3. DOMAIN Registry = 1 .. n BY <1>1
<1>4. MetaOffsets = [k \in 1 .. n |-> SumFunctionOnSet(part(k), 1 .. k - 1)]
  <2>1. MetaOffsets = [k \in 1 .. n |-> SumFunction(part(k))] BY <1>3 DEF MetaOffsets
  <2>2. \A k \in 1 .. n : SumFunction(part(k)) = SumFunctionOnSet(part(k), 1 .. k - 1)
    <3> SUFFICES ASSUME NEW k \in 1 .. n PROVE SumFunction(part(k)) = SumFunctionOnSet(part(k), 1 .. k - 1)
      OBVIOUS
    <3>1. DOMAIN part(k) = 1 .. k - 1 OBVIOUS
    <3> QED BY <3>1, Zenon DEF SumFunction
  <2> HIDE DEF part
  <2> QED BY <2>1, <2>2, Zenon
<1>5. MetaChunk.size = SumFunctionOnSet([j \in 1 .. n |-> size(j)], 1 .. n)
  <2>1. MetaChunk.size = SumFunction([j \in 1 .. n |-> size(j)]) BY <1>3 DEF MetaChunk, Chunk
  <2>2. DOMAIN [j \in 1 .. n |-> size(j)] = 1 .. n OBVIOUS
  <2> HIDE DEF size
  <2>3. SumFunction([j \in 1 .. n |-> size(j)]) = SumFunctionOnSet([j \in 1 .. n |-> size(j)], 1 .. n)
    BY <2>2, Zenon DEF SumFunction
  <2> QED BY <2>1, <2>3, Zenon DEF size
<1> HIDE DEF n, size
<1>6. ASSUME NEW k \in 1 .. n + 1 PROVE M[k] \in Nat
  <2>1. IsFiniteSet(1 .. k - 1) BY <1>1, FS_Interval
  <2>2. \A j \in 1 .. k - 1 : part(k)[j] \in Nat BY <1>1, <1>2
  <2>3. SumFunctionOnSet(part(k), 1 .. k - 1) \in Nat BY <2>1, <2>2, SumType
  <2>4. M[k] = SumFunctionOnSet(part(k), 1 .. k - 1) OBVIOUS
  <2> HIDE DEF part
  <2> QED BY <2>3, <2>4
<1>7. ASSUME NEW k \in 1 .. n PROVE M[k + 1] = M[k] + size(k)
  <2>1. k \in Nat /\ k + 1 \in 1 .. n + 1 /\ k \in 1 .. n + 1 BY <1>1
  <2>2. (k + 1) - 1 = k BY <2>1
  <2>3. IsFiniteSet(1 .. k) BY <2>1, FS_Interval
  <2>4. \A j \in 1 .. k : part(k + 1)[j] = size(j) BY <2>2
  <2>5. \A j \in 1 .. k : part(k + 1)[j] \in Nat BY <1>1, <1>2, <2>4
  <2>6. k \in 1 .. k /\ (1 .. k) \ {k} = 1 .. k - 1 BY <2>1
  <2>7. \A j \in 1 .. k - 1 : part(k)[j] = size(j) OBVIOUS
  <2>8. \A j \in (1 .. k) \ {k} : part(k)[j] = part(k + 1)[j] BY <2>4, <2>6, <2>7
  <2>9. M[k + 1] = SumFunctionOnSet(part(k + 1), 1 .. (k + 1) - 1) BY <2>1
  <2>10. M[k] = SumFunctionOnSet(part(k), 1 .. k - 1) BY <2>1
  <2>11. part(k + 1)[k] = size(k) BY <2>4, <2>6
  <2> HIDE DEF part
  <2>12. Adds(SumFunctionOnSet(part(k + 1), 1 .. k), part(k + 1)[k], SumFunctionOnSet(part(k), (1 .. k) \ {k}))
    <3>1. AgreeBut(part(k + 1), part(k), 1 .. k, k)
      BY <2>3, <2>5, <2>6, <2>8, Zenon DEF AgreeBut
    <3> QED BY <3>1, SumSplits
  <2>13. M[k] \in Nat BY <1>6, <2>1
  <2>14. size(k) \in Nat BY <1>2
  <2>15. Adds(M[k + 1], size(k), M[k]) BY <2>2, <2>6, <2>9, <2>10, <2>11, <2>12, Zenon
  <2> QED BY <2>13, <2>14, <2>15 DEF Adds
<1>8. \A k \in 1 .. n : MetaOffsets[k] = M[k]
  <2> HIDE DEF part
  <2> QED BY <1>1, <1>4
<1>9. MetaChunk.size = M[n + 1]
  <2>1. (n + 1) - 1 = n /\ n + 1 \in 1 .. n + 1 BY <1>1
  <2>2. M[n + 1] = SumFunctionOnSet(part(n + 1), 1 .. (n + 1) - 1) BY <2>1
  <2>3. part(n + 1) = [j \in 1 .. n |-> size(j)] BY <2>1
  <2> HIDE DEF part
  <2> QED BY <1>5, <2>1, <2>2, <2>3, Zenon
<1>10. M \in [1 .. n + 1 -> Nat]
  <2> HIDE DEF part
  <2>1. M = [k \in 1 .. n + 1 |-> M[k]] OBVIOUS
  <2> HIDE DEF M
  <2> QED BY <1>6, <2>1
<1>11. MetaOffsets \in [1 .. n -> Nat]
  <2>1. DOMAIN MetaOffsets = 1 .. n /\ MetaOffsets = [k \in DOMAIN MetaOffsets |-> MetaOffsets[k]]
    BY <1>4
  <2> HIDE DEF M
  <2>2. \A k \in 1 .. n : MetaOffsets[k] \in Nat
    <3> SUFFICES ASSUME NEW k \in 1 .. n PROVE MetaOffsets[k] \in Nat
      OBVIOUS
    <3>1. k \in 1 .. n + 1 BY <1>1
    <3> QED BY <1>8, <1>10, <3>1
  <2> QED BY <2>1, <2>2
<1> HIDE DEF M, part
<1>12. \A k \in 2 .. n + 1 : M[k - 1] < M[k]
  <2> SUFFICES ASSUME NEW k \in 2 .. n + 1 PROVE M[k - 1] < M[k]
    OBVIOUS
  <2>1. k - 1 \in 1 .. n /\ (k - 1) + 1 = k BY <1>1
  <2>2. M[k] = M[k - 1] + size(k - 1) BY <1>7, <2>1
  <2>3. size(k - 1) \in Nat \ {0} BY <1>2, <2>1
  <2>4. k - 1 \in 1 .. n + 1 BY <1>1
  <2>5. M[k - 1] \in Nat BY <1>6, <2>4
  <2> QED BY <2>2, <2>3, <2>5
<1>13. n + 1 \in Nat BY <1>1
<1>14. \A j, k \in 1 .. n + 1 : j < k => M[j] < M[k] BY <1>10, <1>12, <1>13, Growing
<1>15. ASSUME NEW j \in 1 .. n, NEW k \in 1 .. n + 1, j < k PROVE MetaOffsets[j] + size(j) <= M[k]
  <2>1. j + 1 \in 1 .. n + 1 /\ j \in Nat /\ k \in Nat BY <1>1
  <2>2. MetaOffsets[j] + size(j) = M[j + 1] BY <1>7, <1>8
  <2>3. M[j + 1] \in Nat /\ M[k] \in Nat BY <1>6, <2>1
  <2>4. j + 1 = k \/ j + 1 < k BY <1>15, <2>1
  <2>5. M[j + 1] = M[k] \/ M[j + 1] < M[k] BY <1>14, <2>1, <2>4
  <2> QED BY <2>2, <2>3, <2>5
<1>16. ASSUME NEW j \in 1 .. n, NEW k \in 1 .. n, j < k PROVE MetaOffsets[j] + size(j) <= MetaOffsets[k]
  <2>1. k \in 1 .. n + 1 BY <1>1
  <2> QED BY <1>8, <1>15, <1>16, <2>1
<1>17. ASSUME NEW k \in 1 .. n PROVE MetaOffsets[k] + size(k) <= MetaChunk.size
  <2>1. n + 1 \in 1 .. n + 1 /\ k < n + 1 BY <1>1
  <2> QED BY <1>9, <1>15, <2>1
<1>18. MetaChunk.size \in Nat \ {0}
  <2>1. 1 \in 1 .. n + 1 /\ n + 1 \in 1 .. n + 1 /\ 1 < n + 1 BY <1>1
  <2>2. M[1] < M[n + 1] /\ M[1] \in Nat /\ M[n + 1] \in Nat BY <1>6, <1>14, <2>1
  <2> QED BY <1>9, <2>2
<1> QED BY <1>2, <1>11, <1>16, <1>17, <1>18 DEF n, size
-----------------------------------------------------------------------------
(* The texts of a database *)

LEMMA Counting ==
  ASSUME NEW top \in Nat, NEW f \in [1 .. top -> Nat], \A k \in 1 .. top : f[k] > 0,
         \A k \in 2 .. top : f[k - 1] < f[k]
  PROVE  \A k \in 1 .. top : k <= f[k]
<1> DEFINE S == {n \in Nat : n \in 1 .. top => n <= f[n]}
<1>1. 0 \in S OBVIOUS
<1>2. ASSUME NEW n \in S PROVE n + 1 \in S
  <2> SUFFICES ASSUME n + 1 \in 1 .. top PROVE n + 1 <= f[n + 1]
    OBVIOUS
  <2>1. f[n + 1] \in Nat /\ f[n + 1] > 0 OBVIOUS
  <2>2. CASE n = 0 BY <2>1, <2>2
  <2>3. CASE n # 0
    <3>1. n \in 1 .. top /\ n + 1 \in 2 .. top /\ (n + 1) - 1 = n BY <2>3
    <3>2. f[n] < f[n + 1] BY <3>1
    <3>3. n <= f[n] /\ f[n] \in Nat BY <3>1
    <3> QED BY <2>1, <3>2, <3>3
  <2> QED BY <2>2, <2>3
<1> HIDE DEF S
<1>3. S = Nat
  <2>1. S \in SUBSET Nat BY DEF S
  <2> QED BY <1>1, <1>2, <2>1, Induction
<1>4. ASSUME NEW k \in 1 .. top PROVE k <= f[k]
  <2>1. k \in S BY <1>3
  <2> QED BY <2>1 DEF S
<1> QED BY <1>4

\* No database has more packs than tiles, and every pack has a path.
LEMMA PathsKnown ==
  ASSUME Prepared, IInv, phase = "done", NEW p \in 1 .. Len(packs)
  PROVE  PathOf[packs[p].pack_id] \in DOMAIN Length \ {Empty}
<1> DEFINE n == Len(ranges)
           f == [r \in 1 .. n |-> ranges[r].first]
<1>1. /\ n \in Nat /\ Len(packs) = n /\ Len(tiles) = Len(index) /\ Len(index) \in Nat
      /\ \A r \in 1 .. n :
           /\ ranges[r].first \in Nat \ {0} /\ Stop(ranges, r) \in Nat
           /\ ranges[r].first < Stop(ranges, r) /\ Stop(ranges, r) <= Len(index) + 1
  BY Complete
<1>2. \A r \in 2 .. n : ranges[r].first = Stop(ranges, r - 1) BY DEF IInv, RangesInv
<1> HIDE DEF n
<1>3. f \in [1 .. n -> Nat] /\ \A r \in 1 .. n : f[r] > 0 BY <1>1
<1>4. \A r \in 2 .. n : f[r - 1] < f[r]
  <2> SUFFICES ASSUME NEW r \in 2 .. n PROVE f[r - 1] < f[r]
    OBVIOUS
  <2>1. r - 1 \in 1 .. n /\ r \in 1 .. n BY <1>1
  <2> QED BY <1>1, <1>2, <2>1
<1>5. p \in 1 .. n BY <1>1
<1>6. f[p] = ranges[p].first BY <1>5
<1> HIDE DEF f
<1>7. p <= f[p] BY <1>1, <1>3, <1>4, <1>5, Counting
<1>8. p \in 1 .. Len(tiles) BY <1>1, <1>5, <1>6, <1>7
<1>9. tiles \in Seq(TileRecord) BY PackingAssumption DEF IInv, TypeOK
<1>10. p \in DOMAIN tiles BY <1>8, <1>9, LenProperties
<1>11. PathOf[p - 1] \in DOMAIN Length \ {Empty} BY <1>10, DatabaseAssumption DEF Prepared
<1>12. packs[p].pack_id = p - 1 BY DEF IInv, PacksInv
<1> QED BY <1>11, <1>12

\* The texts ascend, begin with the empty one, and none is missing.
LEMMA TextsSort ==
  ASSUME Prepared, IInv, phase = "done"
  PROVE  /\ Texts \in Seq(DOMAIN Length) /\ Texts # <<>> /\ Texts[1] = Empty /\ Len(Texts) \in Nat \ {0}
         /\ \A j, k \in 1 .. Len(Texts) : j < k => Texts[j] < Texts[k]
         /\ \A d \in Range(datasets) : \A s \in 1 .. Len(d.strings) :
              \E k \in 1 .. Len(Texts) : Texts[k] = d.strings[s]
         /\ \A p \in 1 .. Len(packs) : \E k \in 1 .. Len(Texts) : Texts[k] = PathOf[packs[p].pack_id]
<1> DEFINE named == {Range(d.strings) : d \in Range(datasets)}
           paths == {PathOf[p.pack_id] : p \in Range(packs)}
           all == (UNION named) \cup paths
           S == all \ {Empty}
           N == Cardinality(S)
           a == Ascending(S)
<1>1. /\ datasets \in Seq(Dataset) /\ Len(datasets) \in Nat
      /\ \A d \in Range(datasets) : d.strings \in Seq(DOMAIN Length)
  BY SourcesKnown
<1>2. \A d \in Range(datasets) :
        IsFiniteSet(Range(d.strings)) /\ Range(d.strings) \in SUBSET DOMAIN Length
  BY <1>1, RangeFinite
<1>3. IsFiniteSet(named)
  <2> DEFINE R == [k \in 1 .. Len(datasets) |-> Range(datasets[k].strings)]
  <2>1. DOMAIN datasets = 1 .. Len(datasets) BY <1>1, LenProperties
  <2>2. \A d \in Range(datasets) : \E k \in 1 .. Len(datasets) : d = datasets[k] BY <2>1 DEF Range
  <2>5. \A k \in 1 .. Len(datasets) : datasets[k] \in Range(datasets) BY <2>1 DEF Range
  <2>6. \A T \in named : \E k \in 1 .. Len(datasets) : R[k] = T
    <3> SUFFICES ASSUME NEW d \in Range(datasets)
                 PROVE  \E k \in 1 .. Len(datasets) : R[k] = Range(d.strings)
      OBVIOUS
    <3>1. PICK k \in 1 .. Len(datasets) : d = datasets[k] BY <2>2
    <3> QED BY <3>1
  <2>7. R \in [1 .. Len(datasets) -> named] BY <2>5
  <2>3. IsFiniteSet(1 .. Len(datasets)) BY <1>1, FS_Interval
  <2> HIDE DEF named
  <2> HIDE DEF R
  <2>4. R \in Surjection(1 .. Len(datasets), named) BY <2>6, <2>7 DEF Surjection
  <2> HIDE DEF R
  <2> QED BY <2>3, <2>4, FS_Surjection
<1>4. \A T \in named : IsFiniteSet(T) BY <1>2
<1>5. packs \in Seq([pack_id : Nat, tile_count : Nat, file_bytes : Nat,
                     first_key : TileRecord, last_key : TileRecord])
  BY DEF IInv, TypeOK
<1>6. Len(packs) \in Nat /\ DOMAIN packs = 1 .. Len(packs) BY <1>5, LenProperties
<1>7. paths = {PathOf[packs[p].pack_id] : p \in 1 .. Len(packs)} BY <1>6 DEF Range
<1>8. IsFiniteSet(paths)
  <2> DEFINE R == [p \in 1 .. Len(packs) |-> PathOf[packs[p].pack_id]]
  <2>1. paths = {R[p] : p \in 1 .. Len(packs)} BY <1>7
  <2>2. IsFiniteSet(1 .. Len(packs)) BY <1>6, FS_Interval
  <2> HIDE DEF paths
  <2>3. R \in Surjection(1 .. Len(packs), paths) BY <2>1 DEF Surjection
  <2> HIDE DEF R
  <2> QED BY <2>2, <2>3, FS_Surjection
<1>9. IsFiniteSet(UNION named)
  <2> HIDE DEF named
  <2> QED BY <1>3, <1>4, FS_UNION
<1>10. IsFiniteSet(all) /\ all \in SUBSET DOMAIN Length
  <2>1. UNION named \in SUBSET DOMAIN Length BY <1>2
  <2>2. paths \in SUBSET DOMAIN Length BY <1>7, PathsKnown
  <2> DEFINE U == UNION named
  <2>3. IsFiniteSet(U) /\ U \in SUBSET DOMAIN Length BY <1>9, <2>1
  <2>4. all = U \cup paths OBVIOUS
  <2> HIDE DEF U, paths, all
  <2>5. IsFiniteSet(U \cup paths) BY <1>8, <2>3, FS_Union
  <2>6. (U \cup paths) \in SUBSET DOMAIN Length BY <2>2, <2>3
  <2> QED BY <2>4, <2>5, <2>6
<1>11. DOMAIN Length \subseteq Nat /\ Empty \in DOMAIN Length /\ Empty = 0
  BY DatabaseAssumption DEF Empty
<1>12. Texts = <<Empty>> \o a BY DEF Texts
<1>13. \A d \in Range(datasets) : \A s \in 1 .. Len(d.strings) : d.strings[s] \in all
  <2> SUFFICES ASSUME NEW d \in Range(datasets), NEW s \in 1 .. Len(d.strings) PROVE d.strings[s] \in all
    OBVIOUS
  <2>1. d.strings[s] \in Range(d.strings) BY <1>1, RangeFinite
  <2> QED BY <2>1
<1>14. \A p \in 1 .. Len(packs) : PathOf[packs[p].pack_id] \in all
  <2>1. \A p \in 1 .. Len(packs) : PathOf[packs[p].pack_id] \in paths
    <3> HIDE DEF paths
    <3> QED BY <1>7
  <2> DEFINE U == UNION named
  <2>2. all = U \cup paths OBVIOUS
  <2> HIDE DEF U, paths, all
  <2> QED BY <2>1, <2>2
<1> HIDE DEF all
<1>15. IsFiniteSet(S) /\ S \in SUBSET Nat
  <2>1. S \in SUBSET all /\ S \in SUBSET Nat BY <1>10, <1>11
  <2> HIDE DEF S
  <2> QED BY <1>10, <2>1, FS_Subset
<1>16. /\ N \in Nat /\ a \in [1 .. N -> S]
       /\ \A j, k \in 1 .. N : j < k => a[j] < a[k]
       /\ \A n \in S : \E k \in 1 .. N : a[k] = n
  <2> HIDE DEF S
  <2> QED BY <1>15, AscendingSorts
<1>17. S \in SUBSET DOMAIN Length /\ \A t \in S : t > 0 BY <1>10, <1>11
<1>18. \A t \in all : t = Empty \/ t \in S OBVIOUS
<1> HIDE DEF S, N, a
<1>19. a \in Seq(DOMAIN Length) /\ Len(a) = N
  <2>1. a \in [1 .. N -> DOMAIN Length] BY <1>16, <1>17
  <2> QED BY <1>16, <2>1
<1>20. <<Empty>> \in Seq(DOMAIN Length) /\ Len(<<Empty>>) = 1 /\ <<Empty>>[1] = Empty BY <1>11
<1>21. /\ Texts \in Seq(DOMAIN Length) /\ Len(Texts) = 1 + N
       /\ \A i \in 1 .. 1 + N : Texts[i] = IF i <= 1 THEN <<Empty>>[i] ELSE a[i - 1]
  BY <1>12, <1>19, <1>20, ConcatProperties
<1>22. Texts[1] = Empty BY <1>16, <1>20, <1>21
<1>23. \A i \in 2 .. 1 + N : Texts[i] = a[i - 1] BY <1>16, <1>21
<1>24. ASSUME NEW j \in 1 .. 1 + N, NEW k \in 1 .. 1 + N, j < k PROVE Texts[j] < Texts[k]
  <2>1. k \in 2 .. 1 + N /\ k - 1 \in 1 .. N BY <1>16, <1>24
  <2>2. Texts[k] = a[k - 1] /\ a[k - 1] \in S BY <1>16, <1>23, <2>1
  <2>3. CASE j = 1
    <3>1. a[k - 1] > 0 BY <1>17, <2>2
    <3> QED BY <1>11, <1>22, <2>2, <2>3, <3>1
  <2>4. CASE j # 1
    <3>1. j \in 2 .. 1 + N /\ j - 1 \in 1 .. N /\ j - 1 < k - 1 BY <1>16, <1>24, <2>4
    <3>2. Texts[j] = a[j - 1] BY <1>23, <3>1
    <3>3. a[j - 1] < a[k - 1] BY <1>16, <2>1, <3>1
    <3> QED BY <2>2, <3>2, <3>3
  <2> QED BY <2>3, <2>4
<1>25. ASSUME NEW t \in all PROVE \E k \in 1 .. 1 + N : Texts[k] = t
  <2>1. CASE t = Empty
    <3>1. 1 \in 1 .. 1 + N BY <1>16
    <3> QED BY <1>22, <2>1, <3>1
  <2>2. CASE t \in S
    <3>1. PICK k \in 1 .. N : a[k] = t BY <1>16, <2>2
    <3>2. k + 1 \in 2 .. 1 + N /\ k + 1 \in 1 .. 1 + N /\ (k + 1) - 1 = k BY <1>16
    <3> QED BY <1>23, <3>1, <3>2
  <2> QED BY <1>18, <2>1, <2>2
<1>26. Len(Texts) \in Nat \ {0} /\ Texts # <<>>
  <2>1. Len(Texts) \in Nat \ {0} BY <1>16, <1>21
  <2>2. Len(<<>>) = 0 BY EmptySeq
  <2> QED BY <2>1, <2>2
<1> QED BY <1>13, <1>14, <1>21, <1>22, <1>24, <1>25, <1>26
-----------------------------------------------------------------------------
(* The reader finds the chunks *)

\* What find_chunk finds in a file of five chunks is what was written.
LEMMA ChunksFound ==
  ASSUME NEW c, Len(c) = 5, DOMAIN c = 1 .. 5, file = MakeDatabaseFile(c),
         \A k \in 1 .. 5 : c[k].size \in Nat \ {0} /\ c[k] = Chunk(c[k].size, c[k].holds)
  PROVE  /\ \A k \in 1 .. 5 : FindChunk(k) = c[k]
         /\ HeaderAccepted /\ DirectoryAccepted /\ ContentAccepted
<1> DEFINE sizes == [k \in 1 .. 5 |-> c[k].size]
           from == FileHeader + DirectoryEntry * 5
           offset == Regions(from, sizes)
           entry(k) == [tag |-> k, offset |-> offset[k], size |-> c[k].size]
           chunkAt(o) == CHOOSE k \in 1 .. 5 : offset[k] = o
<1>1. sizes \in Seq(Nat) /\ Len(sizes) = 5 /\ sizes # <<>>
  <2>1. sizes \in [1 .. 5 -> Nat] OBVIOUS
  <2> HIDE DEF sizes
  <2>2. sizes \in Seq(Nat)
    <3>1. PICK n \in Nat : n = 5 OBVIOUS
    <3>2. sizes \in [1 .. n -> Nat] BY <2>1, <3>1
    <3> QED BY <3>2
  <2>3. Len(sizes) = 5 BY <2>1
  <2>4. sizes # <<>>
    <3> SUFFICES ASSUME sizes = <<>> PROVE FALSE
      OBVIOUS
    <3>1. Len(<<>>) = 0 BY EmptySeq
    <3>2. Len(sizes) = 0 BY <3>1, Zenon
    <3> QED BY <2>3, <3>2
  <2> QED BY <2>2, <2>3, <2>4
<1>2. from = 456 BY DEF FileHeader, DirectoryEntry
<1>3. \A k \in 1 .. 5 : sizes[k] = c[k].size /\ sizes[k] \in Nat \ {0} OBVIOUS
<1>4. /\ file.header.chunk_count = 5
      /\ file.header.content_hash = ContentOf(c)
      /\ file.directory = [k \in 1 .. 5 |-> entry(k)]
      /\ file.body = [o \in {offset[k] : k \in 1 .. 5} |-> c[chunkAt(o)]]
      /\ file.size = offset[6]
  BY DEF MakeDatabaseFile
<1> HIDE DEF sizes, from
<1>5. 5 + 1 = 6 /\ 1 .. 5 + 1 = 1 .. 6 OBVIOUS
<1>6. offset \in [1 .. 6 -> Nat]
  <2>1. offset \in [1 .. Len(sizes) + 1 -> Nat]
    <3>1. from \in Nat BY <1>2
    <3> QED BY <1>1, <3>1, RegionsFollow
  <2> QED BY <1>1, <1>5, <2>1, Zenon
<1>7. /\ \A k \in 1 .. 5 : offset[k] % 8 = 0 /\ 456 <= offset[k] /\ offset[k] + sizes[k] <= offset[6]
      /\ \A j, k \in 1 .. 5 : j < k => offset[j] + sizes[j] <= offset[k]
  <2>1. /\ \A k \in 1 .. Len(sizes) :
             offset[k] % 8 = 0 /\ from <= offset[k] /\ offset[k] + sizes[k] <= offset[Len(sizes) + 1]
        /\ \A j, k \in 1 .. Len(sizes) : j < k => offset[j] + sizes[j] <= offset[k]
    <3>1. from \in Nat BY <1>2
    <3> QED BY <1>1, <3>1, RegionsApart
  <2> HIDE DEF offset
  <2> QED BY <1>1, <1>2, <2>1
<1> HIDE DEF offset
<1>8. \A k \in 1 .. 5 : offset[k] \in Nat BY <1>6
<1>9. \A j, k \in 1 .. 5 : offset[j] = offset[k] => j = k
  <2> SUFFICES ASSUME NEW j \in 1 .. 5, NEW k \in 1 .. 5, j # k PROVE offset[j] # offset[k]
    OBVIOUS
  <2>1. j < k \/ k < j OBVIOUS
  <2>2. sizes[j] \in Nat \ {0} /\ sizes[k] \in Nat \ {0} /\ offset[j] \in Nat /\ offset[k] \in Nat BY <1>3, <1>8
  <2>3. j < k => offset[j] + sizes[j] <= offset[k] BY <1>7
  <2>4. k < j => offset[k] + sizes[k] <= offset[j] BY <1>7
  <2> QED BY <2>1, <2>2, <2>3, <2>4
<1>10. ASSUME NEW k \in 1 .. 5 PROVE file.body[offset[k]] = c[k]
  <2>1. chunkAt(offset[k]) \in 1 .. 5 /\ offset[chunkAt(offset[k])] = offset[k] OBVIOUS
  <2>2. chunkAt(offset[k]) = k BY <1>9, <2>1
  <2> HIDE DEF chunkAt
  <2>3. file.body[offset[k]] = c[chunkAt(offset[k])] BY <1>4
  <2> QED BY <2>2, <2>3
<1>11. \A k \in 1 .. 5 : entry(k).tag = k /\ entry(k).offset = offset[k] /\ entry(k).size = c[k].size
  OBVIOUS
<1> HIDE DEF entry, chunkAt
<1>12. DOMAIN file.directory = 1 .. 5 /\ \A k \in 1 .. 5 : file.directory[k] = entry(k) BY <1>4
<1>13. Range(file.directory) = {entry(k) : k \in 1 .. 5} BY <1>12 DEF Range
<1>14. Len(file.directory) = 5
  <2> DEFINE D == file.directory
             V == {entry(k) : k \in 1 .. 5}
  <2>1. D \in [1 .. 5 -> V] BY <1>4
  <2> HIDE DEF D, V
  <2>2. Len(D) = 5 BY <2>1
  <2> QED BY <2>2 DEF D
<1>15. ASSUME NEW k \in 1 .. 5 PROVE FindChunk(k) = c[k]
  <2> DEFINE e == CHOOSE e \in Range(file.directory) : e.tag = k
  <2>1. entry(k) \in Range(file.directory) /\ entry(k).tag = k BY <1>11, <1>13
  <2>2. e \in Range(file.directory) /\ e.tag = k BY <2>1
  <2>3. FindChunk(k) = Chunk(e.size, file.body[e.offset].holds) BY DEF FindChunk
  <2> HIDE DEF e
  <2>4. PICK j \in 1 .. 5 : e = entry(j) BY <1>13, <2>2
  <2>5. j = k BY <1>11, <2>2, <2>4
  <2>6. e.size = c[k].size /\ e.offset = offset[k] BY <1>11, <2>4, <2>5
  <2>7. FindChunk(k) = Chunk(c[k].size, c[k].holds) BY <1>10, <2>3, <2>6
  <2> QED BY <2>7
<1>16. HeaderAccepted BY <1>4 DEF HeaderAccepted
<1>17. DirectoryAccepted
  <2>1. file.header.chunk_count = Len(file.directory) BY <1>4, <1>14
  <2>2. \A k \in 2 .. 5 : file.directory[k - 1].tag < file.directory[k].tag
    <3> SUFFICES ASSUME NEW k \in 2 .. 5 PROVE file.directory[k - 1].tag < file.directory[k].tag
      OBVIOUS
    <3>1. k - 1 \in 1 .. 5 /\ k \in 1 .. 5 OBVIOUS
    <3>2. file.directory[k - 1].tag = k - 1 /\ file.directory[k].tag = k BY <1>11, <1>12, <3>1
    <3> QED BY <3>2
  <2>3. ASSUME NEW j \in 1 .. 5
        PROVE  /\ entry(j).offset % 8 = 0 /\ entry(j).offset + entry(j).size <= file.size
               /\ entry(j).offset >= 456
    BY <1>3, <1>4, <1>7, <1>8, <1>11
  <2>4. ASSUME NEW j \in 1 .. 5, NEW k \in 1 .. 5
        PROVE  \/ entry(j) = entry(k) \/ entry(j).offset + entry(j).size <= entry(k).offset
               \/ entry(k).offset + entry(k).size <= entry(j).offset
    <3>1. j = k \/ j < k \/ k < j OBVIOUS
    <3> QED BY <1>3, <1>7, <1>11, <3>1
  <2>5. ASSUME NEW t \in {DSET, META, PACK, STRS, TIDX}
        PROVE  Cardinality({k \in DOMAIN file.directory : file.directory[k].tag = t}) = 1
    <3>1. t \in 1 .. 5 BY DEF DSET, META, PACK, STRS, TIDX
    <3>2. \A k \in 1 .. 5 : file.directory[k].tag = k BY <1>11, <1>12
    <3>3. {k \in DOMAIN file.directory : file.directory[k].tag = t} = {t} BY <1>12, <3>1, <3>2
    <3> QED BY <3>3, FS_Singleton, Zenon
  <2>6. FileHeader + DirectoryEntry * Len(file.directory) = 456 BY <1>14 DEF FileHeader, DirectoryEntry
  <2>7. \A k \in 2 .. Len(file.directory) : file.directory[k - 1].tag < file.directory[k].tag
    BY <1>14, <2>2
  <2>8. \A e \in Range(file.directory) :
          /\ e.offset % 8 = 0 /\ e.offset + e.size <= file.size
          /\ e.offset >= FileHeader + DirectoryEntry * Len(file.directory)
          /\ \A d \in Range(file.directory) :
               e = d \/ e.offset + e.size <= d.offset \/ d.offset + d.size <= e.offset
    BY <1>13, <2>3, <2>4, <2>6
  <2> QED BY <2>1, <2>5, <2>7, <2>8, Zenon DEF DirectoryAccepted
<1>18. ContentAccepted
  <2>1. file.header.content_hash = [k \in 1 .. 5 |-> <<k, c[k]>>] BY <1>4 DEF ContentOf
  <2>2. \A k \in 1 .. 5 : file.directory[k].tag = k BY <1>11, <1>12
  <2>3. [k \in DOMAIN file.directory |-> <<file.directory[k].tag, FindChunk(file.directory[k].tag)>>]
          = [k \in 1 .. 5 |-> <<k, c[k]>>]
    BY <1>12, <1>15, <2>2
  <2> QED BY <2>1, <2>3 DEF ContentAccepted
<1> QED BY <1>15, <1>16, <1>17, <1>18
-----------------------------------------------------------------------------
(* The reader accepts what it finds *)

FileWritten == Prepared /\ IInv /\ phase = "done" /\ file = MakeDatabaseFile(Chunks(StringTable))

\* Where a text is in STRS.
OffsetOf(k) == StringOffsets(Texts)[k]

LEMMA TableKnown ==
  ASSUME Prepared, IInv, phase = "done"
  PROVE  LET n == Len(Texts)
             h == StringTable.holds
         IN  /\ StringOffsets(Texts) \in [1 .. n + 1 -> Nat] /\ OffsetOf(1) = 0
             /\ \A k \in 1 .. n : OffsetOf(k + 1) = Aligned(OffsetOf(k) + 4 + Length[Texts[k]], 4)
             /\ \A j, k \in 1 .. n + 1 : j < k => OffsetOf(j) < OffsetOf(k)
             /\ DOMAIN h = {OffsetOf(k) : k \in 1 .. n}
             /\ \A k \in 1 .. n : h[OffsetOf(k)] = Texts[k] /\ StringId(StringTable, Texts[k]) = OffsetOf(k)
             /\ StringTable.size = OffsetOf(n + 1) /\ StringTable.size \in Nat \ {0}
<1> DEFINE n == Len(Texts)
           h == StringTable.holds
           s == StringOffsets(Texts)
<1>1. /\ Texts \in Seq(DOMAIN Length) /\ Texts # <<>> /\ n \in Nat \ {0}
      /\ \A j, k \in 1 .. n : j < k => Texts[j] < Texts[k]
  BY TextsSort
<1>2. /\ s \in [1 .. n + 1 -> Nat] /\ s[1] = 0
      /\ \A k \in 1 .. n : s[k + 1] = Aligned(s[k] + 4 + Length[Texts[k]], 4)
      /\ \A j, k \in 1 .. n + 1 : j < k => s[j] < s[k]
  BY <1>1, TextsFollow
<1>3. /\ DOMAIN StringsAt(Texts, s).holds = {s[k] : k \in 1 .. n}
      /\ \A k \in 1 .. n : StringsAt(Texts, s).holds[s[k]] = Texts[k]
      /\ \A k \in 1 .. n : StringId(StringsAt(Texts, s), Texts[k]) = s[k]
  BY <1>1, TableHolds
<1>4. StringTable = StringsAt(Texts, s) BY DEF StringTable
<1>5. StringTable.size = s[n + 1] BY <1>4 DEF StringsAt, Chunk
<1> HIDE DEF s, n
<1>6. StringTable.size \in Nat \ {0}
  <2>1. 1 \in 1 .. n + 1 /\ n + 1 \in 1 .. n + 1 /\ 1 < n + 1 BY <1>1
  <2>2. s[1] < s[n + 1] /\ s[n + 1] \in Nat BY <1>2, <2>1
  <2> QED BY <1>2, <1>5, <2>2
<1>7. \A k : OffsetOf(k) = s[k] BY DEF OffsetOf, s
<1>8. DOMAIN h = {s[k] : k \in 1 .. n} BY <1>3, <1>4
<1>9. \A k \in 1 .. n : h[s[k]] = Texts[k] /\ StringId(StringTable, Texts[k]) = s[k] BY <1>3, <1>4
<1>10. {s[k] : k \in 1 .. n} = {OffsetOf(k) : k \in 1 .. n} BY <1>7
<1> HIDE DEF h
<1>11. DOMAIN h = {OffsetOf(k) : k \in 1 .. n} BY <1>8, <1>10
<1>12. s \in [1 .. n + 1 -> Nat] /\ OffsetOf(1) = 0 BY <1>2, <1>7
<1>13. \A k \in 1 .. n : OffsetOf(k + 1) = Aligned(OffsetOf(k) + 4 + Length[Texts[k]], 4) BY <1>2, <1>7
<1>14. \A j, k \in 1 .. n + 1 : j < k => OffsetOf(j) < OffsetOf(k) BY <1>2, <1>7
<1>15. \A k \in 1 .. n : h[OffsetOf(k)] = Texts[k] /\ StringId(StringTable, Texts[k]) = OffsetOf(k)
  BY <1>7, <1>9
<1>16. StringTable.size = OffsetOf(n + 1) BY <1>5, <1>7
<1> QED BY <1>6, <1>11, <1>12, <1>13, <1>14, <1>15, <1>16 DEF s, n, h

\* Every chunk has a size, and the reader finds it.
LEMMA FileFramed ==
  ASSUME FileWritten
  PROVE  /\ FindChunk(DSET) = DatasetChunk(StringTable) /\ FindChunk(META) = MetaChunk
         /\ FindChunk(PACK) = PackChunk(StringTable) /\ FindChunk(STRS) = StringTable
         /\ FindChunk(TIDX) = TileIndexChunk
         /\ HeaderAccepted /\ DirectoryAccepted /\ ContentAccepted
<1> USE DEF FileWritten
<1> DEFINE c == Chunks(StringTable)
<1>1. Len(c) = 5 /\ DOMAIN c = 1 .. 5 BY DEF Chunks
<1>2. /\ c[1] = DatasetChunk(StringTable) /\ c[2] = MetaChunk /\ c[3] = PackChunk(StringTable)
      /\ c[4] = StringTable /\ c[5] = TileIndexChunk
  BY DEF Chunks
<1> HIDE DEF c
<1>3. /\ DatasetChunk(StringTable) = Chunk(DatasetChunk(StringTable).size, DatasetChunk(StringTable).holds)
      /\ DatasetChunk(StringTable).size \in Nat \ {0}
  <2>1. Len(Registry) \in Nat \ {0} BY SourcesKnown, RegistrySorts
  <2>2. DatasetRecord * Len(Registry) \in Nat \ {0} BY <2>1 DEF DatasetRecord
  <2> QED BY <2>2, Zenon DEF DatasetChunk, Chunk
<1>4. /\ MetaChunk = Chunk(MetaChunk.size, MetaChunk.holds) /\ MetaChunk.size \in Nat \ {0}
  <2>1. MetaChunk.size \in Nat \ {0} BY MetaFollows
  <2>2. MetaChunk = Chunk(MetaChunk.size, MetaChunk.holds) BY Zenon DEF MetaChunk, Chunk
  <2> QED BY <2>1, <2>2
<1>5. tiles \in Seq(TileRecord) /\ tiles # <<>> BY PackingAssumption DEF IInv, TypeOK, PhaseInv, Admissible
<1>6. Len(tiles) \in Nat \ {0} BY <1>5, EmptySeq
<1>7. Len(packs) \in Nat \ {0}
  <2>1. Len(packs) = Len(ranges) /\ Len(ranges) \in Nat BY Complete
  <2>2. PlannedTo(ranges) = Len(tiles) + 1 BY DEF IInv, BuildInv
  <2>3. ranges # <<>>
    <3> SUFFICES ASSUME ranges = <<>> PROVE FALSE
      OBVIOUS
    <3>1. PlannedTo(ranges) = 1 BY DEF PlannedTo
    <3> QED BY <1>6, <2>2, <3>1
  <2>4. ranges \in Seq(RangeRecord) BY RangesType DEF IInv
  <2>5. Len(ranges) # 0 BY <2>3, <2>4, EmptySeq
  <2> QED BY <2>1, <2>5
<1>8. /\ PackChunk(StringTable) = Chunk(PackChunk(StringTable).size, PackChunk(StringTable).holds)
      /\ PackChunk(StringTable).size \in Nat \ {0}
  <2>1. PackRecord * Len(packs) \in Nat \ {0} BY <1>7 DEF PackRecord
  <2> QED BY <2>1, Zenon DEF PackChunk, Chunk
<1>9. /\ StringTable = Chunk(StringTable.size, StringTable.holds) /\ StringTable.size \in Nat \ {0}
  <2>1. StringTable.size \in Nat \ {0} BY TableKnown
  <2>2. StringTable = Chunk(StringTable.size, StringTable.holds) BY Zenon DEF StringTable, StringsAt, Chunk
  <2> QED BY <2>1, <2>2
<1>10. /\ TileIndexChunk = Chunk(TileIndexChunk.size, TileIndexChunk.holds)
       /\ TileIndexChunk.size \in Nat \ {0}
  <2>1. IndexRecord * Len(tiles) \in Nat \ {0} BY <1>6 DEF IndexRecord
  <2> QED BY <2>1, Zenon DEF TileIndexChunk, Chunk
<1>11. \A k \in 1 .. 5 : c[k].size \in Nat \ {0} /\ c[k] = Chunk(c[k].size, c[k].holds)
  <2> SUFFICES ASSUME NEW k \in 1 .. 5 PROVE c[k].size \in Nat \ {0} /\ c[k] = Chunk(c[k].size, c[k].holds)
    OBVIOUS
  <2>1. k = 1 \/ k = 2 \/ k = 3 \/ k = 4 \/ k = 5 OBVIOUS
  <2>2. CASE k = 1 BY <1>2, <1>3, <2>2
  <2>3. CASE k = 2 BY <1>2, <1>4, <2>3
  <2>4. CASE k = 3 BY <1>2, <1>8, <2>4
  <2>5. CASE k = 4 BY <1>2, <1>9, <2>5
  <2>6. CASE k = 5 BY <1>2, <1>10, <2>6
  <2> QED BY <2>1, <2>2, <2>3, <2>4, <2>5, <2>6
<1>12. file = MakeDatabaseFile(c) BY DEF c
<1>13. (\A k \in 1 .. 5 : FindChunk(k) = c[k]) /\ HeaderAccepted /\ DirectoryAccepted /\ ContentAccepted
  BY <1>1, <1>11, <1>12, ChunksFound
<1>14. /\ FindChunk(1) = c[1] /\ FindChunk(2) = c[2] /\ FindChunk(3) = c[3] /\ FindChunk(4) = c[4]
       /\ FindChunk(5) = c[5]
  BY <1>13
<1> QED BY <1>2, <1>13, <1>14 DEF DSET, META, PACK, STRS, TIDX

LEMMA StringsRead ==
  ASSUME FileWritten
  PROVE  StringsAccepted
<1> USE DEF FileWritten
<1> DEFINE n == Len(Texts)
           h == StringTable.holds
<1>1. /\ Texts[1] = Empty /\ n \in Nat \ {0}
      /\ \A j, k \in 1 .. n : j < k => Texts[j] < Texts[k]
  BY TextsSort
<1>2. /\ StringOffsets(Texts) \in [1 .. n + 1 -> Nat] /\ OffsetOf(1) = 0
      /\ \A k \in 1 .. n : OffsetOf(k + 1) = Aligned(OffsetOf(k) + 4 + Length[Texts[k]], 4)
      /\ \A j, k \in 1 .. n + 1 : j < k => OffsetOf(j) < OffsetOf(k)
      /\ DOMAIN h = {OffsetOf(k) : k \in 1 .. n}
      /\ \A k \in 1 .. n : h[OffsetOf(k)] = Texts[k]
      /\ StringTable.size = OffsetOf(n + 1)
  BY TableKnown
<1>3. FindChunk(STRS) = StringTable BY FileFramed
<1> HIDE DEF n, h
<1>4. \A k \in 1 .. n + 1 : OffsetOf(k) \in Nat BY <1>2 DEF OffsetOf
<1>5. 0 \in DOMAIN h /\ h[0] = Empty
  <2>1. 1 \in 1 .. n BY <1>1
  <2> QED BY <1>1, <1>2, <2>1
<1>6. ASSUME NEW k \in 1 .. n
      PROVE  Aligned(OffsetOf(k) + 4 + Length[h[OffsetOf(k)]], 4) \in DOMAIN h \cup {StringTable.size}
  <2>1. OffsetOf(k + 1) = Aligned(OffsetOf(k) + 4 + Length[h[OffsetOf(k)]], 4) BY <1>2
  <2>2. k + 1 \in 1 .. n \/ k + 1 = n + 1 BY <1>1
  <2>3. OffsetOf(k + 1) \in DOMAIN h \cup {StringTable.size} BY <1>2, <2>2
  <2> QED BY <2>1, <2>3, Zenon
<1>7. ASSUME NEW j \in 1 .. n, NEW k \in 1 .. n, OffsetOf(j) < OffsetOf(k)
      PROVE  h[OffsetOf(j)] < h[OffsetOf(k)]
  <2>1. j \in 1 .. n + 1 /\ k \in 1 .. n + 1 BY <1>1
  <2>2. OffsetOf(j) \in Nat /\ OffsetOf(k) \in Nat BY <1>4, <2>1
  <2>3. j < k
    <3> SUFFICES ASSUME ~(j < k) PROVE FALSE
      OBVIOUS
    <3>1. j = k \/ k < j BY <1>1
    <3>2. OffsetOf(k) < OffsetOf(j) \/ j = k BY <1>2, <2>1, <3>1
    <3> QED BY <1>7, <2>2, <3>2
  <2> QED BY <1>1, <1>2, <2>3
<1>8. \A o \in DOMAIN h : Aligned(o + 4 + Length[h[o]], 4) \in DOMAIN h \cup {StringTable.size}
  BY <1>2, <1>6
<1>9. \A o, p \in DOMAIN h : o < p => h[o] < h[p] BY <1>2, <1>7
<1> QED BY <1>3, <1>5, <1>8, <1>9, Zenon DEF StringsAccepted, h

LEMMA PacksRead ==
  ASSUME FileWritten
  PROVE  /\ PacksAccepted
         /\ \A p \in DOMAIN packs :
              FindChunk(STRS).holds[FindChunk(PACK).holds[p].path_id] = PathOf[packs[p].pack_id]
<1> USE DEF FileWritten
<1> DEFINE h == StringTable.holds
           records == FindChunk(PACK).holds
<1>1. FindChunk(STRS) = StringTable /\ FindChunk(PACK) = PackChunk(StringTable) BY FileFramed
<1>2. records = [p \in DOMAIN packs |->
                   [pack |-> packs[p], path_id |-> StringId(StringTable, PathOf[packs[p].pack_id])]]
  BY <1>1 DEF PackChunk, Chunk
<1>3. FindChunk(PACK).size = PackRecord * Len(packs) BY <1>1 DEF PackChunk, Chunk
<1>4. file.header.pack_count = Len(packs) BY DEF MakeDatabaseFile
<1>5. packs \in Seq([pack_id : Nat, tile_count : Nat, file_bytes : Nat,
                     first_key : TileRecord, last_key : TileRecord])
  BY DEF IInv, TypeOK
<1>6. DOMAIN packs = 1 .. Len(packs) BY <1>5, LenProperties
<1>7. /\ DOMAIN h = {OffsetOf(k) : k \in 1 .. Len(Texts)}
      /\ \A k \in 1 .. Len(Texts) : h[OffsetOf(k)] = Texts[k] /\ StringId(StringTable, Texts[k]) = OffsetOf(k)
  BY TableKnown
<1> HIDE DEF h, records
<1>8. ASSUME NEW p \in DOMAIN packs
      PROVE  /\ records[p].path_id \in DOMAIN h /\ h[records[p].path_id] = PathOf[packs[p].pack_id]
             /\ PathOf[packs[p].pack_id] # Empty
  <2>1. p \in 1 .. Len(packs) BY <1>6
  <2>2. PICK k \in 1 .. Len(Texts) : Texts[k] = PathOf[packs[p].pack_id] BY <2>1, TextsSort
  <2>3. records[p].path_id = StringId(StringTable, PathOf[packs[p].pack_id]) BY <1>2
  <2>4. records[p].path_id = OffsetOf(k) BY <1>7, <2>2, <2>3
  <2>5. PathOf[packs[p].pack_id] # Empty BY <2>1, PathsKnown
  <2> QED BY <1>7, <2>2, <2>4, <2>5
<1>9. DOMAIN records = DOMAIN packs BY <1>2
<1>10. PacksAccepted BY <1>1, <1>3, <1>4, <1>8, <1>9 DEF PacksAccepted, h, records
<1> QED BY <1>1, <1>8, <1>10 DEF h, records
LEMMA DatasetsRead ==
  ASSUME FileWritten
  PROVE  DatasetsAccepted
<1> USE DEF FileWritten
<1> DEFINE n == Len(datasets)
           r == Registry
           m == MetaOffsets
           h == StringTable.holds
           size(k) == Length[r[k].metadata]
           ids(k) == [s \in DOMAIN r[k].strings |-> StringId(StringTable, r[k].strings[s])]
           record(k) == [id |-> r[k].id, string_ids |-> ids(k), resolution |-> r[k].resolution,
                         meta_offset |-> m[k], meta_bytes |-> size(k)]
           records == FindChunk(DSET).holds
           said(k) == <<r[k].id, r[k].strings, r[k].resolution, r[k].metadata>>
<1>1. /\ n \in Nat \ {0} /\ r \in [1 .. n -> Range(datasets)] /\ Len(r) = n
      /\ \A j, k \in 1 .. n : j < k => r[j].id < r[k].id
      /\ \A d \in Range(datasets) : d.strings \in Seq(DOMAIN Length)
  BY SourcesKnown, RegistrySorts
<1>2. /\ m \in [1 .. n -> Nat] /\ MetaChunk.size \in Nat \ {0}
      /\ \A j, k \in 1 .. n : j < k => m[j] + size(j) <= m[k]
      /\ \A k \in 1 .. n : m[k] + size(k) <= MetaChunk.size
      /\ \A k \in 1 .. n : size(k) \in Nat \ {0}
  BY MetaFollows
<1>3. /\ FindChunk(DSET) = DatasetChunk(StringTable) /\ FindChunk(STRS) = StringTable
      /\ FindChunk(META) = MetaChunk
  BY FileFramed
<1>4. DOMAIN r = 1 .. n BY <1>1
<1>5. records = [k \in 1 .. n |-> record(k)] BY <1>3, <1>4 DEF DatasetChunk, Chunk
<1>6. MetaChunk.holds = {[from |-> m[k], text |-> r[k].metadata] : k \in 1 .. n}
  BY <1>4 DEF MetaChunk, Chunk
<1>7. /\ file.header.dataset_count = n /\ file.header.registry_hash = RegistryHash
      /\ file.header.database_id = RegistryHash
  BY DEF MakeDatabaseFile
<1>8. RegistryHash = [k \in 1 .. n |-> said(k)] BY <1>4 DEF RegistryHash
<1>9. FindChunk(DSET).size = DatasetRecord * n BY <1>1, <1>3 DEF DatasetChunk, Chunk
<1>10. /\ DOMAIN h = {OffsetOf(k) : k \in 1 .. Len(Texts)}
       /\ \A k \in 1 .. Len(Texts) : h[OffsetOf(k)] = Texts[k] /\ StringId(StringTable, Texts[k]) = OffsetOf(k)
  BY TableKnown
<1>11. \A d \in Range(datasets) : \A s \in 1 .. Len(d.strings) :
         \E k \in 1 .. Len(Texts) : Texts[k] = d.strings[s]
  BY TextsSort
<1>12. \A k \in 1 .. n : /\ record(k).id = r[k].id /\ record(k).string_ids = ids(k)
                         /\ record(k).resolution = r[k].resolution
                         /\ record(k).meta_offset = m[k] /\ record(k).meta_bytes = size(k)
  OBVIOUS
<1> HIDE DEF n, r, m, h, records, record
<1>13. ASSUME NEW k \in 1 .. n
       PROVE  /\ r[k].strings \in Seq(DOMAIN Length)
              /\ \A s \in 1 .. Len(r[k].strings) : ids(k)[s] \in DOMAIN h /\ h[ids(k)[s]] = r[k].strings[s]
  <2>1. r[k] \in Range(datasets) /\ r[k].strings \in Seq(DOMAIN Length) BY <1>1
  <2>2. DOMAIN r[k].strings = 1 .. Len(r[k].strings) BY <2>1, LenProperties
  <2>3. ASSUME NEW s \in 1 .. Len(r[k].strings)
        PROVE  ids(k)[s] \in DOMAIN h /\ h[ids(k)[s]] = r[k].strings[s]
    <3>1. ids(k)[s] = StringId(StringTable, r[k].strings[s]) BY <2>2
    <3>2. PICK t \in 1 .. Len(Texts) : Texts[t] = r[k].strings[s] BY <1>11, <2>1
    <3> HIDE DEF ids
    <3>3. ids(k)[s] = OffsetOf(t) BY <1>10, <3>1, <3>2
    <3> QED BY <1>10, <3>2, <3>3
  <2> QED BY <2>1, <2>3
<1>14. ASSUME NEW k \in 1 .. n PROVE Range(ids(k)) \subseteq DOMAIN h
  <2>1. DOMAIN r[k].strings = 1 .. Len(r[k].strings) BY <1>13, LenProperties
  <2>2. DOMAIN ids(k) = 1 .. Len(r[k].strings) BY <2>1
  <2> HIDE DEF ids
  <2> QED BY <1>13, <2>2 DEF Range
<1>15. ASSUME NEW k \in 1 .. n PROVE [s \in DOMAIN ids(k) |-> h[ids(k)[s]]] = r[k].strings
  <2>1. r[k].strings \in [1 .. Len(r[k].strings) -> DOMAIN Length] /\ DOMAIN r[k].strings = 1 .. Len(r[k].strings)
    BY <1>13, LenProperties
  <2>2. DOMAIN ids(k) = 1 .. Len(r[k].strings) BY <2>1
  <2> HIDE DEF ids
  <2> QED BY <1>13, <2>1, <2>2
<1>16. \A k \in 1 .. n : m[k] \in Nat BY <1>2
<1>17. \A j, k \in 1 .. n : m[j] = m[k] => j = k
  <2> SUFFICES ASSUME NEW j \in 1 .. n, NEW k \in 1 .. n, j # k PROVE m[j] # m[k]
    OBVIOUS
  <2>1. j < k \/ k < j BY <1>1
  <2>2. size(j) \in Nat \ {0} /\ size(k) \in Nat \ {0} BY <1>2
  <2>3. (j < k => m[j] + size(j) <= m[k]) /\ (k < j => m[k] + size(k) <= m[j]) BY <1>2
  <2> HIDE DEF size
  <2> QED BY <1>16, <2>1, <2>2, <2>3
<1>18. ASSUME NEW k \in 1 .. n PROVE MetaText(m[k], size(k)) = {r[k].metadata}
  <2> DEFINE own == [from |-> m[k], text |-> r[k].metadata]
             found == {t \in MetaChunk.holds : t.from = m[k] /\ Length[t.text] = size(k)}
  <2>1. MetaText(m[k], size(k)) = {t.text : t \in found} BY <1>3 DEF MetaText
  <2>2. own \in found BY <1>6
  <2>3. ASSUME NEW t \in found PROVE t = own
    <3>1. PICK j \in 1 .. n : t = [from |-> m[j], text |-> r[j].metadata] BY <1>6
    <3>2. m[j] = m[k] BY <3>1
    <3>3. j = k BY <1>17, <3>2
    <3> QED BY <3>1, <3>3
  <2>4. own.text = r[k].metadata OBVIOUS
  <2> HIDE DEF own, found
  <2> QED BY <2>1, <2>2, <2>3, <2>4
<1>19. DOMAIN records = 1 .. n /\ \A k \in 1 .. n : records[k] = record(k) BY <1>5
<1>20. Len(records) = n
  <2> DEFINE V == {record(k) : k \in 1 .. n}
  <2>1. records \in [1 .. n -> V] BY <1>5
  <2> HIDE DEF V
  <2> QED BY <1>1, <2>1
<1>21. Range(records) = {record(k) : k \in 1 .. n} BY <1>19 DEF Range
<1> HIDE DEF ids, size
<1>22. \A k \in 2 .. Len(records) : records[k - 1].id < records[k].id
  <2> SUFFICES ASSUME NEW k \in 2 .. n PROVE records[k - 1].id < records[k].id
    BY <1>20
  <2>1. k - 1 \in 1 .. n /\ k \in 1 .. n /\ k - 1 < k BY <1>1
  <2>2. records[k - 1].id = r[k - 1].id /\ records[k].id = r[k].id BY <1>12, <1>19, <2>1
  <2>3. r[k - 1].id < r[k].id BY <1>1, <2>1
  <2> QED BY <2>2, <2>3
<1>23. ASSUME NEW k \in 1 .. n
       PROVE  /\ Range(record(k).string_ids) \subseteq DOMAIN h
              /\ record(k).meta_bytes = 0 => record(k).meta_offset = 0
              /\ record(k).meta_offset + record(k).meta_bytes <= MetaChunk.size
              /\ MetaText(record(k).meta_offset, record(k).meta_bytes) # {}
  <2>1. size(k) # 0 BY <1>2
  <2> QED BY <1>2, <1>12, <1>14, <1>18, <2>1
<1>24. ASSUME NEW j \in 1 .. n, NEW k \in 1 .. n, record(j).meta_offset < record(k).meta_offset
       PROVE  record(j).meta_offset + record(j).meta_bytes <= record(k).meta_offset
  <2>1. m[j] < m[k] /\ m[j] \in Nat /\ m[k] \in Nat BY <1>12, <1>16, <1>24
  <2>2. j = k \/ j < k \/ k < j BY <1>1
  <2>3. j # k BY <2>1
  <2>4. ASSUME k < j PROVE FALSE
    <3>1. m[k] + size(k) <= m[j] /\ size(k) \in Nat \ {0} BY <1>2, <2>4
    <3> QED BY <2>1, <3>1
  <2>5. m[j] + size(j) <= m[k] BY <1>2, <2>2, <2>3, <2>4
  <2> QED BY <1>12, <2>5
<1>25. file.header.registry_hash =
         [k \in DOMAIN records |->
           <<records[k].id, [s \in DOMAIN records[k].string_ids |-> h[records[k].string_ids[s]]],
             records[k].resolution,
             CHOOSE t \in MetaText(records[k].meta_offset, records[k].meta_bytes) : TRUE>>]
  <2> DEFINE read(k) == <<records[k].id, [s \in DOMAIN records[k].string_ids |-> h[records[k].string_ids[s]]],
                          records[k].resolution,
                          CHOOSE t \in MetaText(records[k].meta_offset, records[k].meta_bytes) : TRUE>>
  <2>1. ASSUME NEW k \in 1 .. n PROVE read(k) = said(k)
    <3>1. records[k].id = r[k].id /\ records[k].resolution = r[k].resolution BY <1>12, <1>19
    <3>2. records[k].string_ids = ids(k) BY <1>12, <1>19
    <3>3. [s \in DOMAIN records[k].string_ids |-> h[records[k].string_ids[s]]] = r[k].strings
      BY <1>15, <3>2, Zenon
    <3>4. records[k].meta_offset = m[k] /\ records[k].meta_bytes = size(k) BY <1>12, <1>19
    <3>5. MetaText(records[k].meta_offset, records[k].meta_bytes) = {r[k].metadata} BY <1>18, <3>4, Zenon
    <3>6. (CHOOSE t \in {r[k].metadata} : TRUE) = r[k].metadata OBVIOUS
    <3>7. (CHOOSE t \in MetaText(records[k].meta_offset, records[k].meta_bytes) : TRUE) = r[k].metadata
      BY <3>5, <3>6, Zenon
    <3> QED BY <3>1, <3>3, <3>7, Zenon
  <2> HIDE DEF read, said
  <2>2. [k \in 1 .. n |-> said(k)] = [k \in DOMAIN records |-> read(k)] BY <1>19, <2>1
  <2>3. file.header.registry_hash = [k \in DOMAIN records |-> read(k)] BY <1>7, <1>8, <2>2, Zenon
  <2> QED BY <2>3, Zenon DEF read
<1>26. \A d \in Range(records) :
         /\ Range(d.string_ids) \subseteq DOMAIN h
         /\ d.meta_bytes = 0 => d.meta_offset = 0
         /\ d.meta_offset + d.meta_bytes <= MetaChunk.size
         /\ MetaText(d.meta_offset, d.meta_bytes) # {}
  BY <1>21, <1>23
<1>27. \A d, e \in Range(records) : d.meta_offset < e.meta_offset => d.meta_offset + d.meta_bytes <= e.meta_offset
  BY <1>21, <1>24
<1>28. file.header.database_id = file.header.registry_hash BY <1>7
<1>29. FindChunk(DSET).size = DatasetRecord * file.header.dataset_count BY <1>7, <1>9
<1>30. h = FindChunk(STRS).holds BY <1>3 DEF h
<1> DEFINE texts == FindChunk(STRS).holds
<1>31. FindChunk(META).size = MetaChunk.size BY <1>3
<1>32. \A d \in Range(records) :
         /\ Range(d.string_ids) \subseteq DOMAIN texts
         /\ d.meta_bytes = 0 => d.meta_offset = 0
         /\ d.meta_offset + d.meta_bytes <= FindChunk(META).size
         /\ MetaText(d.meta_offset, d.meta_bytes) # {}
  BY <1>26, <1>30, <1>31, Zenon
<1>33. file.header.registry_hash =
         [k \in DOMAIN records |->
           <<records[k].id, [s \in DOMAIN records[k].string_ids |-> texts[records[k].string_ids[s]]],
             records[k].resolution,
             CHOOSE t \in MetaText(records[k].meta_offset, records[k].meta_bytes) : TRUE>>]
  <2> DEFINE readWith(g) ==
               [k \in DOMAIN records |->
                 <<records[k].id, [s \in DOMAIN records[k].string_ids |-> g[records[k].string_ids[s]]],
                   records[k].resolution,
                   CHOOSE t \in MetaText(records[k].meta_offset, records[k].meta_bytes) : TRUE>>]
  <2>1. file.header.registry_hash = readWith(h) BY <1>25, Zenon
  <2> HIDE DEF readWith
  <2>2. file.header.registry_hash = readWith(texts) BY <1>30, <2>1, Zenon
  <2> QED BY <2>2, Zenon DEF readWith
<1> QED BY <1>22, <1>27, <1>28, <1>29, <1>32, <1>33, Zenon DEF DatasetsAccepted, records

-----------------------------------------------------------------------------
(* The palette *)

\* One of the values is the first of the largest.
LEMMA FirstLargestExists ==
  ASSUME NEW n \in Nat \ {0}, NEW v \in [1 .. n -> Nat]
  PROVE  FirstLargest(v) \in 1 .. n
<1> DEFINE V == {v[k] : k \in 1 .. n}
           Larger(k, j) == v[k] > v[j] \/ (v[k] = v[j] /\ k <= j)
<1>1. IsFiniteSet(V)
  <2>1. IsFiniteSet(1 .. n) BY FS_Interval
  <2>2. v \in Surjection(1 .. n, V) BY DEF Surjection
  <2> HIDE DEF V
  <2> QED BY <2>1, <2>2, FS_Surjection
<1>2. V \in SUBSET Nat /\ V # {}
  <2>1. 1 \in 1 .. n OBVIOUS
  <2>2. v[1] \in V BY <2>1
  <2> QED BY <2>2
<1>3. \A k \in 1 .. n : v[k] \in V OBVIOUS
<1>4. \A x \in V : \E k \in 1 .. n : v[k] = x OBVIOUS
<1> HIDE DEF V
<1>5. PICK most \in V : \A x \in V : x <= most BY <1>1, <1>2, Extremes
<1> DEFINE S == {k \in 1 .. n : v[k] = most}
<1>6. S \in SUBSET Nat /\ S # {} BY <1>4
<1>7. PICK least \in S : \A k \in S : least <= k
  <2> HIDE DEF S
  <2> QED BY <1>6, LeastNatural
<1>8. ASSUME NEW j \in 1 .. n PROVE Larger(least, j)
  <2>1. v[least] = most /\ v[j] <= most /\ v[j] \in Nat /\ most \in Nat BY <1>2, <1>3, <1>5
  <2>2. v[j] = most => least <= j BY <1>7
  <2> QED BY <2>1, <2>2
<1>9. least \in 1 .. n OBVIOUS
<1>10. DOMAIN v = 1 .. n OBVIOUS
<1>11. FirstLargest(v) = CHOOSE k \in 1 .. n : \A j \in 1 .. n : Larger(k, j)
  BY <1>10, Zenon DEF FirstLargest
<1> HIDE DEF Larger
<1> QED BY <1>8, <1>9, <1>11

-----------------------------------------------------------------------------
(* Division *)

LEMMA DivMod ==
  ASSUME NEW a \in Nat, NEW d \in Nat \ {0}
  PROVE  /\ a \div d \in Nat /\ a % d \in Nat /\ a % d < d
         /\ a = ((a \div d) * d) + (a % d)
  OBVIOUS

LEMMA Monotone ==
  ASSUME NEW d \in Nat, NEW a \in Nat, NEW b \in Nat, a <= b
  PROVE  a * d \in Nat /\ b * d \in Nat /\ a * d <= b * d
  OBVIOUS

\* There is one quotient and one remainder.
LEMMA DivUnique ==
  ASSUME NEW d \in Nat \ {0}, NEW q \in Nat, NEW r \in Nat, r < d
  PROVE  (q * d + r) \div d = q /\ (q * d + r) % d = r
<1> DEFINE a == q * d + r
           p == a \div d
<1>1. a \in Nat OBVIOUS
<1>2. p \in Nat /\ a % d \in Nat /\ a % d < d /\ a = p * d + (a % d) BY <1>1, DivMod
<1>3. p * d \in Nat /\ q * d \in Nat BY <1>2
<1>4. CASE p < q
  <2>1. (p + 1) * d <= q * d BY <1>2, <1>4, Monotone
  <2>2. (p + 1) * d = p * d + d BY <1>2
  <2> QED BY <1>2, <1>3, <2>1, <2>2
<1>5. CASE q < p
  <2>1. (q + 1) * d <= p * d BY <1>2, <1>5, Monotone
  <2>2. (q + 1) * d = q * d + d BY <1>2
  <2> QED BY <1>2, <1>3, <2>1, <2>2
<1>6. CASE p = q
  <2> QED BY <1>2, <1>3, <1>6
<1> QED BY <1>2, <1>4, <1>5, <1>6

\* A factor of both numbers does not change their quotient.
LEMMA DivCancels ==
  ASSUME NEW a \in Nat, NEW b \in Nat \ {0}, NEW u \in Nat \ {0}
  PROVE  (a * u) \div (b * u) = a \div b
<1> DEFINE q == a \div b
           r == a % b
<1>1. q \in Nat /\ r \in Nat /\ r < b /\ a = q * b + r BY DivMod
<1> HIDE DEF q, r
<1>2. a * u = q * (b * u) + r * u BY <1>1
<1>3. r * u \in Nat /\ b * u \in Nat \ {0} /\ r * u < b * u
  <2>1. (r + 1) * u <= b * u BY <1>1, Monotone
  <2>2. (r + 1) * u = r * u + u BY <1>1
  <2>3. r * u \in Nat /\ b * u \in Nat BY <1>1
  <2> QED BY <2>1, <2>2, <2>3
<1>4. (q * (b * u) + r * u) \div (b * u) = q BY <1>1, <1>3, DivUnique
<1> QED BY <1>2, <1>4 DEF q

\* Half of the remainder more or less decides, and nothing is lost of a multiple.
LEMMA HalfEvenNear ==
  ASSUME NEW n \in Nat, NEW d \in Nat \ {0}
  PROVE  LET h == HalfEven(n, d)
         IN  /\ h \in Nat
             /\ 2 * (h * d) <= 2 * n + d /\ 2 * n <= 2 * (h * d) + d
             /\ \A c \in Nat : n <= c * d => h <= c
             /\ \A c \in Nat : n = c * d => h = c
<1> DEFINE q == n \div d
           r == n % d
           h == HalfEven(n, d)
<1>1. q \in Nat /\ r \in Nat /\ r < d /\ n = q * d + r BY DivMod
<1>2. h = IF 2 * r < d \/ (2 * r = d /\ q % 2 = 0) THEN q ELSE q + 1 BY DEF HalfEven
<1> HIDE DEF q, r, h
<1>3. q * d \in Nat /\ (q + 1) * d = q * d + d BY <1>1
<1>4. \/ h = q /\ 2 * r <= d /\ h * d = q * d
      \/ h = q + 1 /\ 2 * r >= d /\ h * d = q * d + d
  BY <1>1, <1>2, <1>3
<1>5. h \in Nat /\ 2 * (h * d) <= 2 * n + d /\ 2 * n <= 2 * (h * d) + d BY <1>1, <1>3, <1>4
<1>6. ASSUME NEW c \in Nat, n <= c * d PROVE h <= c
  <2>1. CASE q < c BY <1>1, <1>4, <2>1
  <2>2. CASE c < q
    <3>1. (c + 1) * d <= q * d BY <1>1, <2>2, Monotone
    <3>2. (c + 1) * d = c * d + d /\ c * d \in Nat OBVIOUS
    <3> QED BY <1>1, <1>3, <1>6, <3>1, <3>2
  <2>3. CASE c = q
    <3>1. r = 0 BY <1>1, <1>3, <1>6, <2>3
    <3> QED BY <1>4, <2>3, <3>1
  <2> QED BY <1>1, <2>1, <2>2, <2>3
<1>7. ASSUME NEW c \in Nat, n = c * d PROVE h = c
  <2>1. c = q /\ r = 0
    <3>1. (c * d + 0) \div d = c /\ (c * d + 0) % d = 0 BY DivUnique
    <3>2. c * d + 0 = n BY <1>7
    <3> QED BY <3>1, <3>2 DEF q, r
  <2> QED BY <1>4, <2>1
<1> QED BY <1>5, <1>6, <1>7 DEF h

-----------------------------------------------------------------------------
(* The steps between floats *)

LEMMA FormatKnown ==
  /\ Core \in Nat \ {0} /\ MapSide \in Nat \ {0} /\ Codes \in Nat \ {0} /\ ByteValues \in Nat \ {0}
  /\ Unit \in Nat \ {0} /\ Millimeters \in Nat \ {0}
  /\ Precision \in Nat /\ ScaleDigits \in Nat /\ Tolerance \in Nat /\ ScaleDigits >= 3
  /\ Scale <= Tolerance * Precision
  /\ ByteValues * ByteValues <= Precision /\ 4 * Codes < Precision
BY FormatAssumption

LEMMA Powers ==
  /\ TwoTo \in [0 .. ScaleDigits -> Nat \ {0}] /\ TwoTo[0] = 1
  /\ \A k \in 1 .. ScaleDigits : TwoTo[k] = 2 * TwoTo[k - 1]
<1> DEFINE top == ScaleDigits
           step == [p \in (1 .. top) \X Nat |-> 2 * p[2]]
<1>1. top \in Nat BY FormatKnown
<1> HIDE DEF top
<1>2. step \in [(1 .. top) \X Nat -> Nat]
  <2>1. \A p \in (1 .. top) \X Nat : p[2] \in Nat OBVIOUS
  <2>2. \A p \in (1 .. top) \X Nat : 2 * p[2] \in Nat BY <2>1
  <2> QED BY <2>2
<1>3. \A k \in 1 .. top, m \in Nat : step[<<k, m>>] = 2 * m OBVIOUS
<1> HIDE DEF step
<1>4. PICK f : Follows(f, 1, step, top) BY <1>1, <1>2, Stepwise
<1> DEFINE g == [k \in 0 .. top |-> f[k + 1]]
<1>5. f \in [1 .. top + 1 -> Nat] /\ f[1] = 1 /\ \A k \in 1 .. top : f[k + 1] = 2 * f[k]
  <2>1. f \in [1 .. top + 1 -> Nat] /\ f[1] = 1 /\ \A k \in 1 .. top : f[k + 1] = step[<<k, f[k]>>]
    BY <1>4 DEF Follows
  <2>2. \A k \in 1 .. top : f[k] \in Nat BY <1>1, <2>1
  <2> QED BY <1>3, <2>1, <2>2
<1>6. g = [k \in 0 .. top |-> IF k = 0 THEN 1 ELSE 2 * g[k - 1]]
  <2>1. ASSUME NEW k \in 0 .. top, k # 0 PROVE f[k + 1] = 2 * g[k - 1]
    <3>1. k \in 1 .. top /\ k - 1 \in 0 .. top /\ (k - 1) + 1 = k BY <1>1, <2>1
    <3> QED BY <1>5, <3>1
  <2>2. f[0 + 1] = 1 BY <1>5
  <2> QED BY <2>1, <2>2
<1> HIDE DEF g
<1>7. TwoTo = [k \in 0 .. top |-> IF k = 0 THEN 1 ELSE 2 * TwoTo[k - 1]] BY <1>6, Zenon DEF TwoTo, top
<1>8. DOMAIN TwoTo = 0 .. top /\ TwoTo[0] = 1 /\ \A k \in 1 .. top : TwoTo[k] = 2 * TwoTo[k - 1]
  <2>1. 0 \in 0 .. top /\ \A k \in 1 .. top : k \in 0 .. top /\ k # 0 BY <1>1
  <2> QED BY <1>7, <2>1
<1> DEFINE S == {k \in Nat : k <= top => TwoTo[k] \in Nat \ {0}}
<1>9. S = Nat
  <2>1. 0 \in S BY <1>8
  <2>2. ASSUME NEW k \in S PROVE k + 1 \in S
    <3> SUFFICES ASSUME k + 1 <= top PROVE TwoTo[k + 1] \in Nat \ {0}
      OBVIOUS
    <3>1. k + 1 \in 1 .. top /\ (k + 1) - 1 = k BY <1>1
    <3>2. TwoTo[k + 1] = 2 * TwoTo[k] BY <1>8, <3>1
    <3>3. TwoTo[k] \in Nat \ {0} BY <1>1
    <3> QED BY <3>2, <3>3
  <2>3. S \in SUBSET Nat OBVIOUS
  <2> HIDE DEF S
  <2> QED BY <2>1, <2>2, <2>3, Induction
<1>10. \A k \in 0 .. top : TwoTo[k] \in Nat \ {0} BY <1>1, <1>9
<1>11. TwoTo = [k \in 0 .. top |-> TwoTo[k]] BY <1>7, <1>8
<1> QED BY <1>8, <1>10, <1>11 DEF top

\* Larger powers are multiples of the smaller ones.
LEMMA PowersDivide ==
  ASSUME NEW j \in 0 .. ScaleDigits, NEW k \in 0 .. ScaleDigits, j <= k
  PROVE  \E c \in Nat \ {0} : TwoTo[k] = c * TwoTo[j]
<1> DEFINE S == {m \in Nat : j + m <= ScaleDigits => \E c \in Nat \ {0} : TwoTo[j + m] = c * TwoTo[j]}
<1>0. ScaleDigits \in Nat /\ j \in Nat /\ k \in Nat BY FormatKnown
<1>1. TwoTo[j] \in Nat \ {0} BY Powers
<1>2. 0 \in S
  <2>1. TwoTo[j + 0] = 1 * TwoTo[j] BY <1>0, <1>1
  <2> QED BY <2>1
<1>3. ASSUME NEW m \in S PROVE m + 1 \in S
  <2> SUFFICES ASSUME j + (m + 1) <= ScaleDigits
               PROVE  \E c \in Nat \ {0} : TwoTo[j + (m + 1)] = c * TwoTo[j]
    OBVIOUS
  <2>1. j + m <= ScaleDigits /\ j + (m + 1) \in 1 .. ScaleDigits /\ (j + (m + 1)) - 1 = j + m BY <1>0
  <2>2. PICK c \in Nat \ {0} : TwoTo[j + m] = c * TwoTo[j] BY <2>1
  <2>3. TwoTo[j + (m + 1)] = 2 * (c * TwoTo[j])
    <3>1. TwoTo[j + (m + 1)] = 2 * TwoTo[(j + (m + 1)) - 1] BY <2>1, Powers
    <3> QED BY <2>1, <2>2, <3>1
  <2>4. 2 * (c * TwoTo[j]) = (2 * c) * TwoTo[j] BY <1>1
  <2>5. 2 * c \in Nat \ {0} OBVIOUS
  <2> QED BY <2>3, <2>4, <2>5
<1>4. S \in SUBSET Nat OBVIOUS
<1> HIDE DEF S
<1>5. S = Nat BY <1>2, <1>3, <1>4, Induction
<1>6. k - j \in S BY <1>0, <1>5
<1>7. j + (k - j) = k BY <1>0
<1> QED BY <1>0, <1>6, <1>7 DEF S

\* The step between floats of a size is a power of two; half of it is too fine.
LEMMA StepKnown ==
  ASSUME NEW quantity \in Nat, quantity < Scale * Precision
  PROVE  \E k \in 0 .. ScaleDigits :
           /\ StepOf(quantity) = TwoTo[k] /\ TwoTo[k] * Precision > quantity
           /\ k > 0 => TwoTo[k - 1] * Precision <= quantity
<1> DEFINE fine == {step \in Range(TwoTo) : step * Precision > quantity}
           S == {k \in 0 .. ScaleDigits : TwoTo[k] * Precision > quantity}
<1>1. ScaleDigits \in 0 .. ScaleDigits /\ ScaleDigits \in Nat /\ Precision \in Nat BY FormatKnown
<1>2. TwoTo \in [0 .. ScaleDigits -> Nat \ {0}] BY Powers
<1>3. S \in SUBSET Nat /\ S # {}
  <2>1. ScaleDigits \in S BY <1>1 DEF Scale
  <2> QED BY <1>1, <2>1
<1>4. PICK k \in S : \A j \in S : k <= j
  <2> HIDE DEF S
  <2> QED BY <1>3, LeastNatural
<1>5. k \in 0 .. ScaleDigits /\ TwoTo[k] * Precision > quantity OBVIOUS
<1>6. \A s \in fine : \E j \in S : s = TwoTo[j]
  <2> SUFFICES ASSUME NEW s \in fine PROVE \E j \in S : s = TwoTo[j]
    OBVIOUS
  <2>1. PICK j \in 0 .. ScaleDigits : s = TwoTo[j] BY <1>2 DEF Range
  <2> QED BY <2>1
<1>7. \A s \in fine : TwoTo[k] <= s
  <2> SUFFICES ASSUME NEW s \in fine PROVE TwoTo[k] <= s
    OBVIOUS
  <2>1. PICK j \in S : s = TwoTo[j] BY <1>6
  <2>2. k <= j /\ j \in 0 .. ScaleDigits BY <1>4
  <2>3. PICK c \in Nat \ {0} : TwoTo[j] = c * TwoTo[k] BY <1>5, <2>2, PowersDivide
  <2>4. TwoTo[k] \in Nat BY <1>2, <1>5
  <2>5. 1 * TwoTo[k] <= c * TwoTo[k] BY <2>4, Monotone
  <2> QED BY <2>1, <2>3, <2>4, <2>5
<1>8. TwoTo[k] \in fine BY <1>2, <1>5 DEF Range
<1>9. fine \in SUBSET Nat BY <1>2 DEF Range
<1>10. StepOf(quantity) = TwoTo[k]
  <2> DEFINE step == CHOOSE step \in fine : \A other \in fine : step <= other
  <2>1. StepOf(quantity) = step BY DEF StepOf
  <2> HIDE DEF fine
  <2>2. step \in fine /\ \A other \in fine : step <= other BY <1>7, <1>8
  <2>3. step <= TwoTo[k] /\ TwoTo[k] <= step BY <1>7, <1>8, <2>2
  <2>4. step \in Nat /\ TwoTo[k] \in Nat BY <1>8, <1>9, <2>2
  <2> HIDE DEF step
  <2> QED BY <2>1, <2>3, <2>4
<1>11. ASSUME k > 0 PROVE TwoTo[k - 1] * Precision <= quantity
  <2>1. k - 1 \in 0 .. ScaleDigits /\ ~(k <= k - 1) BY <1>1, <1>5, <1>11
  <2>2. k - 1 \notin S BY <1>4, <2>1
  <2>3. ~(TwoTo[k - 1] * Precision > quantity) BY <2>1, <2>2
  <2>4. TwoTo[k - 1] * Precision \in Nat
    <3>1. TwoTo[k - 1] \in Nat BY <1>2, <2>1
    <3> QED BY <1>1, <3>1
  <2> QED BY <2>3, <2>4
<1> QED BY <1>5, <1>10, <1>11

-----------------------------------------------------------------------------
(* Floats of the payload *)

\* A difference of elevations is a float, and comes back to the millimeters that
\* the index has.
LEMMA ErrorExact ==
  ASSUME NEW error \in 0 .. 4 * Codes
  PROVE  HalfUp(FloatOf(error, 8) * Millimeters, Scale) = HalfUp(error * Millimeters, 8)
<1> DEFINE u == TwoTo[ScaleDigits - 3]
           mm == Millimeters
<1>1. /\ Codes \in Nat /\ Precision \in Nat /\ 4 * Codes < Precision
      /\ ScaleDigits \in Nat /\ ScaleDigits >= 3 /\ mm \in Nat
  BY FormatKnown
<1>2. /\ TwoTo \in [0 .. ScaleDigits -> Nat \ {0}] /\ TwoTo[0] = 1
      /\ \A k \in 1 .. ScaleDigits : TwoTo[k] = 2 * TwoTo[k - 1]
  BY Powers
<1>3. ScaleDigits - 3 \in 0 .. ScaleDigits BY <1>1
<1>4. u \in Nat \ {0} BY <1>2, <1>3
<1>5. Scale = 8 * u
  <2>1. /\ ScaleDigits \in 1 .. ScaleDigits /\ ScaleDigits - 1 \in 1 .. ScaleDigits
        /\ ScaleDigits - 2 \in 1 .. ScaleDigits
        /\ (ScaleDigits - 1) - 1 = ScaleDigits - 2 /\ (ScaleDigits - 2) - 1 = ScaleDigits - 3
    BY <1>1
  <2>2. TwoTo[ScaleDigits] = 2 * TwoTo[ScaleDigits - 1] BY <1>2, <2>1
  <2>3. TwoTo[ScaleDigits - 1] = 2 * TwoTo[ScaleDigits - 2] BY <1>2, <2>1
  <2>4. TwoTo[ScaleDigits - 2] = 2 * u BY <1>2, <2>1
  <2> HIDE DEF u
  <2> QED BY <1>4, <2>2, <2>3, <2>4 DEF Scale
<1> HIDE DEF u, mm
<1>6. error \in Nat /\ error < Precision BY <1>1
<1> DEFINE n == error * Scale
           q == error * u
<1>7. n \in Nat /\ q \in Nat /\ n = q * 8 + 0 BY <1>4, <1>5, <1>6
<1>8. n \div 8 = q
  <2>1. (q * 8 + 0) \div 8 = q BY <1>7, DivUnique
  <2> QED BY <1>7, <2>1
<1> HIDE DEF n
<1>9. q < Scale * Precision
  <2>1. error * u <= Precision * u /\ Precision * u \in Nat BY <1>1, <1>4, <1>6, Monotone
  <2>2. Scale * Precision = 8 * (Precision * u) BY <1>1, <1>4, <1>5
  <2>3. Precision * u > 0
    <3>1. Precision \in Nat \ {0} BY <1>1, <1>6
    <3> QED BY <1>4, <3>1
  <2>4. q <= Precision * u BY <2>1
  <2> HIDE DEF q
  <2> QED BY <1>7, <2>1, <2>2, <2>3, <2>4
<1>10. PICK k \in 0 .. ScaleDigits :
         /\ StepOf(q) = TwoTo[k] /\ TwoTo[k] * Precision > q
         /\ k > 0 => TwoTo[k - 1] * Precision <= q
  <2> HIDE DEF q
  <2> QED BY <1>7, <1>9, StepKnown
<1>11. k <= ScaleDigits - 3
  <2>1. CASE k = 0 BY <1>1, <2>1
  <2>2. CASE k > 0
    <3>1. k - 1 \in 0 .. ScaleDigits BY <1>1, <2>2
    <3>2. TwoTo[k - 1] \in Nat \ {0} BY <1>2, <3>1
    <3>3. ASSUME ScaleDigits - 3 <= k - 1 PROVE FALSE
      <4>1. PICK c \in Nat \ {0} : TwoTo[k - 1] = c * TwoTo[ScaleDigits - 3]
        BY <1>3, <3>1, <3>3, PowersDivide
      <4>2. 1 * u <= c * u /\ c * u \in Nat BY <1>4, Monotone
      <4>3. u <= TwoTo[k - 1] BY <1>4, <4>1, <4>2 DEF u
      <4>4. u * Precision <= TwoTo[k - 1] * Precision /\ u * Precision \in Nat
        BY <1>1, <1>4, <3>2, <4>3, Monotone
      <4>5. u * Precision <= q
        <5> HIDE DEF q
        <5>1. TwoTo[k - 1] * Precision <= q BY <1>10, <2>2
        <5>2. TwoTo[k - 1] * Precision \in Nat BY <1>1, <3>2
        <5> QED BY <1>7, <4>4, <5>1, <5>2
      <4>6. (error + 1) * u <= Precision * u BY <1>1, <1>4, <1>6, Monotone
      <4>7. (error + 1) * u = q + u /\ Precision * u = u * Precision BY <1>1, <1>4, <1>6
      <4> HIDE DEF q
      <4> QED BY <1>1, <1>4, <1>7, <4>4, <4>5, <4>6, <4>7
    <3> QED BY <1>1, <2>2, <3>3
  <2> QED BY <1>1, <2>1, <2>2
<1>12. PICK c \in Nat \ {0} : u = c * TwoTo[k] BY <1>3, <1>11, PowersDivide DEF u
<1> DEFINE step == TwoTo[k]
<1>13. step \in Nat \ {0} /\ 8 * step \in Nat \ {0} BY <1>2
<1>14. StepOf(n \div 8) = step BY <1>8, <1>10
<1> HIDE DEF step
<1>15. n = (error * c) * (8 * step) /\ error * c \in Nat
  <2>1. n = (error * (c * step)) * 8 BY <1>7, <1>12 DEF step
  <2>2. error * (c * step) = (error * c) * step BY <1>6, <1>13
  <2>3. ((error * c) * step) * 8 = (error * c) * (8 * step) BY <1>6, <1>13
  <2> QED BY <1>6, <2>1, <2>2, <2>3
<1>16. HalfEven(n, 8 * step) = error * c BY <1>7, <1>13, <1>15, HalfEvenNear
<1>17. FloatOf(error, 8) = q
  <2>1. Magnitude(n, 8) = HalfEven(n, 8 * step) * step BY <1>14 DEF Magnitude
  <2>2. Nearest(n, 8) = Magnitude(n, 8) BY <1>7 DEF Nearest
  <2>3. FloatOf(error, 8) = Nearest(n, 8) BY DEF FloatOf, n
  <2>4. (error * c) * step = error * (c * step) BY <1>6, <1>13
  <2>5. c * step = u BY <1>12 DEF step
  <2> QED BY <1>16, <2>1, <2>2, <2>3, <2>4, <2>5
<1>18. HalfUp(q * mm, Scale) = HalfUp(error * mm, 8)
  <2> DEFINE a == 2 * (error * mm) + 8
  <2>1. error * mm \in Nat /\ a \in Nat BY <1>1, <1>6
  <2>2. q * mm = (error * mm) * u BY <1>1, <1>4, <1>6
  <2>3. 2 * (q * mm) + Scale = a * u
    <3>1. 2 * ((error * mm) * u) + 8 * u = a * u BY <1>4, <2>1
    <3> QED BY <1>5, <2>2, <3>1
  <2>4. 2 * Scale = 16 * u BY <1>4, <1>5
  <2> HIDE DEF a, q
  <2>5. (a * u) \div (16 * u) = a \div 16 BY <1>4, <2>1, DivCancels
  <2>6. HalfUp(q * mm, Scale) = (2 * (q * mm) + Scale) \div (2 * Scale) BY DEF HalfUp
  <2>7. HalfUp(error * mm, 8) = a \div 16 BY DEF HalfUp, a
  <2> QED BY <2>3, <2>4, <2>5, <2>6, <2>7
<1> QED BY <1>17, <1>18 DEF mm

\* Rounding does not make more than everything of a share.
LEMMA ShareBounded ==
  ASSUME NEW whole \in Nat \ {0}, NEW part \in 0 .. whole
  PROVE  FloatOf(part, whole) \in 0 .. Scale
<1>1. Precision \in Nat /\ Precision >= 2 /\ ScaleDigits \in Nat
  <2>1. 4 * Codes < Precision /\ Codes \in Nat \ {0} /\ Precision \in Nat BY FormatKnown
  <2> QED BY <2>1, FormatKnown
<1>2. Scale \in Nat \ {0} /\ ScaleDigits \in 0 .. ScaleDigits BY <1>1, Powers DEF Scale
<1> DEFINE n == part * Scale
           q == n \div whole
<1>3. part \in Nat /\ n \in Nat /\ n <= Scale * whole /\ Scale * whole \in Nat
  <2>1. part * Scale <= whole * Scale BY <1>2, Monotone
  <2>2. whole * Scale = Scale * whole /\ Scale * whole \in Nat BY <1>2
  <2> QED BY <1>2, <2>1, <2>2
<1> HIDE DEF n
<1>4. q \in Nat /\ q <= Scale
  <2>1. q \in Nat /\ n % whole \in Nat /\ n = (q * whole) + (n % whole) BY <1>3, DivMod
  <2> HIDE DEF q
  <2>2. ASSUME Scale < q PROVE FALSE
    <3>1. (Scale + 1) * whole <= q * whole /\ q * whole \in Nat BY <1>2, <2>1, <2>2, Monotone
    <3>2. (Scale + 1) * whole = Scale * whole + whole BY <1>2
    <3> QED BY <1>3, <2>1, <3>1, <3>2
  <2> QED BY <1>2, <2>1, <2>2
<1>5. q < Scale * Precision
  <2>1. 2 * Scale <= Precision * Scale /\ Precision * Scale \in Nat BY <1>1, <1>2, Monotone
  <2>2. Precision * Scale = Scale * Precision BY <1>1, <1>2
  <2> QED BY <1>2, <1>4, <2>1, <2>2
<1>6. PICK k \in 0 .. ScaleDigits : StepOf(q) = TwoTo[k]
  <2> HIDE DEF q
  <2> QED BY <1>4, <1>5, StepKnown
<1> DEFINE step == TwoTo[k]
           h == HalfEven(n, whole * step)
<1>7. step \in Nat \ {0} /\ whole * step \in Nat \ {0} BY Powers
<1>8. PICK c \in Nat \ {0} : Scale = c * step
  <2>1. k <= ScaleDigits BY <1>1
  <2> QED BY <1>2, <2>1, PowersDivide DEF Scale
<1> HIDE DEF step
<1>9. h \in Nat /\ h <= c
  <2>1. Scale * whole = c * (whole * step) BY <1>7, <1>8
  <2>2. n <= c * (whole * step) BY <1>3, <2>1
  <2> QED BY <1>3, <1>7, <2>2, HalfEvenNear
<1>10. FloatOf(part, whole) = h * step
  <2>1. FloatOf(part, whole) = Nearest(n, whole) BY DEF FloatOf, n
  <2>2. Nearest(n, whole) = Magnitude(n, whole) BY <1>3 DEF Nearest
  <2> QED BY <1>6, <2>1, <2>2 DEF Magnitude, step
<1> HIDE DEF h
<1>11. h * step \in Nat /\ h * step <= c * step BY <1>7, <1>9, Monotone
<1> QED BY <1>2, <1>8, <1>10, <1>11

\* What the other shares leave to the last one, when that is not less than nothing.
LEMMA RestBounded ==
  ASSUME NEW rest \in Int, rest <= Scale, -rest < Scale * Precision, Nearest(rest, 1) >= 0
  PROVE  /\ Nearest(rest, 1) \in 0 .. Scale
         /\ Nearest(rest, 1) - rest <= Tolerance /\ rest - Nearest(rest, 1) <= Tolerance
<1>1. /\ Precision \in Nat /\ Precision >= 2 /\ ScaleDigits \in Nat /\ Tolerance \in Nat
      /\ Scale <= Tolerance * Precision
  <2>1. 4 * Codes < Precision /\ Codes \in Nat \ {0} /\ Precision \in Nat BY FormatKnown
  <2> QED BY <2>1, FormatKnown
<1>2. Scale \in Nat \ {0} /\ ScaleDigits \in 0 .. ScaleDigits BY <1>1, Powers DEF Scale
<1>3. Scale < Scale * Precision /\ Scale * Precision \in Nat
  <2>1. 2 * Scale <= Precision * Scale /\ Precision * Scale \in Nat BY <1>1, <1>2, Monotone
  <2>2. Precision * Scale = Scale * Precision BY <1>1, <1>2
  <2> QED BY <1>2, <2>1, <2>2
\* The step and the distance to the float.
<1>4. ASSUME NEW m \in Nat, m < Scale * Precision
      PROVE  \E h \in Nat, half \in Nat, k \in 0 .. ScaleDigits :
               /\ Magnitude(m, 1) = h * TwoTo[k]
               /\ \A c \in Nat : m <= c * TwoTo[k] => h <= c
               /\ h * TwoTo[k] - m <= half /\ m - h * TwoTo[k] <= half /\ half * Precision <= m
  <2>1. PICK k \in 0 .. ScaleDigits :
          /\ StepOf(m) = TwoTo[k] /\ TwoTo[k] * Precision > m
          /\ k > 0 => TwoTo[k - 1] * Precision <= m
    BY <1>4, StepKnown
  <2> DEFINE step == TwoTo[k]
             h == HalfEven(m, 1 * step)
  <2>2. step \in Nat \ {0} /\ 1 * step = step BY Powers
  <2>3. m \div 1 = m OBVIOUS
  <2>4. Magnitude(m, 1) = h * step BY <2>1, <2>3 DEF Magnitude
  <2>5. k = 0 => step = 1 BY Powers
  <2>6. k > 0 => step = 2 * TwoTo[k - 1] /\ TwoTo[k - 1] \in Nat
    <3> SUFFICES ASSUME k > 0 PROVE step = 2 * TwoTo[k - 1] /\ TwoTo[k - 1] \in Nat
      OBVIOUS
    <3>1. k \in 1 .. ScaleDigits /\ k - 1 \in 0 .. ScaleDigits BY <1>1
    <3> QED BY <3>1, Powers
  <2> HIDE DEF step
  <2>7. /\ h \in Nat /\ 2 * (h * step) <= 2 * m + step /\ 2 * m <= 2 * (h * step) + step
        /\ \A c \in Nat : m <= c * step => h <= c
    BY <2>2, HalfEvenNear
  <2> HIDE DEF h
  <2>8. h * step \in Nat BY <2>2, <2>7
  <2>9. CASE k = 0
    <3>1. h * step - m <= 0 /\ m - h * step <= 0 BY <2>5, <2>7, <2>8, <2>9
    <3>2. 0 * Precision <= m BY <1>1
    <3> QED BY <2>4, <2>7, <3>1, <3>2 DEF step
  <2>10. CASE k > 0
    <3>1. h * step - m <= TwoTo[k - 1] /\ m - h * step <= TwoTo[k - 1] BY <2>6, <2>7, <2>8, <2>10
    <3> QED BY <2>1, <2>4, <2>6, <2>7, <2>10, <3>1 DEF step
  <2> QED BY <1>1, <2>9, <2>10
<1>5. CASE rest < 0
  <2> DEFINE m == -rest
  <2>1. m \in Nat /\ m > 0 /\ m < Scale * Precision BY <1>5
  <2>2. Nearest(rest, 1) = -Magnitude(m, 1) BY <1>5 DEF Nearest
  <2> HIDE DEF m
  <2>3. PICK h \in Nat, half \in Nat, k \in 0 .. ScaleDigits :
          /\ Magnitude(m, 1) = h * TwoTo[k]
          /\ m - h * TwoTo[k] <= half /\ half * Precision <= m
    BY <1>4, <2>1
  <2>4. h * TwoTo[k] \in Nat
    <3>1. TwoTo[k] \in Nat BY Powers
    <3> QED BY <3>1
  <2>5. h * TwoTo[k] = 0 BY <2>2, <2>3, <2>4
  <2>6. m <= half BY <2>1, <2>3, <2>5
  <2>7. 2 * half <= Precision * half /\ Precision * half \in Nat BY <1>1, Monotone
  <2>8. Precision * half = half * Precision BY <1>1
  <2> QED BY <2>1, <2>3, <2>6, <2>7, <2>8
<1>6. CASE rest >= 0
  <2>1. rest \in Nat /\ rest < Scale * Precision BY <1>2, <1>3, <1>6
  <2>2. PICK h \in Nat, half \in Nat, k \in 0 .. ScaleDigits :
          /\ Magnitude(rest, 1) = h * TwoTo[k]
          /\ \A c \in Nat : rest <= c * TwoTo[k] => h <= c
          /\ h * TwoTo[k] - rest <= half /\ rest - h * TwoTo[k] <= half /\ half * Precision <= rest
    BY <1>4, <2>1
  <2>3. Nearest(rest, 1) = h * TwoTo[k] BY <1>6, <2>2 DEF Nearest
  <2>4. PICK c \in Nat \ {0} : Scale = c * TwoTo[k]
    <3>1. k <= ScaleDigits BY <1>1
    <3> QED BY <1>2, <3>1, PowersDivide DEF Scale
  <2>5. TwoTo[k] \in Nat BY Powers
  <2>6. h * TwoTo[k] \in Nat /\ h * TwoTo[k] <= c * TwoTo[k]
    <3>1. h <= c BY <2>2, <2>4
    <3> QED BY <2>5, <3>1, Monotone
  <2>7. half <= Tolerance
    <3> SUFFICES ASSUME Tolerance < half PROVE FALSE
      BY <1>1
    <3>1. (Tolerance + 1) * Precision <= half * Precision /\ half * Precision \in Nat BY <1>1, Monotone
    <3>2. (Tolerance + 1) * Precision = Tolerance * Precision + Precision /\ Tolerance * Precision \in Nat
      BY <1>1
    <3>3. half * Precision <= Tolerance * Precision BY <1>1, <1>2, <2>1, <2>2, <3>1, <3>2
    <3> QED BY <1>1, <3>1, <3>2, <3>3
  <2>8. h * TwoTo[k] - rest <= Tolerance /\ rest - h * TwoTo[k] <= Tolerance
    BY <1>1, <2>1, <2>2, <2>6, <2>7
  <2> QED BY <2>3, <2>4, <2>6, <2>8
<1> QED BY <1>5, <1>6

-----------------------------------------------------------------------------
(* The summary of the sources *)

\* A sum of numbers that are no greater than u.
LEMMA SumBounded ==
  ASSUME NEW f, NEW S, IsFiniteSet(S), NEW u \in Nat, \A x \in S : f[x] \in 0 .. u
  PROVE  /\ SumFunctionOnSet(f, S) \in Nat /\ Cardinality(S) \in Nat
         /\ SumFunctionOnSet(f, S) <= Cardinality(S) * u
<1>1. \A x \in S : f[x] \in Nat OBVIOUS
<1>2. PICK g : Sums(f, S, g) /\ SumFunctionOnSet(f, S) = g[S] BY SumIsSum
<1>3. \A s \in SUBSET S : g[s] \in Nat BY <1>1, <1>2, SumsType
<1>4. \A s \in SUBSET S : IsFiniteSet(s) /\ Cardinality(s) \in Nat BY FS_Subset, FS_CardinalityType
<1> DEFINE K == {s \in SUBSET S : g[s] <= Cardinality(s) * u}
<1>5. {} \in K
  <2>1. g[{}] = 0 BY <1>2 DEF Sums, AddOne
  <2>2. Cardinality({}) = 0 BY FS_EmptySet
  <2> QED BY <2>1, <2>2
<1>6. ASSUME NEW s \in SUBSET S, s # {}, \A x \in s : s \ {x} \in K PROVE s \in K
  <2>1. PICK x \in s : TRUE BY <1>6
  <2>2. g[s] = f[x] + g[s \ {x}] BY <1>1, <1>2, SumsAnyOrder
  <2>3. g[s \ {x}] <= Cardinality(s \ {x}) * u BY <1>6
  <2>4. Cardinality(s \ {x}) = Cardinality(s) - 1 BY <1>4, FS_RemoveElement
  <2>5. (Cardinality(s) - 1) * u + u = Cardinality(s) * u /\ Cardinality(s) * u \in Nat BY <1>4
  <2>6. f[x] \in 0 .. u /\ g[s \ {x}] \in Nat /\ (Cardinality(s) - 1) * u \in Int BY <1>3, <1>4
  <2>7. g[s] <= Cardinality(s) * u BY <2>2, <2>3, <2>4, <2>5, <2>6
  <2> QED BY <2>7
<1>7. K \in SUBSET SUBSET S OBVIOUS
<1> HIDE DEF K
<1>8. K = SUBSET S BY <1>5, <1>6, <1>7, SubsetInduction
<1>9. g[S] <= Cardinality(S) * u BY <1>8 DEF K
<1> QED BY <1>2, <1>3, <1>4, <1>9

\* The blocks of the cells are samples of the core.
LEMMA BlocksInCore ==
  ASSUME NEW cell \in MapCells
  PROVE  BlockSamples(cell) \in SUBSET CoreSamples
<1>1. Core \in Nat \ {0} /\ MapSide \in Nat \ {0} BY FormatKnown
<1>2. Block \in Nat /\ Block * MapSide <= Core - 1
  <2>1. Core - 1 \in Nat BY <1>1
  <2>2. /\ Block \in Nat /\ (Core - 1) % MapSide \in Nat
        /\ Core - 1 = (Block * MapSide) + ((Core - 1) % MapSide)
    BY <1>1, <2>1, DivMod DEF Block
  <2>3. Block * MapSide \in Nat BY <1>1, <2>2
  <2> QED BY <2>2, <2>3
<1>3. ASSUME NEW c \in 0 .. MapSide - 1, NEW x \in 0 .. Block - 1 PROVE c * Block + x \in 0 .. Core - 1
  <2>1. c + 1 \in Nat /\ c + 1 <= MapSide BY <1>1
  <2>2. (c + 1) * Block <= MapSide * Block /\ MapSide * Block \in Nat BY <1>1, <1>2, <2>1, Monotone
  <2>3. (c + 1) * Block = c * Block + Block /\ c * Block \in Nat /\ MapSide * Block = Block * MapSide
    BY <1>1, <1>2
  <2> QED BY <1>1, <1>2, <2>2, <2>3
<1>4. cell[1] \in 0 .. MapSide - 1 /\ cell[2] \in 0 .. MapSide - 1 BY DEF MapCells
<1>5. ASSUME NEW x \in 0 .. Block - 1, NEW y \in 0 .. Block - 1
      PROVE  <<cell[1] * Block + x, cell[2] * Block + y>> \in CoreSamples
  BY <1>3, <1>4 DEF CoreSamples
<1> QED BY <1>5 DEF BlockSamples

\* The samples of a square.
LEMMA SquareCounted ==
  ASSUME NEW n \in Nat \ {0}
  PROVE  LET square == (0 .. n - 1) \X (0 .. n - 1)
         IN  IsFiniteSet(square) /\ Cardinality(square) = n * n /\ square # {}
<1> DEFINE I == 0 .. n - 1
<1>1. 0 \in Int /\ n - 1 \in Int OBVIOUS
<1>2. IsFiniteSet(I) /\ Cardinality(I) = IF 0 > n - 1 THEN 0 ELSE (n - 1) - 0 + 1
  BY <1>1, FS_Interval
<1>3. Cardinality(I) = n BY <1>2
<1>4. 0 \in I OBVIOUS
<1> HIDE DEF I
<1>5. IsFiniteSet(I \X I) /\ Cardinality(I \X I) = Cardinality(I) * Cardinality(I)
  BY <1>2, FS_Product
<1>6. Cardinality(I \X I) = n * n BY <1>3, <1>5
<1>7. <<0, 0>> \in I \X I BY <1>4
<1>8. I \X I # {} BY <1>7
<1> QED BY <1>5, <1>6, <1>8 DEF I

\* The whole of a tile is Unit at every sample of the core.
Whole == Core * Core * Unit

LEMMA TotalKnown ==
  ASSUME NEW content, NEW id \in Sources(content), NEW samples \in SUBSET CoreSamples,
         \A s \in CoreSamples : content.weights[s] \in [Sources(content) -> 0 .. Unit]
  PROVE  Whole \in Nat \ {0} /\ Total(content, id, samples) \in 0 .. Whole
<1>1. Core \in Nat \ {0} /\ Unit \in Nat \ {0} BY FormatKnown
<1>2. IsFiniteSet(CoreSamples) /\ Cardinality(CoreSamples) = Core * Core
  BY <1>1, SquareCounted DEF CoreSamples
<1>3. Core * Core \in Nat \ {0} /\ Whole \in Nat \ {0} BY <1>1 DEF Whole
<1>4. /\ IsFiniteSet(samples) /\ Cardinality(samples) \in Nat
      /\ Cardinality(samples) <= Core * Core
  <2>1. IsFiniteSet(samples) /\ Cardinality(samples) <= Cardinality(CoreSamples) BY <1>2, FS_Subset
  <2> QED BY <1>2, <2>1, FS_CardinalityType
<1> DEFINE w == [s \in samples |-> content.weights[s][id]]
<1>5. \A s \in samples : w[s] \in 0 .. Unit OBVIOUS
<1>6. DOMAIN w = samples OBVIOUS
<1>7. Total(content, id, samples) = SumFunction(w) BY DEF Total
<1> HIDE DEF w
<1>8. /\ SumFunctionOnSet(w, samples) \in Nat
      /\ SumFunctionOnSet(w, samples) <= Cardinality(samples) * Unit
  BY <1>1, <1>4, <1>5, SumBounded
<1>9. SumFunction(w) = SumFunctionOnSet(w, samples) BY <1>6, Zenon DEF SumFunction
<1>10. Cardinality(samples) * Unit <= (Core * Core) * Unit /\ Cardinality(samples) * Unit \in Nat
  BY <1>1, <1>3, <1>4, Monotone
<1>11. Whole = (Core * Core) * Unit BY <1>1 DEF Whole
<1> QED BY <1>3, <1>7, <1>8, <1>9, <1>10, <1>11

\* A tile that shows a source has a palette: with its identifiers in their order,
\* each with a part of the whole.
PaletteIs(content, n) ==
  /\ Palette(content) \in [1 .. n -> Sources(content) \cap Nat]
  /\ \A j, k \in 1 .. n : j < k => Palette(content)[j] < Palette(content)[k]
  /\ Whole \in Nat \ {0}
  /\ Totals(content, Palette(content), CoreSamples) \in [1 .. n -> 0 .. Whole]
  /\ \A cell \in MapCells :
       Totals(content, Palette(content), BlockSamples(cell)) \in [1 .. n -> Nat]

LEMMA PaletteSorted ==
  ASSUME NEW sources \in Seq(Dataset), NEW content, Fused(content, sources)
  PROVE  \E n \in Nat \ {0} : PaletteIs(content, n) /\ n < ByteValues * ByteValues
<1> DEFINE from == Sources(content)
           ids == {d.id : d \in Range(sources)}
           S == {id \in from : Total(content, id, CoreSamples) > 0}
           p == Palette(content)
<1>1. /\ from \subseteq ids
      /\ \A s \in CoreSamples : content.weights[s] \in [from -> 0 .. Unit]
      /\ \E id \in from : Total(content, id, CoreSamples) > 0
      /\ Len(p) < ByteValues * ByteValues
  BY DEF Fused
<1>2. IsFiniteSet(ids) /\ ids \in SUBSET Nat
  <2>1. sources \in [1 .. Len(sources) -> Dataset] /\ Len(sources) \in Nat BY LenProperties
  <2>2. IsFiniteSet(1 .. Len(sources)) BY <2>1, FS_Interval
  <2> DEFINE R == [k \in 1 .. Len(sources) |-> sources[k].id]
  <2>3. \A d \in Range(sources) : \E k \in 1 .. Len(sources) : d = sources[k] BY <2>1 DEF Range
  <2>4. \A k \in 1 .. Len(sources) : sources[k] \in Range(sources) BY <2>1 DEF Range
  <2>5. R \in [1 .. Len(sources) -> ids] BY <2>4
  <2>6. \A i \in ids : \E k \in 1 .. Len(sources) : R[k] = i
    <3> SUFFICES ASSUME NEW d \in Range(sources) PROVE \E k \in 1 .. Len(sources) : R[k] = d.id
      OBVIOUS
    <3>1. PICK k \in 1 .. Len(sources) : d = sources[k] BY <2>3
    <3> QED BY <3>1
  <2>7. \A d \in Range(sources) : d.id \in Nat
    <3>1. \A d \in Range(sources) : d \in Dataset BY RangeFinite
    <3> QED BY <3>1 DEF Dataset
  <2>8. ids \in SUBSET Nat BY <2>7
  <2> HIDE DEF R, ids
  <2>9. R \in Surjection(1 .. Len(sources), ids) BY <2>5, <2>6 DEF Surjection
  <2> QED BY <2>2, <2>8, <2>9, FS_Surjection
<1>3. ASSUME NEW id \in from, NEW samples \in SUBSET CoreSamples
      PROVE  Whole \in Nat \ {0} /\ Total(content, id, samples) \in 0 .. Whole
  BY <1>1, TotalKnown
<1> HIDE DEF ids, from
<1>4. IsFiniteSet(S) /\ S \in SUBSET Nat /\ S # {} /\ S \in SUBSET from
  <2>1. S \in SUBSET ids /\ S # {} /\ S \in SUBSET from BY <1>1
  <2> HIDE DEF S
  <2> QED BY <1>2, <2>1, FS_Subset
<1>5. Palette(content) = Ascending(S) BY DEF Palette, from
<1>6. Whole \in Nat \ {0}
  <2>1. PICK id \in from : TRUE BY <1>1
  <2> QED BY <1>3, <2>1
<1> HIDE DEF S
<1>7. /\ Cardinality(S) \in Nat /\ p \in [1 .. Cardinality(S) -> S]
      /\ \A j, k \in 1 .. Cardinality(S) : j < k => p[j] < p[k]
  BY <1>4, <1>5, AscendingSorts
<1>8. Cardinality(S) # 0 BY <1>4, FS_EmptySet
<1>9. PICK n \in Nat \ {0} : p \in [1 .. n -> from \cap Nat] /\ \A j, k \in 1 .. n : j < k => p[j] < p[k]
  <2>1. S \in SUBSET (from \cap Nat) BY <1>4
  <2>2. p \in [1 .. Cardinality(S) -> from \cap Nat] BY <1>7, <2>1
  <2> QED BY <1>7, <1>8, <2>2
<1> HIDE DEF p
<1>10. DOMAIN p = 1 .. n /\ Len(p) = n BY <1>9
<1>11. ASSUME NEW samples \in SUBSET CoreSamples PROVE Totals(content, p, samples) \in [1 .. n -> 0 .. Whole]
  <2>1. Totals(content, p, samples) = [k \in 1 .. n |-> Total(content, p[k], samples)]
    BY <1>10, Zenon DEF Totals
  <2>2. \A k \in 1 .. n : Total(content, p[k], samples) \in 0 .. Whole BY <1>3, <1>9
  <2> QED BY <2>1, <2>2
<1>12. Totals(content, p, CoreSamples) \in [1 .. n -> 0 .. Whole] BY <1>11
<1>13. ASSUME NEW cell \in MapCells PROVE Totals(content, p, BlockSamples(cell)) \in [1 .. n -> Nat]
  <2>1. Totals(content, p, BlockSamples(cell)) \in [1 .. n -> 0 .. Whole] BY <1>11, BlocksInCore
  <2>2. 0 .. Whole \in SUBSET Nat BY <1>6
  <2> QED BY <2>1, <2>2
<1>14. PaletteIs(content, n) BY <1>6, <1>9, <1>12, <1>13 DEF PaletteIs, p, from
<1> QED BY <1>1, <1>10, <1>14

\* The shares are parts of the whole and add up to it, but for the tolerance.
LEMMA SharesAdd ==
  ASSUME NEW n \in Nat \ {0}, n < ByteValues * ByteValues,
         Whole \in Nat \ {0}, NEW totals \in [1 .. n -> 0 .. Whole], Shares(totals)[Len(Shares(totals))] >= 0
  PROVE  LET shares == Shares(totals)
         IN  /\ shares \in [1 .. n -> 0 .. Scale]
             /\ SumFunction(shares) - Scale <= Tolerance /\ Scale - SumFunction(shares) <= Tolerance
<1> DEFINE m == n - 1
           rounded == [k \in 1 .. m |-> FloatOf(totals[k], Whole)]
           sum == SumFunction(rounded)
           last == Nearest(Scale - sum, 1)
           shares == Shares(totals)
<1>1. /\ Precision \in Nat /\ ByteValues \in Nat /\ ByteValues * ByteValues <= Precision
      /\ Tolerance \in Nat /\ ScaleDigits \in Nat
  BY FormatKnown
<1>2. Scale \in Nat \ {0}
  <2>1. ScaleDigits \in 0 .. ScaleDigits BY <1>1
  <2> QED BY <2>1, Powers DEF Scale
<1>3. m \in Nat /\ m < Precision /\ m + 1 = n
  <2>1. ByteValues * ByteValues \in Nat BY <1>1
  <2> QED BY <1>1, <2>1
<1>4. Len(totals) - 1 = m OBVIOUS
<1>5. shares = Append(rounded, last) BY <1>4, Zenon DEF Shares, Whole
<1> HIDE DEF m, shares, last
<1>6. rounded \in [1 .. m -> 0 .. Scale]
  <2>1. \A k \in 1 .. m : totals[k] \in 0 .. Whole BY <1>3
  <2>2. \A k \in 1 .. m : FloatOf(totals[k], Whole) \in 0 .. Scale BY <2>1, ShareBounded
  <2> QED BY <2>2
<1> HIDE DEF rounded
<1>7. IsFiniteSet(1 .. m) /\ Cardinality(1 .. m) = m
  <2>1. 1 \in Int /\ m \in Int BY <1>3
  <2> QED BY <1>3, <2>1, FS_Interval
<1>8. sum = SumFunctionOnSet(rounded, 1 .. m)
  <2>1. DOMAIN rounded = 1 .. m BY <1>6
  <2> QED BY <2>1, Zenon DEF SumFunction
<1> HIDE DEF sum
<1>9. sum \in Nat /\ sum <= m * Scale
  <2>1. \A k \in 1 .. m : rounded[k] \in 0 .. Scale BY <1>6
  <2> QED BY <1>2, <1>7, <1>8, <2>1, SumBounded
<1> DEFINE V == (0 .. Scale) \cup {last}
<1>10. rounded \in [1 .. m -> V] /\ last \in V BY <1>6
<1> HIDE DEF V
<1>11. shares = [k \in 1 .. n |-> IF k = n THEN last ELSE rounded[k]] /\ Len(shares) = n
  <2>1. rounded \in Seq(V) BY <1>3, <1>10
  <2>2. Len(rounded) = m BY <1>3, <1>10
  <2>3. /\ shares \in Seq(V) /\ Len(shares) = m + 1
        /\ \A k \in 1 .. m : shares[k] = rounded[k]
        /\ shares[m + 1] = last
    BY <1>5, <1>10, <2>1, <2>2, AppendProperties
  <2>4. shares = [k \in 1 .. n |-> shares[k]] BY <1>3, <2>3
  <2>5. \A k \in 1 .. n : shares[k] = IF k = n THEN last ELSE rounded[k] BY <1>3, <2>3
  <2> QED BY <1>3, <2>3, <2>4, <2>5
<1>12. shares[Len(shares)] = last BY <1>11
<1>13. last \in 0 .. Scale /\ last - (Scale - sum) <= Tolerance /\ (Scale - sum) - last <= Tolerance
  <2>1. Scale - sum \in Int /\ Scale - sum <= Scale BY <1>2, <1>9
  <2>2. -(Scale - sum) < Scale * Precision
    <3>1. m * Scale <= Precision * Scale /\ m * Scale \in Nat /\ Precision * Scale \in Nat
      BY <1>1, <1>2, <1>3, Monotone
    <3>2. Precision * Scale = Scale * Precision BY <1>1, <1>2
    <3> QED BY <1>2, <1>9, <3>1, <3>2
  <2>3. Nearest(Scale - sum, 1) >= 0 BY <1>12 DEF shares, last
  <2> QED BY <2>1, <2>2, <2>3, RestBounded DEF last
<1>14. shares \in [1 .. n -> 0 .. Scale]
  <2>1. \A k \in 1 .. n : k # n => k \in 1 .. m BY <1>3
  <2>2. \A k \in 1 .. n : (IF k = n THEN last ELSE rounded[k]) \in 0 .. Scale BY <1>6, <1>13, <2>1
  <2> QED BY <1>11, <2>2
<1>15. SumFunction(shares) = last + sum
  <2>1. IsFiniteSet(1 .. n) /\ n \in 1 .. n
    <3>1. 1 \in Int /\ n \in Int OBVIOUS
    <3> QED BY <3>1, FS_Interval
  <2>2. \A k \in 1 .. n : shares[k] \in Nat BY <1>2, <1>14
  <2>3. (1 .. n) \ {n} = 1 .. m BY <1>3
  <2>4. \A k \in 1 .. m : rounded[k] = shares[k] BY <1>3, <1>11
  <2>5. AgreeBut(shares, rounded, 1 .. n, n) BY <2>1, <2>2, <2>3, <2>4 DEF AgreeBut
  <2>6. Adds(SumFunctionOnSet(shares, 1 .. n), shares[n], SumFunctionOnSet(rounded, (1 .. n) \ {n}))
    BY <2>5, SumSplits
  <2>7. DOMAIN shares = 1 .. n /\ shares[n] = last BY <1>11
  <2>8. SumFunction(shares) = SumFunctionOnSet(shares, 1 .. n) BY <2>7, Zenon DEF SumFunction
  <2> QED BY <1>8, <2>3, <2>6, <2>7, <2>8, Zenon DEF Adds
<1>16. SumFunction(shares) - Scale <= Tolerance /\ Scale - SumFunction(shares) <= Tolerance
  <2>1. last \in Nat /\ sum \in Nat /\ Scale \in Nat BY <1>2, <1>9, <1>13
  <2>2. (last + sum) - Scale <= Tolerance /\ Scale - (last + sum) <= Tolerance BY <1>1, <1>13, <2>1
  <2> QED BY <1>15, <2>2
<1> QED BY <1>14, <1>16 DEF shares

-----------------------------------------------------------------------------
(* The elevations *)

\* The same of numbers below zero.
LEMMA ModUnique ==
  ASSUME NEW d \in Nat \ {0}, NEW a \in Int
  PROVE  /\ a % d \in 0 .. d - 1 /\ \E q \in Int : a = q * d + (a % d)
         /\ \A q \in Int, r \in 0 .. d - 1 : a = q * d + r => a % d = r
<1> DEFINE p == a \div d
           s == a % d
<1>1. p \in Int /\ s \in 0 .. d - 1 /\ a = (p * d) + s OBVIOUS
<1> HIDE DEF p, s
<1>2. ASSUME NEW q \in Int, NEW r \in 0 .. d - 1, a = q * d + r PROVE s = r
  <2>1. p * d \in Int /\ q * d \in Int BY <1>1
  <2>2. CASE p < q
    <3>1. (q - p) \in Nat /\ 1 <= q - p BY <1>1, <2>2
    <3>2. 1 * d <= (q - p) * d BY <3>1, Monotone
    <3>3. (q - p) * d = q * d - p * d BY <1>1
    <3> QED BY <1>1, <1>2, <2>1, <3>2, <3>3
  <2>3. CASE q < p
    <3>1. (p - q) \in Nat /\ 1 <= p - q BY <1>1, <2>3
    <3>2. 1 * d <= (p - q) * d BY <3>1, Monotone
    <3>3. (p - q) * d = p * d - q * d BY <1>1
    <3> QED BY <1>1, <1>2, <2>1, <3>2, <3>3
  <2>4. CASE p = q BY <1>1, <1>2, <2>1, <2>4
  <2> QED BY <1>1, <2>2, <2>3, <2>4
<1> QED BY <1>1, <1>2 DEF s

\* What is taken away of a code is given back, around the range of codes.
LEMMA ResidualRestores ==
  ASSUME NEW code \in 0 .. Codes - 1, NEW prediction \in Int
  PROVE  /\ (code - prediction) % Codes \in Nat
         /\ (((code - prediction) % Codes) + prediction) % Codes = code
<1> DEFINE r == (code - prediction) % Codes
<1>1. Codes \in Nat \ {0} BY FormatKnown
<1>2. r \in 0 .. Codes - 1 /\ \E q \in Int : code - prediction = q * Codes + r
  <2>1. code - prediction \in Int BY <1>1
  <2> QED BY <1>1, <2>1, ModUnique
<1> HIDE DEF r
<1>3. PICK q \in Int : code - prediction = q * Codes + r BY <1>2
<1>4. r + prediction = (-q) * Codes + code
  <2>1. q * Codes \in Int /\ (-q) * Codes = -(q * Codes) BY <1>1
  <2> QED BY <1>1, <1>2, <1>3, <2>1
<1>5. -q \in Int /\ r + prediction \in Int BY <1>1, <1>2
<1>6. (r + prediction) % Codes = code BY <1>1, <1>4, <1>5, ModUnique
<1> QED BY <1>1, <1>2, <1>6 DEF r

\* A prediction is made of what comes before.
LEMMA PredictionKnown ==
  ASSUME NEW codes, NEW before, NEW k \in Nat \ {0},
         \A j \in 1 .. k - 1 : codes[j] \in Int /\ before[j] = codes[j]
  PROVE  Predicted(before, k) = Predicted(codes, k) /\ Predicted(codes, k) \in Int
<1> DEFINE S == Serialized
           x == (k - 1) % S
           y == (k - 1) \div S
<1>1. S \in Nat \ {0} /\ Codes \in Nat \ {0} BY FormatKnown DEF Serialized
<1>2. x \in Nat /\ y \in Nat /\ k - 1 = (y * S) + x
  <2>1. k - 1 \in Nat OBVIOUS
  <2> HIDE DEF S
  <2> QED BY <1>1, <2>1, DivMod
<1>3. \A c : Predicted(c, k) =
        CASE x = 0 /\ y = 0 -> 0
          [] x > 0 /\ y = 0 -> c[k - 1]
          [] x = 0 /\ y > 0 -> c[k - S]
          [] OTHER -> (c[k - 1] + c[k - S] - c[k - S - 1]) % Codes
  BY Zenon DEF Predicted
<1> HIDE DEF S, x, y
<1>4. y * S \in Nat BY <1>1, <1>2
<1>5. y > 0 => y * S >= S
  <2> SUFFICES ASSUME y > 0 PROVE y * S >= S
    OBVIOUS
  <2>1. 1 * S <= y * S BY <1>1, <1>2, Monotone
  <2> QED BY <1>1, <2>1
<1>6. CASE x = 0 /\ y = 0 BY <1>3, <1>6
<1>7. CASE x > 0 /\ y = 0
  <2>1. k - 1 \in 1 .. k - 1 BY <1>2, <1>4, <1>7
  <2> QED BY <1>3, <1>7, <2>1
<1>8. CASE x = 0 /\ y > 0
  <2>1. k - S \in 1 .. k - 1 BY <1>1, <1>2, <1>4, <1>5, <1>8
  <2> QED BY <1>3, <1>8, <2>1
<1>9. CASE x > 0 /\ y > 0
  <2>1. k - 1 \in 1 .. k - 1 /\ k - S \in 1 .. k - 1 /\ k - S - 1 \in 1 .. k - 1
    BY <1>1, <1>2, <1>4, <1>5, <1>9
  <2>2. ~(x = 0) /\ ~(y = 0) BY <1>9
  <2>3. \A c : Predicted(c, k) = (c[k - 1] + c[k - S] - c[k - S - 1]) % Codes BY <1>3, <2>2
  <2>4. codes[k - 1] + codes[k - S] - codes[k - S - 1] \in Int BY <2>1
  <2>5. (codes[k - 1] + codes[k - S] - codes[k - S - 1]) % Codes \in Int BY <1>1, <2>4, ModUnique
  <2>6. /\ before[k - 1] = codes[k - 1] /\ before[k - S] = codes[k - S]
        /\ before[k - S - 1] = codes[k - S - 1]
    BY <2>1
  <2> QED BY <2>3, <2>5, <2>6
<1>10. (x = 0 \/ x > 0) /\ (y = 0 \/ y > 0) BY <1>2
<1> QED BY <1>6, <1>7, <1>8, <1>9, <1>10

\* The reader undoes the prediction of the writer.
LEMMA Reversed ==
  ASSUME NEW codes \in Seq(0 .. Codes - 1)
  PROVE  ReverseDelta2D(Delta2D(codes)) = codes
<1> DEFINE n == Len(codes)
           r == Delta2D(codes)
           Prefix(k) == [j \in 1 .. k |-> codes[j]]
           Next1(g, k) == IF k = 0 THEN <<>>
                          ELSE LET before == g[k - 1]
                               IN  Append(before, (r[k] + Predicted(before, k)) % Codes)
           P == [k \in 0 .. n |-> Prefix(k)]
           decoded == CHOOSE g : g = [k \in 0 .. n |-> Next1(g, k)]
<1>1. Codes \in Nat \ {0} BY FormatKnown
<1>2. n \in Nat /\ codes = [j \in 1 .. n |-> codes[j]] /\ \A j \in 1 .. n : codes[j] \in 0 .. Codes - 1
  BY LenProperties, ElementOfSeq
<1>3. r = [k \in 1 .. n |-> (codes[k] - Predicted(codes, k)) % Codes]
  <2>1. DOMAIN codes = 1 .. n BY <1>2
  <2> QED BY <2>1, Zenon DEF Delta2D
<1> HIDE DEF n, r
<1>4. \A k \in 1 .. n : Predicted(codes, k) \in Int
  <2> SUFFICES ASSUME NEW k \in 1 .. n PROVE Predicted(codes, k) \in Int
    OBVIOUS
  <2>1. k \in Nat \ {0} /\ \A j \in 1 .. k - 1 : codes[j] \in Int /\ codes[j] = codes[j] BY <1>1, <1>2
  <2> QED BY <2>1, PredictionKnown
<1>5. \A k \in 1 .. n : r[k] \in Nat /\ (r[k] + Predicted(codes, k)) % Codes = codes[k]
  <2> SUFFICES ASSUME NEW k \in 1 .. n PROVE r[k] \in Nat /\ (r[k] + Predicted(codes, k)) % Codes = codes[k]
    OBVIOUS
  <2>1. codes[k] \in 0 .. Codes - 1 /\ Predicted(codes, k) \in Int BY <1>2, <1>4
  <2>2. r[k] = (codes[k] - Predicted(codes, k)) % Codes BY <1>3
  <2> QED BY <2>1, <2>2, ResidualRestores
<1>6. Len(r) = n
  <2>1. r \in [1 .. n -> Nat] BY <1>3, <1>5
  <2> QED BY <1>2, <2>1
<1>7. Prefix(0) = <<>> OBVIOUS
<1>8. ASSUME NEW k \in 1 .. n
      PROVE  Append(Prefix(k - 1), (r[k] + Predicted(Prefix(k - 1), k)) % Codes) = Prefix(k)
  <2> DEFINE m == k - 1
             before == Prefix(m)
             after == Append(before, codes[k])
  <2>1. m \in Nat /\ m + 1 = k /\ m + 1 \in 1 .. n /\ k \in Nat \ {0} /\ \A j \in 1 .. m : j \in 1 .. n BY <1>2
  <2>2. before \in [1 .. m -> 0 .. Codes - 1] /\ \A j \in 1 .. m : before[j] = codes[j] BY <1>2, <2>1
  <2>3. Predicted(before, k) = Predicted(codes, k)
    <3>1. \A j \in 1 .. k - 1 : codes[j] \in Int /\ before[j] = codes[j] BY <1>1, <1>2, <2>1, <2>2
    <3> HIDE DEF before
    <3> QED BY <2>1, <3>1, PredictionKnown
  <2>4. (r[k] + Predicted(before, k)) % Codes = codes[k] BY <1>5, <2>3
  <2> HIDE DEF before
  <2> DEFINE V == 0 .. Codes - 1
  <2>5. before \in [1 .. m -> V] /\ codes[k] \in V BY <1>2, <2>2
  <2> HIDE DEF V
  <2>6. before \in Seq(V) BY <2>1, <2>5
  <2>7. Len(before) = m BY <2>1, <2>5
  <2>8. /\ after \in Seq(V) /\ Len(after) = m + 1
        /\ \A j \in 1 .. m : after[j] = before[j]
        /\ after[m + 1] = codes[k]
    BY <2>5, <2>6, <2>7, AppendProperties
  <2> HIDE DEF after
  <2>9. after = [j \in 1 .. k |-> after[j]] BY <2>1, <2>8
  <2>10. \A j \in 1 .. k : after[j] = codes[j] BY <2>1, <2>2, <2>8
  <2>11. after = Prefix(k) BY <2>9, <2>10
  <2> QED BY <2>4, <2>11 DEF after, before, m
<1> HIDE DEF Prefix
<1>9. P = [k \in 0 .. n |-> Next1(P, k)]
  <2>1. ASSUME NEW k \in 0 .. n PROVE Prefix(k) = Next1(P, k)
    <3>1. CASE k = 0 BY <1>7, <3>1
    <3>2. CASE k # 0
      <4>1. k \in 1 .. n /\ k - 1 \in 0 .. n BY <1>2, <3>2
      <4>2. P[k - 1] = Prefix(k - 1) BY <4>1
      <4> QED BY <1>8, <3>2, <4>1, <4>2
    <3> QED BY <3>1, <3>2
  <2> HIDE DEF Next1
  <2> QED BY <2>1
<1> HIDE DEF P
<1>10. decoded = [k \in 0 .. n |-> Next1(decoded, k)]
  <2> HIDE DEF Next1
  <2> QED BY <1>9
<1>11. ReverseDelta2D(r) = decoded[n]
  BY <1>6, Zenon DEF ReverseDelta2D
<1> HIDE DEF decoded
<1>12. \A k \in 0 .. n : decoded[k] = Next1(decoded, k)
  <2> HIDE DEF Next1
  <2> QED BY <1>10
<1> DEFINE K == {k \in Nat : k <= n => decoded[k] = Prefix(k)}
<1>13. 0 \in K
  <2>1. 0 \in 0 .. n BY <1>2
  <2>2. decoded[0] = <<>> BY <1>12, <2>1
  <2> QED BY <1>7, <2>2
<1>14. ASSUME NEW k \in K PROVE k + 1 \in K
  <2> SUFFICES ASSUME k + 1 <= n PROVE decoded[k + 1] = Prefix(k + 1)
    OBVIOUS
  <2>1. k + 1 \in 0 .. n /\ k + 1 \in 1 .. n /\ (k + 1) - 1 = k /\ k + 1 # 0 BY <1>2
  <2>2. decoded[k] = Prefix(k) BY <1>2
  <2>3. decoded[k + 1] = Append(decoded[k], (r[k + 1] + Predicted(decoded[k], k + 1)) % Codes)
    BY <1>12, <2>1
  <2>4. Append(Prefix(k), (r[k + 1] + Predicted(Prefix(k), k + 1)) % Codes) = Prefix(k + 1) BY <1>8, <2>1
  <2> QED BY <2>2, <2>3, <2>4
<1>15. K \in SUBSET Nat OBVIOUS
<1> HIDE DEF K
<1>16. K = Nat BY <1>13, <1>14, <1>15, Induction
<1>17. decoded[n] = Prefix(n) BY <1>2, <1>16 DEF K
<1> QED BY <1>2, <1>11, <1>17 DEF Prefix, r

-----------------------------------------------------------------------------
(* The provenance *)

\* An index of a palette comes back from its bytes.
LEMMA IndexRestored ==
  ASSUME NEW n \in Nat, n < ByteValues * ByteValues, NEW value \in 0 .. n - 1,
         NEW width, width = IF n <= ByteValues THEN 1 ELSE 2
  PROVE  IndexOf(IndexBytes(value, width), width) = value
<1>1. ByteValues \in Nat \ {0} /\ value \in Nat BY FormatKnown
<1>2. CASE width = 1
  <2>1. value < ByteValues BY <1>1, <1>2
  <2>2. value % ByteValues = value BY <1>1, <2>1
  <2>3. IndexBytes(value, width) = <<value % ByteValues>> BY <1>2 DEF IndexBytes
  <2> QED BY <1>2, <2>2, <2>3 DEF IndexOf
<1>3. CASE width = 2
  <2>1. value = ((value \div ByteValues) * ByteValues) + (value % ByteValues) BY <1>1, DivMod
  <2>2. value \div ByteValues \in Nat /\ value % ByteValues \in Nat BY <1>1, DivMod
  <2>3. IndexBytes(value, width) = <<value % ByteValues, value \div ByteValues>> BY <1>3 DEF IndexBytes
  <2>4. IndexOf(IndexBytes(value, width), width)
          = (value % ByteValues) + ByteValues * (value \div ByteValues)
    BY <1>3, <2>3 DEF IndexOf
  <2> DEFINE low == value % ByteValues
             high == value \div ByteValues
  <2>5. low \in Nat /\ high \in Nat /\ value = high * ByteValues + low BY <2>1, <2>2
  <2> HIDE DEF low, high
  <2>6. low + ByteValues * high = value BY <1>1, <2>5
  <2> QED BY <2>4, <2>6 DEF low, high
<1> QED BY <1>2, <1>3

\* What parse_provenance reads of a provenance and of its channel agrees.
LEMMA ProvenanceRead ==
  ASSUME NEW sources \in Seq(Dataset), NEW content, Fused(content, sources), NEW payload,
         LET p == Provenance(Summarize(content))
         IN  /\ payload.primary = Summarize(content).primary
             /\ payload.palette_count = Len(Summarize(content).palette)
             /\ payload.records[2].logical_bytes = p.size /\ payload.records[2].side = p.side
             /\ p.shares[Len(p.shares)] >= 0
  PROVE  ProvenanceAccepted(Provenance(Summarize(content)), payload)
<1> DEFINE made == Summarize(content)
           palette == Palette(content)
           totals == Totals(content, palette, CoreSamples)
           map == DominantSources(content, palette)
           p == Provenance(made)
           width == IF map = <<>> THEN 0 ELSE IndexWidth(palette)
           side == IF map = <<>> THEN 0 ELSE MapSide
           bytes0 == [cell \in DOMAIN map |-> IndexBytes(map[cell], width)]
           size == 16 + 16 * Len(palette) + Cardinality(DOMAIN map) * width
           shares == Shares(totals)
<1>1. /\ made.palette = palette /\ made.totals = totals /\ made.map = map
      /\ made.primary = palette[FirstLargest(totals)]
  BY DEF Summarize, SummaryOf
<1>2. /\ p.palette = palette /\ p.shares = shares /\ p.side = side /\ p.index_width = width
      /\ p.map = bytes0 /\ p.size = size
  <2>1. /\ p.palette = made.palette /\ p.shares = Shares(made.totals)
        /\ p.side = IF made.map = <<>> THEN 0 ELSE MapSide
        /\ p.index_width = IF made.map = <<>> THEN 0 ELSE IndexWidth(made.palette)
        /\ p.map = [cell \in DOMAIN made.map |->
             IndexBytes(made.map[cell], IF made.map = <<>> THEN 0 ELSE IndexWidth(made.palette))]
        /\ p.size = 16 + 16 * Len(made.palette)
                    + Cardinality(DOMAIN made.map) * (IF made.map = <<>> THEN 0 ELSE IndexWidth(made.palette))
    BY DEF Provenance
  <2> HIDE DEF made, palette, totals, map, p
  <2> QED BY <1>1, <2>1
<1>3. PICK n \in Nat \ {0} : PaletteIs(content, n) /\ n < ByteValues * ByteValues BY PaletteSorted
<1>4. /\ palette \in [1 .. n -> Sources(content) \cap Nat]
      /\ \A j, k \in 1 .. n : j < k => palette[j] < palette[k]
      /\ Whole \in Nat \ {0} /\ totals \in [1 .. n -> 0 .. Whole]
      /\ \A cell \in MapCells : Totals(content, palette, BlockSamples(cell)) \in [1 .. n -> Nat]
  BY <1>3 DEF PaletteIs
<1>5. /\ MapSide \in Nat \ {0} /\ ByteValues \in Nat \ {0} BY FormatKnown
<1> DEFINE counts(cell) == Totals(content, palette, BlockSamples(cell))
<1>6. map = IF n = 1 THEN <<>> ELSE [cell \in MapCells |-> FirstLargest(counts(cell)) - 1]
  <2>1. Len(palette) = n BY <1>4
  <2> QED BY <2>1, Zenon DEF DominantSources
<1>7. payload.primary = made.primary /\ payload.palette_count = Len(palette)
      /\ payload.records[2].logical_bytes = size /\ payload.records[2].side = side
      /\ shares[Len(shares)] >= 0
  BY <1>1, <1>2
<1> HIDE DEF made, palette, totals, p, shares
<1>8. /\ DOMAIN palette = 1 .. n /\ Len(palette) = n /\ \A k \in 1 .. n : palette[k] \in Range(palette)
      /\ \A k \in 1 .. n : palette[k] \in Nat
  BY <1>4 DEF Range
<1>9. \A cell \in MapCells : FirstLargest(counts(cell)) - 1 \in 0 .. n - 1
  <2> SUFFICES ASSUME NEW cell \in MapCells PROVE FirstLargest(counts(cell)) - 1 \in 0 .. n - 1
    OBVIOUS
  <2>1. counts(cell) \in [1 .. n -> Nat] BY <1>4
  <2> HIDE DEF counts
  <2>2. FirstLargest(counts(cell)) \in 1 .. n BY <2>1, FirstLargestExists
  <2> QED BY <2>2
<1> HIDE DEF counts
<1>10. IsFiniteSet(MapCells) /\ Cardinality(MapCells) = MapSide * MapSide /\ MapCells # {}
  BY <1>5, SquareCounted DEF MapCells
<1> HIDE DEF map
<1>11. n = 1 <=> map = <<>>
  <2> SUFFICES ASSUME n # 1, map = <<>> PROVE FALSE
    BY <1>6
  <2>1. DOMAIN map = MapCells BY <1>6
  <2>2. DOMAIN map = {}
    <3>1. DOMAIN <<>> = {} OBVIOUS
    <3> QED BY <3>1
  <2> QED BY <1>10, <2>1, <2>2
<1> DEFINE w == width
           s == side
<1>12. ASSUME n = 1
       PROVE /\ IF s = 0 THEN w = 0 ELSE w = IF Len(palette) <= ByteValues THEN 1 ELSE 2
             /\ size = 16 + 16 * Len(palette) + s * s * w
             /\ \A cell \in DOMAIN bytes0 : IndexOf(bytes0[cell], w) < Len(palette)
  <2>1. map = <<>> /\ w = 0 /\ s = 0 BY <1>11, <1>12
  <2>2. DOMAIN map = {}
    <3>1. DOMAIN <<>> = {} OBVIOUS
    <3> QED BY <2>1, <3>1
  <2>3. Cardinality(DOMAIN map) = 0 BY <2>2, FS_EmptySet
  <2>4. size = 16 + 16 * Len(palette) + s * s * w
    <3> HIDE DEF w, s
    <3>1. Cardinality(DOMAIN map) * w = 0 /\ s * s * w = 0 BY <2>1, <2>3
    <3> QED BY <3>1 DEF w
  <2>5. DOMAIN bytes0 = {} BY <2>2
  <2> HIDE DEF bytes0
  <2>6. /\ IF s = 0 THEN w = 0 ELSE w = IF Len(palette) <= ByteValues THEN 1 ELSE 2
        /\ \A cell \in DOMAIN bytes0 : IndexOf(bytes0[cell], w) < Len(palette)
    BY <2>1, <2>5
  <2> HIDE DEF w, s, size
  <2> QED BY <2>4, <2>6
<1>13. ASSUME n # 1
       PROVE /\ IF s = 0 THEN w = 0 ELSE w = IF Len(palette) <= ByteValues THEN 1 ELSE 2
             /\ size = 16 + 16 * Len(palette) + s * s * w
             /\ \A cell \in DOMAIN bytes0 : IndexOf(bytes0[cell], w) < Len(palette)
  <2>1. w = (IF n <= ByteValues THEN 1 ELSE 2) /\ s = MapSide BY <1>8, <1>11, <1>13 DEF IndexWidth
  <2>2. DOMAIN map = MapCells /\ \A cell \in MapCells : map[cell] \in 0 .. n - 1 BY <1>6, <1>9, <1>13
  <2>3. size = 16 + 16 * Len(palette) + s * s * w
    <3>1. Cardinality(DOMAIN map) = s * s BY <1>10, <2>1, <2>2
    <3> QED BY <3>1
  <2>4. ASSUME NEW cell \in DOMAIN bytes0 PROVE IndexOf(bytes0[cell], w) < Len(palette)
    <3>1. cell \in MapCells /\ bytes0[cell] = IndexBytes(map[cell], w) BY <2>2
    <3>2. map[cell] \in 0 .. n - 1 BY <2>2, <3>1
    <3> HIDE DEF bytes0, w
    <3>3. IndexOf(IndexBytes(map[cell], w), w) = map[cell] BY <1>3, <2>1, <3>2, IndexRestored
    <3> QED BY <1>8, <3>1, <3>2, <3>3
  <2>5. IF s = 0 THEN w = 0 ELSE w = IF Len(palette) <= ByteValues THEN 1 ELSE 2
    BY <1>5, <1>8, <2>1
  <2> HIDE DEF w, s, size, bytes0
  <2> QED BY <2>3, <2>4, <2>5
<1> HIDE DEF size, width, side, bytes0, w, s
<1>14. /\ IF s = 0 THEN w = 0 ELSE w = IF Len(palette) <= ByteValues THEN 1 ELSE 2
       /\ size = 16 + 16 * Len(palette) + s * s * w
       /\ \A cell \in DOMAIN bytes0 : IndexOf(bytes0[cell], w) < Len(palette)
  BY <1>12, <1>13
<1>15. /\ shares \in [1 .. n -> 0 .. Scale]
       /\ SumFunction(shares) - Scale <= Tolerance /\ Scale - SumFunction(shares) <= Tolerance
  BY <1>3, <1>4, <1>7, SharesAdd DEF shares
<1>16. payload.primary \in Range(palette)
  <2>1. totals \in [1 .. n -> Nat]
    <3>1. 0 .. Whole \in SUBSET Nat BY <1>4
    <3> QED BY <1>4, <3>1
  <2>2. FirstLargest(totals) \in 1 .. n BY <2>1, FirstLargestExists
  <2> QED BY <1>1, <1>7, <1>8, <2>2
<1>17. ASSUME NEW k \in DOMAIN palette
       PROVE  /\ k > 1 => palette[k] > palette[k - 1]
              /\ shares[k] >= 0 /\ shares[k] <= Scale
  <2>1. k \in 1 .. n /\ shares[k] \in 0 .. Scale BY <1>8, <1>15
  <2>2. ASSUME k > 1 PROVE palette[k] > palette[k - 1]
    <3>1. k - 1 \in 1 .. n /\ k - 1 < k BY <2>1, <2>2
    <3>2. palette[k - 1] < palette[k] BY <1>4, <2>1, <3>1
    <3> QED BY <1>8, <2>1, <3>1, <3>2
  <2>3. Scale \in Nat
    <3>1. ScaleDigits \in 0 .. ScaleDigits BY FormatKnown
    <3> QED BY <3>1, Powers DEF Scale
  <2> QED BY <2>1, <2>2, <2>3
<1>18. Len(palette) > 0 BY <1>8
<1>19. w = width /\ s = side BY DEF w, s
<1> QED BY <1>2, <1>7, <1>14, <1>15, <1>16, <1>17, <1>18, <1>19, Zenon DEF ProvenanceAccepted, p, made

-----------------------------------------------------------------------------
(* The channels *)

\* A tile has two channels, and a third one for flags.
LEMMA ChannelsKnown ==
  ASSUME NEW content, NEW made
  PROVE  LET c == Channels(content, made)
         IN  \E n \in 2 .. 3 :
               /\ Len(c) = n /\ DOMAIN c = 1 .. n
               /\ c[1] = Channel(1, Serialized, 2 * Len(content.codes), content.stored[1], Delta2D(content.codes))
               /\ c[2] = ProvenanceChannel(Provenance(made), content.stored[2])
               /\ n = 3 => c[3] = Channel(3, MapSide, MapSide * MapSide, content.stored[3], made.quality)
<1> DEFINE one == Channel(1, Serialized, 2 * Len(content.codes), content.stored[1], Delta2D(content.codes))
           two == ProvenanceChannel(Provenance(made), content.stored[2])
           three == Channel(3, MapSide, MapSide * MapSide, content.stored[3], made.quality)
           c == Channels(content, made)
<1>1. c = <<one, two>> \o (IF made.quality = <<>> THEN <<>> ELSE <<three>>) BY Zenon DEF Channels
<1> HIDE DEF one, two, three, c
<1>2. CASE made.quality = <<>>
  <2>1. c = <<one, two>> \o <<>> BY <1>1, <1>2
  <2>2. c = <<one, two>> BY <2>1
  <2>3. Len(c) = 2 /\ DOMAIN c = 1 .. 2 /\ c[1] = one /\ c[2] = two BY <2>2
  <2>4. 2 \in 2 .. 3 /\ 2 # 3 OBVIOUS
  <2> QED BY <2>3, <2>4, Zenon DEF c, one, two
<1>3. CASE made.quality # <<>>
  <2>1. c = <<one, two>> \o <<three>> BY <1>1, <1>3
  <2>2. Len(c) = 3 /\ DOMAIN c = 1 .. 3 /\ c[1] = one /\ c[2] = two /\ c[3] = three
    <3> DEFINE V == {one, two, three}
               front == <<one, two>>
               rest == <<three>>
    <3>1. front \in Seq(V) /\ rest \in Seq(V) /\ Len(front) = 2 /\ Len(rest) = 1
          /\ front[1] = one /\ front[2] = two /\ rest[1] = three
      OBVIOUS
    <3> HIDE DEF front, rest, V
    <3>2. c = front \o rest BY <2>1 DEF front, rest
    <3>3. /\ c \in Seq(V) /\ Len(c) = 3
          /\ \A k \in 1 .. 3 : c[k] = IF k <= 2 THEN front[k] ELSE rest[k - 2]
      BY <3>1, <3>2, ConcatProperties
    <3>4. DOMAIN c = 1 .. 3 BY <3>3
    <3>5. c[1] = front[1] /\ c[2] = front[2] /\ c[3] = rest[1] BY <3>3
    <3> QED BY <3>1, <3>3, <3>4, <3>5
  <2>3. 3 \in 2 .. 3 OBVIOUS
  <2> QED BY <2>2, <2>3, Zenon DEF c, one, two, three
<1> QED BY <1>2, <1>3

\* The lowest and the highest code of a tile.
LEMMA CodesBounded ==
  ASSUME NEW sources, NEW content, Fused(content, sources)
  PROVE  LET codes == Range(content.codes)
             lowest == CHOOSE c \in codes : \A o \in codes : c <= o
             highest == CHOOSE c \in codes : \A o \in codes : c >= o
         IN  /\ lowest \in codes /\ highest \in codes /\ lowest <= highest
             /\ \A c \in codes : lowest <= c /\ c <= highest
<1> DEFINE codes == Range(content.codes)
           lowest == CHOOSE c \in codes : \A o \in codes : c <= o
           highest == CHOOSE c \in codes : \A o \in codes : c >= o
<1>1. content.codes \in Seq(0 .. Codes - 1) /\ Len(content.codes) = Serialized * Serialized BY DEF Fused
<1>2. Core \in Nat \ {0} BY FormatKnown
<1>3. Serialized \in Nat \ {0} BY <1>2 DEF Serialized
<1>4. Serialized * Serialized \in Nat \ {0} BY <1>3
<1>5. IsFiniteSet(codes) /\ codes \in SUBSET (0 .. Codes - 1) /\ \A k \in 1 .. Len(content.codes) : content.codes[k] \in codes
  BY <1>1, RangeFinite
<1>6. 1 \in 1 .. Len(content.codes) BY <1>1, <1>4
<1>7. codes \in SUBSET Nat /\ codes # {}
  <2>1. 0 .. Codes - 1 \in SUBSET Nat OBVIOUS
  <2> QED BY <1>5, <1>6, <2>1
<1> HIDE DEF codes
<1>8. (\E c \in codes : \A o \in codes : c <= o) /\ (\E c \in codes : \A o \in codes : o <= c)
  BY <1>5, <1>7, Extremes
<1>9. \E c \in codes : \A o \in codes : c >= o BY <1>7, <1>8
<1>10. lowest \in codes /\ \A o \in codes : lowest <= o BY <1>8
<1>11. highest \in codes /\ \A o \in codes : highest >= o BY <1>9
<1> HIDE DEF lowest, highest
<1>12. \A c \in codes : lowest <= c /\ c <= highest BY <1>7, <1>10, <1>11
<1>13. lowest <= highest BY <1>10, <1>11, <1>12
<1> QED BY <1>10, <1>11, <1>12, <1>13 DEF codes, lowest, highest

\* What encode_tile writes of a tile, apart from its place.
Written(tile, key, content, made, c, r) ==
  LET n == Len(c)
      codes == Range(content.codes)
      lowest == CHOOSE m \in codes : \A o \in codes : m <= o
      highest == CHOOSE m \in codes : \A o \in codes : m >= o
      hash == ContentHash(key, c, content.codes)
      entry == tile.summary
      payload == tile.payload
  IN  /\ entry.has_quality = (n = 3) /\ entry.channel_count = n
      /\ entry.logical_bytes = SumFunction([k \in 1 .. n |-> c[k].logical_bytes])
      /\ entry.minimum = lowest /\ entry.maximum = highest /\ entry.primary = made.primary
      /\ entry.geometric_error = HalfUp(content.error * Millimeters, 8) /\ entry.content_hash = hash
      /\ payload.key = key /\ payload.has_quality = (n = 3) /\ payload.channel_count = n
      /\ payload.primary = made.primary /\ payload.palette_count = Len(made.palette)
      /\ payload.geometric_error = FloatOf(content.error, 8)
      /\ payload.minimum = lowest /\ payload.maximum = highest /\ payload.content_hash = hash
      /\ payload.directory_bytes = ChannelRecord * n
      /\ payload.data_offset = r[1] /\ payload.data_bytes = r[n + 1] - r[1] /\ payload.size = r[n + 1]
      /\ DOMAIN payload.records = 1 .. n /\ Len(payload.records) = n
      /\ payload.records = [k \in 1 .. n |->
           [id |-> c[k].id, side |-> c[k].side, data_offset |-> r[k],
            stored_bytes |-> c[k].stored_bytes, logical_bytes |-> c[k].logical_bytes]]
      /\ payload.data = [k \in 1 .. n |-> c[k].holds]

LEMMA EncodedIs ==
  ASSUME NEW key, NEW content, NEW made, NEW sources
  PROVE  LET c == Channels(content, made)
         IN  Written(EncodeTile(key, content, made, sources), key, content, made, c,
                     DataOffsets([k \in DOMAIN c |-> c[k].stored_bytes]))
<1> DEFINE c == Channels(content, made)
           r == DataOffsets([k \in DOMAIN c |-> c[k].stored_bytes])
           source == CHOOSE d \in Range(sources) : d.id = made.primary
           tile == Encode(key, content, made, source, c, r)
<1>1. EncodeTile(key, content, made, sources) = tile BY Zenon DEF EncodeTile, EncodeChannels
<1>2. PICK n \in 2 .. 3 : Len(c) = n /\ DOMAIN c = 1 .. n BY ChannelsKnown
<1> HIDE DEF c, r, source
<1>3. Written(tile, key, content, made, c, r)
  <2> DEFINE records == [k \in 1 .. Len(c) |->
           [id |-> c[k].id, side |-> c[k].side, data_offset |-> r[k],
            stored_bytes |-> c[k].stored_bytes, logical_bytes |-> c[k].logical_bytes]]
  <2>1. tile.payload.records = records BY DEF Encode
  <2>2. DOMAIN records = 1 .. n BY <1>2
  <2>3. Len(records) = n BY <1>2
  <2> QED BY <1>2, <2>1, <2>2, <2>3 DEF Encode, Written
<1> QED BY <1>1, <1>3 DEF c, r

-----------------------------------------------------------------------------
(* The payload *)

\* Where the data of channels are.
LEMMA DataPlaced ==
  ASSUME NEW n \in 2 .. 3, NEW sizes \in [1 .. n -> Nat]
  PROVE  LET r == DataOffsets(sizes)
         IN  /\ r \in [1 .. n + 1 -> Nat] /\ r[1] = Aligned(TileHeader + ChannelRecord * n, 8)
             /\ r[n + 1] = r[n] + sizes[n]
             /\ \A k \in 1 .. n : r[k] % 8 = 0 /\ r[1] <= r[k] /\ r[k] + sizes[k] <= r[n + 1]
             /\ \A k \in 2 .. n : r[k - 1] + sizes[k - 1] <= r[k]
<1> DEFINE from == TileHeader + ChannelRecord * n
           r == Regions(from, sizes)
<1>1. sizes \in Seq(Nat) /\ Len(sizes) = n /\ sizes # <<>>
  <2>1. sizes \in Seq(Nat) /\ Len(sizes) = n OBVIOUS
  <2>2. Len(<<>>) = 0 OBVIOUS
  <2> QED BY <2>1, <2>2
<1>2. from \in Nat BY DEF TileHeader, ChannelRecord
<1>3. DataOffsets(sizes) = r BY <1>1 DEF DataOffsets
<1> HIDE DEF from
<1>4. /\ r \in [1 .. n + 1 -> Nat] /\ r[1] = Aligned(from, 8) /\ r[n + 1] = r[n] + sizes[n]
  <2>1. LET q == Regions(from, sizes)
            m == Len(sizes)
        IN  q \in [1 .. m + 1 -> Nat] /\ q[1] = Aligned(from, 8) /\ (m > 0 => q[m + 1] = q[m] + sizes[m])
    BY <1>1, <1>2, RegionsFollow
  <2>2. n > 0 OBVIOUS
  <2> HIDE DEF r
  <2>3. r \in [1 .. n + 1 -> Nat] /\ r[1] = Aligned(from, 8) /\ (n > 0 => r[n + 1] = r[n] + sizes[n])
    BY <1>1, <2>1, Zenon DEF r
  <2> QED BY <2>2, <2>3
<1>5. /\ \A k \in 1 .. n : r[k] % 8 = 0 /\ r[k] + sizes[k] <= r[n + 1]
      /\ \A j, k \in 1 .. n : j < k => r[j] + sizes[j] <= r[k]
  BY <1>1, <1>2, RegionsApart
<1> HIDE DEF r
<1>6. \A k \in 2 .. n : r[k - 1] + sizes[k - 1] <= r[k]
  <2> SUFFICES ASSUME NEW k \in 2 .. n PROVE r[k - 1] + sizes[k - 1] <= r[k]
    OBVIOUS
  <2>1. k - 1 \in 1 .. n /\ k \in 1 .. n /\ k - 1 < k OBVIOUS
  <2> QED BY <1>5, <2>1
<1>7. ASSUME NEW k \in 1 .. n PROVE r[1] <= r[k]
  <2>1. CASE k = 1 BY <1>4, <2>1
  <2>2. CASE 1 < k
    <3>1. 1 \in 1 .. n /\ r[1] \in Nat /\ r[k] \in Nat /\ sizes[1] \in Nat BY <1>4
    <3>2. r[1] + sizes[1] <= r[k] BY <1>5, <2>2, <3>1
    <3> QED BY <3>1, <3>2
  <2> QED BY <2>1, <2>2
<1> QED BY <1>3, <1>4, <1>5, <1>6, <1>7 DEF from

LEMMA FramingRead ==
  ASSUME NEW tile, NEW key, NEW content, NEW made, NEW c, NEW n \in 2 .. 3, Len(c) = n,
         NEW sizes \in [1 .. n -> Nat], Written(tile, key, content, made, c, DataOffsets(sizes)),
         tile.payload.minimum <= tile.payload.maximum
  PROVE  FramingAccepted(tile.payload, key, tile.summary)
<1> DEFINE r == DataOffsets(sizes)
           payload == tile.payload
           entry == tile.summary
<1>1. /\ r \in [1 .. n + 1 -> Nat] /\ r[1] = Aligned(TileHeader + ChannelRecord * n, 8)
  BY DataPlaced
<1> HIDE DEF r
<1>2. /\ payload.key = key /\ payload.has_quality = entry.has_quality
      /\ payload.channel_count = entry.channel_count /\ payload.primary = entry.primary
      /\ payload.content_hash = entry.content_hash
      /\ payload.channel_count = n /\ payload.directory_bytes = ChannelRecord * n
      /\ payload.data_offset = r[1] /\ payload.data_bytes = r[n + 1] - r[1] /\ payload.size = r[n + 1]
  BY DEF Written, r
<1> HIDE DEF payload, entry
<1>3. payload.directory_bytes = payload.channel_count * ChannelRecord BY <1>2 DEF ChannelRecord
<1>4. payload.data_offset = Aligned(TileHeader + payload.directory_bytes, 8) BY <1>1, <1>2
<1>5. payload.data_offset + payload.data_bytes = payload.size
  <2>1. r[1] \in Nat /\ r[n + 1] \in Nat BY <1>1
  <2> QED BY <1>2, <2>1
<1> QED BY <1>2, <1>3, <1>4, <1>5, Zenon DEF FramingAccepted, payload, entry

\* The channels are numbered, and their data are of these sizes.
Numbered(c, n, sizes) == \A k \in 1 .. n : c[k].id = k /\ c[k].stored_bytes = sizes[k]

LEMMA RecordsRead ==
  ASSUME NEW tile, NEW key, NEW content, NEW made, NEW c, NEW n \in 2 .. 3, Len(c) = n,
         NEW sizes \in [1 .. n -> Nat], Written(tile, key, content, made, c, DataOffsets(sizes)),
         Numbered(c, n, sizes)
  PROVE  RecordsAccepted(tile.payload, tile.summary)
<1> DEFINE r == DataOffsets(sizes)
           payload == tile.payload
           entry == tile.summary
           records == payload.records
           end(k) == IF k = 0 THEN payload.data_offset
                     ELSE records[k].data_offset + records[k].stored_bytes
           ids == {records[k].id : k \in DOMAIN records}
<1>1. /\ r \in [1 .. n + 1 -> Nat] /\ r[n + 1] = r[n] + sizes[n]
      /\ \A k \in 1 .. n : r[k] % 8 = 0 /\ r[1] <= r[k] /\ r[k] + sizes[k] <= r[n + 1]
      /\ \A k \in 2 .. n : r[k - 1] + sizes[k - 1] <= r[k]
  BY DataPlaced
<1> HIDE DEF r
<1>2. /\ payload.has_quality = (n = 3) /\ payload.data_offset = r[1] /\ payload.size = r[n + 1]
      /\ DOMAIN records = 1 .. n /\ Len(records) = n
      /\ records = [k \in 1 .. n |->
           [id |-> c[k].id, side |-> c[k].side, data_offset |-> r[k],
            stored_bytes |-> c[k].stored_bytes, logical_bytes |-> c[k].logical_bytes]]
      /\ entry.logical_bytes = SumFunction([k \in 1 .. n |-> c[k].logical_bytes])
  BY Zenon DEF Written, r
<1>3. \A k \in 1 .. n : /\ records[k].id = k /\ records[k].data_offset = r[k]
                        /\ records[k].stored_bytes = sizes[k] /\ records[k].logical_bytes = c[k].logical_bytes
  BY <1>2 DEF Numbered
<1> HIDE DEF payload, entry, records
<1>4. \A k \in 1 .. n : end(k) = r[k] + sizes[k]
  <2> SUFFICES ASSUME NEW k \in 1 .. n PROVE end(k) = r[k] + sizes[k]
    OBVIOUS
  <2>1. k # 0 OBVIOUS
  <2> QED BY <1>3, <2>1
<1>5. end(0) = r[1] BY <1>2
<1> HIDE DEF end
<1>6. ASSUME NEW k \in 1 .. n
      PROVE  /\ k > 1 => records[k].id > records[k - 1].id
             /\ records[k].data_offset % 8 = 0
             /\ records[k].data_offset >= end(k - 1) /\ end(k) <= payload.size
  <2>1. r[k] \in Nat /\ r[1] \in Nat /\ sizes[k] \in Nat /\ r[n + 1] \in Nat BY <1>1
  <2>2. records[k].data_offset = r[k] /\ r[k] % 8 = 0 /\ end(k) <= payload.size
    BY <1>1, <1>2, <1>3, <1>4
  <2>3. CASE k = 1
    <3>1. end(k - 1) = r[1] BY <1>5, <2>3
    <3> QED BY <2>1, <2>2, <2>3, <3>1
  <2>4. CASE k > 1
    <3>1. k - 1 \in 1 .. n /\ k \in 2 .. n BY <2>4
    <3>2. end(k - 1) = r[k - 1] + sizes[k - 1] BY <1>4, <3>1
    <3>3. r[k - 1] + sizes[k - 1] <= r[k] BY <1>1, <3>1
    <3>4. r[k - 1] \in Nat /\ sizes[k - 1] \in Nat BY <1>1, <3>1
    <3>5. records[k].data_offset >= end(k - 1) BY <2>1, <2>2, <3>2, <3>3, <3>4
    <3>6. records[k].id = k /\ records[k - 1].id = k - 1 BY <1>3, <3>1
    <3>7. records[k].id > records[k - 1].id BY <3>6
    <3> QED BY <2>2, <3>5, <3>7
  <2> QED BY <2>3, <2>4
<1>7. end(Len(records)) = payload.size BY <1>1, <1>2, <1>4
<1>8. SumFunction([k \in DOMAIN records |-> records[k].logical_bytes]) = entry.logical_bytes
  <2>1. [k \in DOMAIN records |-> records[k].logical_bytes] = [k \in 1 .. n |-> c[k].logical_bytes]
    BY <1>2, <1>3
  <2> QED BY <1>2, <2>1
<1>9. ids = 1 .. n
  <2>1. DOMAIN records = 1 .. n /\ \A k \in 1 .. n : records[k].id = k BY <1>2, <1>3
  <2>2. ids = {k : k \in 1 .. n} BY <2>1
  <2> QED BY <2>2
<1> HIDE DEF ids
<1>10. {1, 2} \subseteq ids /\ (3 \in ids <=> n = 3) BY <1>9
<1>11. 3 \in ids <=> payload.has_quality BY <1>2, <1>10
<1> QED BY <1>2, <1>6, <1>7, <1>8, <1>10, <1>11, Zenon
        DEF RecordsAccepted, payload, entry, records, end, ids

\* decode_tile accepts what encode_tile writes, and reads the codes.
LEMMA TileDecodes ==
  ASSUME NEW sources \in Seq(Dataset), NEW content, Fused(content, sources), NEW key, NEW tile,
         tile = EncodeTile(key, content, Summarize(content), sources), Representable(tile)
  PROVE  DecodesTile(tile.payload, key, tile.summary)
         /\ ReverseDelta2D(tile.payload.data[1]) = content.codes
<1> DEFINE made == Summarize(content)
           c == Channels(content, made)
           stored == [k \in DOMAIN c |-> c[k].stored_bytes]
           payload == tile.payload
           entry == tile.summary
           p == Provenance(made)
           codes == content.codes
<1>1. PICK n \in 2 .. 3 :
        /\ Len(c) = n /\ DOMAIN c = 1 .. n
        /\ c[1] = Channel(1, Serialized, 2 * Len(codes), content.stored[1], Delta2D(codes))
        /\ c[2] = ProvenanceChannel(p, content.stored[2])
        /\ n = 3 => c[3] = Channel(3, MapSide, MapSide * MapSide, content.stored[3], made.quality)
  BY ChannelsKnown
<1>2. Written(tile, key, content, made, c, DataOffsets(stored)) BY EncodedIs
<1>3. /\ codes \in Seq(0 .. Codes - 1) /\ Len(codes) = Serialized * Serialized
      /\ content.stored \in [1 .. 3 -> Nat] /\ content.error \in 0 .. 4 * Codes
  BY DEF Fused
<1> HIDE DEF made, c, p
<1>4. /\ c[1].id = 1 /\ c[1].side = Serialized /\ c[1].logical_bytes = 2 * Len(codes)
      /\ c[1].stored_bytes = content.stored[1] /\ c[1].holds = Delta2D(codes)
      /\ c[2].id = 2 /\ c[2].side = p.side /\ c[2].logical_bytes = p.size
      /\ c[2].stored_bytes = content.stored[2] /\ c[2].holds = p
  BY <1>1 DEF Channel, ProvenanceChannel
<1>5. n = 3 => /\ c[3].id = 3 /\ c[3].side = MapSide /\ c[3].logical_bytes = MapSide * MapSide
               /\ c[3].stored_bytes = content.stored[3]
  BY <1>1 DEF Channel
<1>6. stored \in [1 .. n -> Nat]
  <2>1. \A k \in 1 .. n : c[k].stored_bytes \in Nat
    <3> SUFFICES ASSUME NEW k \in 1 .. n PROVE c[k].stored_bytes \in Nat
      OBVIOUS
    <3>1. k = 1 \/ k = 2 \/ (k = 3 /\ n = 3) OBVIOUS
    <3> QED BY <1>3, <1>4, <1>5, <3>1
  <2> QED BY <1>1, <2>1
<1>7. Numbered(c, n, stored)
  <2> SUFFICES ASSUME NEW k \in 1 .. n PROVE c[k].id = k /\ c[k].stored_bytes = stored[k]
    BY DEF Numbered
  <2>1. k = 1 \/ k = 2 \/ (k = 3 /\ n = 3) OBVIOUS
  <2>2. c[k].id = k BY <1>4, <1>5, <2>1
  <2> QED BY <1>1, <2>2
<1> HIDE DEF stored, payload, entry
<1>8. /\ entry.minimum = payload.minimum /\ entry.maximum = payload.maximum
      /\ entry.geometric_error = HalfUp(content.error * Millimeters, 8)
      /\ payload.key = key /\ payload.has_quality = (n = 3)
      /\ payload.primary = made.primary /\ payload.palette_count = Len(made.palette)
      /\ payload.geometric_error = FloatOf(content.error, 8)
      /\ payload.content_hash = ContentHash(key, c, codes)
      /\ DOMAIN payload.records = 1 .. n
      /\ payload.records = [k \in 1 .. n |->
           [id |-> c[k].id, side |-> c[k].side, data_offset |-> DataOffsets(stored)[k],
            stored_bytes |-> c[k].stored_bytes, logical_bytes |-> c[k].logical_bytes]]
      /\ payload.data = [k \in 1 .. n |-> c[k].holds]
  BY <1>1, <1>2, Zenon DEF Written, payload, entry
<1>9. /\ entry.minimum \in Range(codes) /\ entry.maximum \in Range(codes) /\ entry.minimum <= entry.maximum
      /\ \A code \in Range(codes) : entry.minimum <= code /\ code <= entry.maximum
  <2> DEFINE lowest == CHOOSE m \in Range(codes) : \A o \in Range(codes) : m <= o
             highest == CHOOSE m \in Range(codes) : \A o \in Range(codes) : m >= o
  <2>1. /\ lowest \in Range(codes) /\ highest \in Range(codes) /\ lowest <= highest
        /\ \A code \in Range(codes) : lowest <= code /\ code <= highest
    BY CodesBounded
  <2>2. entry.minimum = lowest /\ entry.maximum = highest BY <1>2 DEF Written, entry
  <2> HIDE DEF lowest, highest
  <2> QED BY <2>1, <2>2
<1>10. FramingAccepted(payload, key, entry)
  <2>1. payload.minimum <= payload.maximum BY <1>8, <1>9
  <2> QED BY <1>1, <1>2, <1>6, <2>1, FramingRead DEF payload, entry
<1>11. RecordsAccepted(payload, entry)
  BY <1>1, <1>2, <1>6, <1>7, RecordsRead DEF payload, entry
<1>12. \A k \in 1 .. n : /\ payload.records[k].id = c[k].id /\ payload.records[k].side = c[k].side
                         /\ payload.records[k].logical_bytes = c[k].logical_bytes
                         /\ payload.data[k] = c[k].holds
  BY <1>8
<1>13. 1 \in 1 .. n /\ 2 \in 1 .. n OBVIOUS
<1>14. payload.records[1].logical_bytes = 2 * payload.records[1].side * payload.records[1].side
  <2>1. payload.records[1].side = Serialized /\ payload.records[1].logical_bytes = 2 * (Serialized * Serialized)
    BY <1>3, <1>4, <1>12, <1>13
  <2>2. Serialized \in Nat
    <3>1. Core \in Nat BY FormatKnown
    <3> QED BY <3>1 DEF Serialized
  <2>3. 2 * (Serialized * Serialized) = 2 * Serialized * Serialized BY <2>2
  <2> QED BY <2>1, <2>3
<1>15. payload.has_quality => payload.records[3].logical_bytes = payload.records[3].side * payload.records[3].side
  <2>1. n = 3 => 3 \in 1 .. n OBVIOUS
  <2>2. CASE n = 3
    <3>1. payload.records[3].side = MapSide /\ payload.records[3].logical_bytes = MapSide * MapSide
      BY <1>5, <1>12, <2>1, <2>2
    <3> QED BY <3>1
  <2>3. CASE n # 3 BY <1>8, <2>3
  <2> QED BY <2>2, <2>3
<1>16. ReverseDelta2D(payload.data[1]) = codes
  <2>1. payload.data[1] = Delta2D(codes) BY <1>4, <1>12, <1>13
  <2> QED BY <1>3, <2>1, Reversed
<1>17. DecodedHash(payload, codes) = payload.content_hash
  <2>1. [k \in DOMAIN payload.records |->
          <<payload.records[k].id, payload.records[k].side, IF k = 1 THEN codes ELSE payload.data[k]>>]
        = [k \in DOMAIN c |-> <<c[k].id, c[k].side, IF k = 1 THEN codes ELSE c[k].holds>>]
    BY <1>1, <1>8, <1>12
  <2> QED BY <1>8, <2>1, Zenon DEF DecodedHash, ContentHash
<1>18. payload.data[2] = p /\ payload.records[2].side = p.side /\ payload.records[2].logical_bytes = p.size
  BY <1>4, <1>12, <1>13
<1>19. /\ HalfUp(payload.effective_resolution * Millimeters, Scale) = entry.effective_resolution
       /\ p.shares[Len(p.shares)] >= 0
  BY <1>18, Zenon DEF Representable, payload, entry
<1>20. ProvenanceAccepted(payload.data[2], payload)
  <2>1. LET q == Provenance(Summarize(content))
        IN  /\ payload.primary = Summarize(content).primary
            /\ payload.palette_count = Len(Summarize(content).palette)
            /\ payload.records[2].logical_bytes = q.size /\ payload.records[2].side = q.side
            /\ q.shares[Len(q.shares)] >= 0
    BY <1>8, <1>18, <1>19, Zenon DEF p, made
  <2>2. ProvenanceAccepted(Provenance(Summarize(content)), payload) BY <2>1, ProvenanceRead
  <2> QED BY <1>18, <2>2, Zenon DEF p, made
<1>21. SummariesAccepted(payload, entry, codes)
  <2>1. HalfUp(payload.geometric_error * Millimeters, Scale) = entry.geometric_error
    BY <1>3, <1>8, ErrorExact
  <2> QED BY <1>8, <1>9, <1>19, <2>1, Zenon DEF SummariesAccepted
<1> QED BY <1>10, <1>11, <1>14, <1>15, <1>16, <1>17, <1>20, <1>21, Zenon DEF DecodesTile, payload, entry

-----------------------------------------------------------------------------
(* The index *)

\* What the index says of a tile is what parse_tile_index demands.
LEMMA SummaryAccepted ==
  ASSUME NEW sources \in Seq(Dataset), NEW content, Fused(content, sources), NEW key
  PROVE  LET summary == EncodeTile(key, content, Summarize(content), sources).summary
         IN  /\ summary.minimum <= summary.maximum /\ summary.channel_count > 0
             /\ summary.primary \in {d.id : d \in Range(sources)}
<1> DEFINE palette == Palette(content)
           totals == Totals(content, palette, CoreSamples)
           made == Summarize(content)
           c == Channels(content, made)
           tile == EncodeTile(key, content, made, sources)
           codes == Range(content.codes)
           lowest == CHOOSE m \in codes : \A o \in codes : m <= o
           highest == CHOOSE m \in codes : \A o \in codes : m >= o
<1>1. PICK n \in Nat \ {0} : PaletteIs(content, n) BY PaletteSorted
<1>2. Len(c) > 0
  <2>1. PICK m \in 2 .. 3 : Len(c) = m BY ChannelsKnown
  <2> QED BY <2>1
<1>3. Written(tile, key, content, made, c, DataOffsets([k \in DOMAIN c |-> c[k].stored_bytes]))
  BY EncodedIs
<1>4. /\ tile.summary.minimum = lowest /\ tile.summary.maximum = highest
      /\ tile.summary.channel_count = Len(c) /\ tile.summary.primary = made.primary
  BY <1>3 DEF Written
<1>5. lowest <= highest BY CodesBounded
<1>6. made.primary \in {d.id : d \in Range(sources)}
  <2>1. /\ palette \in [1 .. n -> Sources(content) \cap Nat]
        /\ Whole \in Nat /\ totals \in [1 .. n -> 0 .. Whole]
    BY <1>1 DEF PaletteIs
  <2>2. made.primary = palette[FirstLargest(totals)] BY DEF Summarize, SummaryOf
  <2> HIDE DEF palette, totals, made
  <2>3. totals \in [1 .. n -> Nat]
    <3>1. 0 .. Whole \in SUBSET Nat BY <2>1
    <3> QED BY <2>1, <3>1
  <2>4. FirstLargest(totals) \in 1 .. n BY <2>3, FirstLargestExists
  <2>5. made.primary \in Sources(content) BY <2>1, <2>2, <2>4
  <2> QED BY <2>5 DEF Fused
<1> HIDE DEF lowest, highest, c, tile, made
<1>7. /\ tile.summary.minimum <= tile.summary.maximum /\ tile.summary.channel_count > 0
      /\ tile.summary.primary \in {d.id : d \in Range(sources)}
  BY <1>2, <1>4, <1>5, <1>6
<1> QED BY <1>7, Zenon DEF tile, made

LEMMA TilesRead ==
  ASSUME FileWritten
  PROVE  TileIndexAccepted
<1> USE DEF FileWritten
<1> DEFINE entries == FindChunk(TIDX).holds
           levels == {t.level : t \in Range(tiles)}
<1>1. FindChunk(TIDX) = TileIndexChunk /\ FindChunk(DSET) = DatasetChunk(StringTable) BY FileFramed
<1>2. /\ file.header.tile_count = Len(tiles) /\ file.header.index_hash = Chunks(StringTable)[TIDX]
      /\ file.header.maximum_level = MaximumLevel
  BY DEF MakeDatabaseFile
<1>3. Chunks(StringTable)[TIDX] = TileIndexChunk BY DEF Chunks, TIDX
<1>4. FindChunk(TIDX).size = IndexRecord * Len(tiles) BY <1>1 DEF TileIndexChunk, Chunk
<1>5. entries = [k \in DOMAIN index |-> [place |-> index[k], summary |-> encoded[k].summary]]
  BY <1>1 DEF TileIndexChunk, Chunk
<1>6. tiles \in Seq(TileRecord) /\ tiles # <<>> BY PackingAssumption DEF IInv, TypeOK, PhaseInv, Admissible
<1>7. DOMAIN tiles = 1 .. Len(tiles) /\ Len(tiles) \in Nat \ {0} BY <1>6, LenProperties, EmptySeq
<1>8. index \in Seq([key : TileRecord, pack_id : Nat, payload_offset : Nat, stored_bytes : Nat])
  BY DEF IInv, TypeOK
<1>9. DOMAIN index = 1 .. Len(tiles) BY <1>8, LenProperties, Complete
<1>10. \A k \in 1 .. Len(tiles) : index[k].key = tiles[k] BY Complete DEF IInv, IndexInv
<1>11. /\ Range(tiles) \in SUBSET TileRecord /\ \A k \in 1 .. Len(tiles) : tiles[k] \in Range(tiles)
       /\ IsFiniteSet(Range(tiles))
  BY <1>6, RangeFinite
<1>12. levels \in SUBSET Nat /\ levels # {} /\ IsFiniteSet(levels)
  <2>1. \A t \in Range(tiles) : t.level \in Nat BY <1>11 DEF TileRecord
  <2>2. 1 \in 1 .. Len(tiles) BY <1>7
  <2>3. tiles[1] \in Range(tiles) BY <1>11, <2>2
  <2>4. levels \in SUBSET Nat BY <2>1
  <2>5. levels # {} BY <2>3
  <2> DEFINE R == [t \in Range(tiles) |-> t.level]
  <2>6. R \in Surjection(Range(tiles), levels) BY DEF Surjection
  <2> HIDE DEF levels, R
  <2>7. IsFiniteSet(levels) BY <1>11, <2>6, FS_Surjection
  <2> QED BY <2>4, <2>5, <2>7
<1>13. \A t \in Range(tiles) : t.level <= MaximumLevel
  <2>1. PICK top \in levels : \A l \in levels : l <= top
    <3> HIDE DEF levels
    <3> QED BY <1>12, Extremes
  <2>2. PICK d \in Range(tiles) : d.level = top OBVIOUS
  <2>3. \A t \in Range(tiles) : t.level <= d.level BY <2>1, <2>2
  <2>4. MaximumLevel = (CHOOSE deepest \in Range(tiles) : \A t \in Range(tiles) : t.level <= deepest.level).level
    BY DEF MaximumLevel
  <2> QED BY <2>3, <2>4
<1>14. {d.id : d \in Range(FindChunk(DSET).holds)} = {d.id : d \in Range(datasets)}
  <2> DEFINE records == DatasetChunk(StringTable).holds
             n == Len(datasets)
  <2>1. /\ Registry \in [1 .. n -> Range(datasets)]
        /\ \A d \in Range(datasets) : \E k \in 1 .. n : Registry[k].id = d.id
    BY RegistrySorts
  <2>2. DOMAIN records = 1 .. n /\ \A k \in 1 .. n : records[k].id = Registry[k].id
    BY <2>1 DEF DatasetChunk, Chunk
  <2> HIDE DEF records, n
  <2>3. \A d \in Range(records) : \E e \in Range(datasets) : d.id = e.id BY <2>1, <2>2 DEF Range
  <2>4. \A e \in Range(datasets) : \E d \in Range(records) : d.id = e.id
    <3> SUFFICES ASSUME NEW e \in Range(datasets) PROVE \E d \in Range(records) : d.id = e.id
      OBVIOUS
    <3>1. PICK k \in 1 .. n : Registry[k].id = e.id BY <2>1
    <3>2. records[k] \in Range(records) /\ records[k].id = e.id BY <2>2, <3>1 DEF Range
    <3> QED BY <3>2
  <2>5. {d.id : d \in Range(records)} = {d.id : d \in Range(datasets)} BY <2>3, <2>4
  <2> QED BY <1>1, <2>5, Zenon DEF records
<1>15. ASSUME NEW k \in 1 .. Len(tiles)
       PROVE  /\ encoded[k].summary.minimum <= encoded[k].summary.maximum
              /\ encoded[k].summary.channel_count > 0
              /\ encoded[k].summary.primary \in {d.id : d \in Range(datasets)}
  <2>1. PICK d \in Databases :
          /\ tiles = d.tiles /\ contents = d.contents /\ datasets = d.datasets
          /\ encoded = [j \in DOMAIN d.tiles |->
               EncodeTile(d.tiles[j], d.contents[j], Summarize(d.contents[j]), d.datasets)]
    BY DEF Prepared
  <2>2. k \in DOMAIN d.tiles BY <1>7, <2>1
  <2>3. encoded[k] = EncodeTile(d.tiles[k], d.contents[k], Summarize(d.contents[k]), d.datasets)
    BY <2>1, <2>2
  <2>4. Fused(d.contents[k], d.datasets) /\ d.datasets \in Seq(Dataset) BY <2>2, DatabaseAssumption
  <2>5. LET summary == EncodeTile(d.tiles[k], d.contents[k], Summarize(d.contents[k]), d.datasets).summary
        IN  /\ summary.minimum <= summary.maximum /\ summary.channel_count > 0
            /\ summary.primary \in {e.id : e \in Range(d.datasets)}
    BY <2>4, SummaryAccepted
  <2> QED BY <2>1, <2>3, <2>5
<1> HIDE DEF entries, levels
<1>16. Range(entries) = {entries[k] : k \in 1 .. Len(tiles)} BY <1>5, <1>9 DEF Range
<1>17. ASSUME NEW k \in 1 .. Len(tiles)
       PROVE  /\ entries[k].summary.minimum <= entries[k].summary.maximum
              /\ entries[k].summary.channel_count > 0
              /\ entries[k].summary.primary \in {d.id : d \in Range(FindChunk(DSET).holds)}
              /\ entries[k].place.key.level <= file.header.maximum_level
  <2>1. entries[k].summary = encoded[k].summary /\ entries[k].place = index[k] BY <1>5, <1>9
  <2>2. tiles[k].level <= MaximumLevel BY <1>11, <1>13
  <2>3. entries[k].place.key.level <= file.header.maximum_level BY <1>2, <1>10, <2>1, <2>2
  <2>4. entries[k].summary.primary \in {d.id : d \in Range(FindChunk(DSET).holds)}
    BY <1>14, <1>15, <2>1, Zenon
  <2>5. entries[k].summary.minimum <= entries[k].summary.maximum /\ entries[k].summary.channel_count > 0
    BY <1>15, <2>1, Zenon
  <2> QED BY <2>3, <2>4, <2>5
<1>18. \A e \in Range(entries) :
         /\ e.summary.minimum <= e.summary.maximum /\ e.summary.channel_count > 0
         /\ e.summary.primary \in {d.id : d \in Range(FindChunk(DSET).holds)}
         /\ e.place.key.level <= file.header.maximum_level
  BY <1>16, <1>17
<1>19. FindChunk(TIDX).size = IndexRecord * file.header.tile_count BY <1>2, <1>4
<1>20. file.header.index_hash = FindChunk(TIDX) BY <1>1, <1>2, <1>3, Zenon
<1> QED BY <1>18, <1>19, <1>20, Zenon DEF TileIndexAccepted, entries
-----------------------------------------------------------------------------
(* The file is the one that make_database_file completes when the packs are   *)
(* done, whatever it was made from.                                           *)

FileInv == IInv /\ Prepared /\ (file # NoFile => FileWritten)

LEMMA FileInit == DatabaseInit => FileInv
  BY InitInvariant DEF DatabaseInit, FileInv, Prepared

\* What the file is made from does not change behind its back.
LEMMA FileDetermined ==
  ASSUME UNCHANGED vars, UNCHANGED written
  PROVE  MakeDatabaseFile(Chunks(StringTable))' = MakeDatabaseFile(Chunks(StringTable))
<1>1. /\ tiles' = tiles /\ packs' = packs /\ index' = index
      /\ datasets' = datasets /\ encoded' = encoded
  BY DEF vars, written
<1>2. Registry' = Registry BY <1>1 DEF Registry
<1>3. Texts' = Texts BY <1>1 DEF Texts
<1>4. StringTable' = StringTable BY <1>3 DEF StringTable
<1>5. MetaOffsets' = MetaOffsets BY <1>2 DEF MetaOffsets
<1>6. DatasetChunk(StringTable)' = DatasetChunk(StringTable) BY <1>2, <1>4, <1>5 DEF DatasetChunk
<1>7. MetaChunk' = MetaChunk BY <1>2, <1>5 DEF MetaChunk
<1>8. PackChunk(StringTable)' = PackChunk(StringTable) BY <1>1, <1>4 DEF PackChunk
<1>9. TileIndexChunk' = TileIndexChunk BY <1>1 DEF TileIndexChunk
<1>10. Chunks(StringTable)' = Chunks(StringTable)
  BY <1>4, <1>6, <1>7, <1>8, <1>9 DEF Chunks
<1>11. RegistryHash' = RegistryHash /\ MaximumLevel' = MaximumLevel
  BY <1>1, <1>2 DEF RegistryHash, MaximumLevel
<1> QED BY <1>1, <1>10, <1>11 DEF MakeDatabaseFile

LEMMA PreparedKept ==
  ASSUME Prepared, tiles' = tiles, UNCHANGED written
  PROVE  Prepared'
  BY DEF Prepared, written

\* A packed database is written once.
LEMMA WriteKept ==
  ASSUME FileInv, UNCHANGED vars, UNCHANGED written,
         \/ file' = file
         \/ phase = "done" /\ file' = MakeDatabaseFile(Chunks(StringTable))
  PROVE  FileInv'
<1>1. IInv' BY StutterInvariant DEF FileInv
<1>2. Prepared' BY PreparedKept DEF FileInv, vars
<1>3. ASSUME file' # NoFile PROVE FileWritten'
  <2>1. phase' = "done" BY <1>3 DEF FileInv, FileWritten, vars
  <2>2. file' = MakeDatabaseFile(Chunks(StringTable)) BY <1>3 DEF FileInv, FileWritten
  <2>3. file' = MakeDatabaseFile(Chunks(StringTable))' BY <2>2, FileDetermined
  <2> QED BY <1>1, <1>2, <2>1, <2>3 DEF FileWritten
<1> QED BY <1>1, <1>2, <1>3 DEF FileInv

\* Packing ends before the file is written.
LEMMA PackingKept ==
  ASSUME FileInv, Next, UNCHANGED <<written, file>>
  PROVE  FileInv'
<1>1. CASE phase = "done"
  <2>1. UNCHANGED vars
    BY <1>1 DEF Next, Check, GiveUp, Extend, CloseRange, Planned, Place, ClosePack, Finish, Ended
  <2> QED BY <2>1, WriteKept
<1>2. CASE phase # "done"
  <2>1. IInv'
    BY CheckInvariant, GiveUpInvariant, ExtendInvariant, CloseRangeInvariant, PlannedInvariant,
       PlaceInvariant, ClosePackInvariant, FinishInvariant, StutterInvariant
       DEF Next, Ended, FileInv
  <2>2. tiles' = tiles
    BY DEF Next, Check, GiveUp, Extend, CloseRange, Planned, Place, ClosePack, Finish, Ended, vars
  <2>3. Prepared' BY <2>2, PreparedKept DEF FileInv
  <2>4. file' = NoFile BY <1>2 DEF FileInv, FileWritten
  <2> QED BY <2>1, <2>3, <2>4 DEF FileInv
<1> QED BY <1>1, <1>2

LEMMA CancelKept == FileInv /\ CancelDatabase => FileInv'
<1> SUFFICES ASSUME FileInv, CancelDatabase PROVE FileInv'
  OBVIOUS
<1>1. /\ phase = "done" /\ phase' = "failed" /\ file = NoFile /\ file' = NoFile
      /\ UNCHANGED <<tiles, target, first, at, bytes, ranges, packs, index>> /\ UNCHANGED written
  BY DEF CancelDatabase
<1>2. TypeOK' BY <1>1 DEF FileInv, IInv, TypeOK
<1>3. PhaseInv' /\ RangesInv' /\ PlanInv'
  BY <1>1 DEF FileInv, IInv, PhaseInv, RangesInv, PlanInv
<1>4. BuildInv' /\ PacksInv' /\ IndexInv'
  BY <1>1 DEF FileInv, IInv, BuildInv, PacksInv, IndexInv
<1>5. Prepared' BY <1>1, PreparedKept DEF FileInv
<1> QED BY <1>1, <1>2, <1>3, <1>4, <1>5 DEF FileInv, IInv

LEMMA FileKept == FileInv /\ [DatabaseNext]_databaseVars => FileInv'
<1>1. FileInv /\ WriteDatabase => FileInv' BY WriteKept DEF WriteDatabase
<1>2. FileInv /\ UNCHANGED databaseVars => FileInv' BY WriteKept DEF databaseVars
<1> QED BY <1>1, <1>2, PackingKept, CancelKept DEF DatabaseNext

LEMMA FileReadable == FileInv => FileOpens
<1> SUFFICES ASSUME FileInv, file # NoFile PROVE FileOpens
  BY DEF FileOpens
<1>1. FileWritten BY DEF FileInv
<1> QED BY <1>1, FileFramed, StringsRead, DatasetsRead, PacksRead, TilesRead, Zenon DEF FileOpens

\* What is read of every tile is what it was made from.
LEMMA TilesDecoded == FileInv => TilesDecode
<1> SUFFICES ASSUME FileInv, file # NoFile, NEW k \in DOMAIN tiles, Representable(encoded[k])
             PROVE  /\ DecodesTile(encoded[k].payload, tiles[k], FindChunk(TIDX).holds[k].summary)
                    /\ ReverseDelta2D(encoded[k].payload.data[1]) = contents[k].codes
  BY DEF TilesDecode
<1>1. FileWritten BY DEF FileInv
<1>2. FindChunk(TIDX) = TileIndexChunk BY <1>1, FileFramed
<1>3. DOMAIN index = DOMAIN tiles
  <2>1. phase = "done" BY <1>1 DEF FileWritten
  <2>2. tiles \in Seq(TileRecord)
    BY PackingAssumption DEF FileInv, IInv, TypeOK, PhaseInv, Admissible
  <2>3. index \in Seq([key : TileRecord, pack_id : Nat, payload_offset : Nat, stored_bytes : Nat])
    BY DEF FileInv, IInv, TypeOK
  <2>4. Len(index) = Len(tiles) BY <2>1, Complete DEF FileInv
  <2> QED BY <2>2, <2>3, <2>4, LenProperties
<1>4. FindChunk(TIDX).holds[k].summary = encoded[k].summary
  <2>1. TileIndexChunk.holds = [j \in DOMAIN index |-> [place |-> index[j], summary |-> encoded[j].summary]]
    BY DEF TileIndexChunk, Chunk
  <2> QED BY <1>2, <1>3, <2>1
<1>5. PICK d \in Databases :
        /\ tiles = d.tiles /\ contents = d.contents /\ datasets = d.datasets
        /\ encoded = [j \in DOMAIN d.tiles |->
             EncodeTile(d.tiles[j], d.contents[j], Summarize(d.contents[j]), d.datasets)]
  BY DEF FileInv, Prepared
<1>6. encoded[k] = EncodeTile(tiles[k], contents[k], Summarize(contents[k]), datasets) BY <1>5
<1>7. Fused(contents[k], datasets) /\ datasets \in Seq(Dataset) BY <1>5, DatabaseAssumption
<1>8. /\ DecodesTile(encoded[k].payload, tiles[k], encoded[k].summary)
      /\ ReverseDelta2D(encoded[k].payload.data[1]) = contents[k].codes
  BY <1>6, <1>7, TileDecodes
<1> QED BY <1>4, <1>8

\* The reader opens every database that the builder completes: whatever its
\* tiles, sources, texts and metadata, the chunks are found where the directory
\* says, apart from each other; every text, dataset, pack and tile refers to what
\* was meant; and the hashes are those of what is read.
THEOREM FileAlwaysOpens == DatabaseSpec => []FileOpens
<1> QED BY FileInit, FileKept, FileReadable, PTL DEF DatabaseSpec

\* A tile that is read is the tile that was built: for every content, decode_tile
\* accepts the payload of encode_tile together with what the index says of it -
\* the regions of its channels, the palette and the shares that it parses, the
\* rounded error, the hash - and its elevations are those of the content, bit
\* for bit.
THEOREM TilesAlwaysDecode == DatabaseSpec => []TilesDecode
<1> QED BY FileInit, FileKept, TilesDecoded, PTL DEF DatabaseSpec

\* The packs of a database that is written or cancelled are those that module
\* Packing allows.
THEOREM ReaderAcceptsWritten == DatabaseSpec => []ReaderAccepts
<1>1. FileInv => ReaderAccepts
  BY Complete, RegistryOfComplete, EntriesOfComplete, BoundsOfComplete, PayloadsOfComplete
     DEF FileInv, ReaderAccepts
<1> QED BY FileInit, FileKept, <1>1, PTL DEF DatabaseSpec

\* The same of the packs that a database refers to.
THEOREM PacksFilledWritten == DatabaseSpec => []PacksFilled
<1>1. FileInv /\ SizeInv /\ [DatabaseNext]_databaseVars => SizeInv'
  BY ExtendSized, CloseRangeSized, PlannedSized, PlaceSized, ClosePackSized, OtherSized
     DEF DatabaseNext, Next, Ended, WriteDatabase, databaseVars, FileInv
<1>2. SizeInv => PacksFilled BY DEF SizeInv
<1>3. DatabaseInit => SizeInv BY SizeInit DEF DatabaseInit
<1> QED BY FileInit, FileKept, <1>1, <1>2, <1>3, PTL DEF DatabaseSpec
=============================================================================
