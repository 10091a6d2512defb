--------------------------- MODULE MCDatabaseFile ---------------------------
(***************************************************************************)
(* Packs: up to four tiles of two faces and two levels, with payloads that *)
(* end on, before and behind a multiple of eight, and targets around the   *)
(* sizes of packs with one and two of them. Contents: cores of three by    *)
(* three samples, made from one to three of three sources.                 *)
(***************************************************************************)
EXTENDS DatabaseFile

Source(id, resolution, strings, metadata) ==
  [id |-> id, resolution |-> resolution, strings |-> strings, metadata |-> metadata]

\* Out of order; they share texts, and have metadata of several lengths.
Low    == Source(2, 40, <<5, Empty>>, 21)
Middle == Source(5, 6, <<5, 3>>, 22)
High   == Source(9, 4, <<Empty, 4>>, 23)

\* 0.35 m, which ends with half of a tenth (Millimeters), and its float does not.
Split == Source(2, 7, <<3, 4>>, 21)

MCLength == [t \in {Empty, 3, 4, 5, 10, 11, 12, 13, 21, 22, 23} |->
               IF t = Empty THEN 0 ELSE IF t < 10 THEN t ELSE IF t < 20 THEN 17 ELSE t - 18]

MCPathOf == [pack \in 0 .. 3 |-> 10 + pack]

\* Elevations that fall and rise through the whole range of codes.
Terrain == [k \in 1 .. 25 |-> (7 * k * k) % 16]
Plain   == [k \in 1 .. 25 |-> 9]

Content(weights, quality, codes, stored) ==
  [weights |-> weights, quality |-> [s \in CoreSamples |-> IF s = <<1, 0>> THEN quality ELSE {}],
   codes |-> codes, error |-> 3, children |-> {}, stored |-> stored]

From(id) == [s \in CoreSamples |-> [i \in {id} |-> Unit]]

\* One source contributes nowhere.
Unused == [s \in CoreSamples |-> (2 :> Unit) @@ (5 :> 0) @@ (9 :> 0)]

\* Two sources side by side, the better one on one column.
Beside == [s \in CoreSamples |->
            IF s[1] = 2 THEN (2 :> 0) @@ (9 :> Unit) ELSE (2 :> Unit) @@ (9 :> 0)]

\* Three sources with equal shares, and one with three quarters of a corner.
Equal == [s \in CoreSamples |-> [i \in {2, 5, 9} |-> IF i = <<2, 5, 9>>[s[1] + 1] THEN Unit ELSE 0]]
Corner == [s \in CoreSamples |->
            IF s = <<0, 0>> THEN (2 :> 0) @@ (5 :> 64) @@ (9 :> 192)
            ELSE (2 :> 100) @@ (5 :> 156) @@ (9 :> 0)]

\* The floats of the first two shares leave less than nothing to the last.
Trace == [s \in CoreSamples |->
           IF s = <<2, 2>> THEN (2 :> 133) @@ (5 :> 122) @@ (9 :> 1)
           ELSE (2 :> 128) @@ (5 :> 128) @@ (9 :> 0)]

Blends == {From(2), From(9), Unused, Beside, Equal, Corner, Trace}

Contents == {Content(w, q, c, <<7, 5, 3>>) : w \in Blends, q \in {{}, {"void"}}, c \in {Terrain, Plain}}

\* The size of a payload depends on the channels alone.
Stored(content) == SubSeq(content.stored, 1, IF QualityMap(content) = <<>> THEN 2 ELSE 3)

PayloadBytes(content) == DataOffsets(Stored(content))[Len(Stored(content)) + 1]

Tile(place, content) ==
  [face |-> place[1], level |-> place[2], morton |-> place[3], bytes |-> PayloadBytes(content)]

Database(places, made, sources) ==
  [tiles |-> [k \in DOMAIN places |-> Tile(places[k], made[k])], contents |-> made, datasets |-> sources]

\* What tiles are made from varies in databases of two tiles. The third size
\* counts only where a flag is set.
Blended ==
  {Database(<<<<0, 1, 2>>, <<1, 0, 0>>>>, <<c, Content(From(9), {}, Plain, <<8, 8, 0>>)>>, <<High, Low, Middle>>) :
     c \in Contents}
  \cup {Database(<<<<0, 0, 0>>>>, <<Content(From(s.id), {}, Terrain, <<8, 1, 0>>)>>, <<s>>) :
          s \in {Low, Middle, High, Split}}

Places == {<<0, 0, 0>>, <<0, 1, 1>>, <<0, 1, 2>>, <<1, 1, 0>>}

KeyOf(place) == [face |-> place[1], level |-> place[2], morton |-> place[3]]

Sorted == {s \in UNION {[1 .. n -> Places] : n \in 1 .. 4} :
             \A k \in 2 .. Len(s) : KeyLess(KeyOf(s[k - 1]), KeyOf(s[k]))}

\* Four tiles of one level too, and a repeated key.
Others == {<<<<0, 1, 0>>, <<0, 1, 1>>, <<0, 1, 2>>, <<0, 1, 3>>>>, <<<<0, 1, 1>>, <<0, 1, 1>>>>}

Sized == {Content(From(2), {}, Plain, stored) : stored \in {<<8, 8, 0>>, <<8, 1, 0>>, <<90, 3, 0>>}}

Packed ==
  UNION {{Database(s, made, <<Low>>) : made \in [1 .. Len(s) -> Sized]} : s \in Sorted \cup Others}
  \cup {Database(<<<<0, 0, 0>>>>, <<Content(From(2), {}, Plain, <<300, 1, 0>>)>>, <<Low>>),
        Database(<<>>, <<>>, <<Low>>)}

MCDatabases == Blended \cup Packed

MCInputs == {d.tiles : d \in MCDatabases}

MCTargets == {0, 1, 280, 281, 288, 289, 504, 505, 512, 513, 10000}
=============================================================================
