--------------------------- MODULE RasterSampling ---------------------------
(***************************************************************************)
(* What a raster answers at a coordinate, and what it answers to a batch   *)
(* of coordinates (GdalRasterSource, src/src/builder/raster_source.cpp):   *)
(* one sample at a time, from a window of the file that is read at once,   *)
(* or from samples that are held in memory.                                *)
(*                                                                         *)
(* Coordinates, footprints and fractions are in 1 / Grain of a pixel, and  *)
(* elevations in 1 / (Grain * Grain). A raster lies with its rows along    *)
(* the parallels; the projection of other rasters is left out, but it may  *)
(* fail at a coordinate.                                                   *)
(***************************************************************************)
EXTENDS Integers, Sequences, TLC

CONSTANTS
  Grain,     \* positions in a pixel, an even number
  Turn,      \* positions along a parallel
  Limit,     \* the largest raw sample whose elevation is finite
  MaxBulk,   \* pixels in the largest window that is read at once (4 * 1024 * 1024)
  None,      \* no sample
  Hard       \* an error that is no missing sample

ASSUME SamplingAssumption ==
  Grain \in Nat \ {0} /\ Grain % 2 = 0 /\ Turn \in Nat /\ Limit \in Nat /\ MaxBulk \in Nat

Void == -1   \* the declared no-data value, or no number

-----------------------------------------------------------------------------
(* Pixels *)

\* Longitudes lie in -Turn/2 .. Turn/2; a footprint may count them from 0 on.
Longitude(raster, c) == IF raster.west >= 0 /\ c.x < 0 THEN c.x + Turn ELSE c.x

\* Both borders of a footprint belong to it.
Covers(raster, c) ==
  /\ Longitude(raster, c) \in raster.west .. raster.west + raster.width * Grain
  /\ c.y \in 0 .. raster.height * Grain

PixelCoordinate(raster, c) == [x |-> Longitude(raster, c) - raster.west, y |-> c.y]

Clamped(n, low, high) == IF n < low THEN low ELSE IF n > high THEN high ELSE n

\* The lower of the two pixels, on an axis of n, between whose centers we are,
\* the upper one, and how far from the lower one.
Lower(at, n)    == Clamped((at - Grain \div 2) \div Grain, 0, n - 1)
Upper(at, n)    == Clamped(Lower(at, n) + 1, 0, n - 1)
Fraction(at, n) == Clamped(at - Grain \div 2 - Grain * Lower(at, n), 0, Grain)

\* The four pixels around a point, and what is said of them.
Around(raster, pixel) ==
  [x0 |-> Lower(pixel.x, raster.width),    x1 |-> Upper(pixel.x, raster.width),
   y0 |-> Lower(pixel.y, raster.height),   y1 |-> Upper(pixel.y, raster.height),
   fx |-> Fraction(pixel.x, raster.width), fy |-> Fraction(pixel.y, raster.height)]

-----------------------------------------------------------------------------
(* Reading. Raster 0 holds the elevations, the others are the companions     *)
(* that tell their quality. A raster is read from its file, from samples in  *)
(* memory, or from a window that was read before.                            *)

FromFile              == [kind |-> "file"]
FromMemory(samples)   == [kind |-> "memory", values |-> samples]
FromWindow(w, values) == [kind |-> "window", window |-> w, values |-> values]

\* GDALRasterBand::RasterIO: the rows of a window, one behind the other.
RasterIO(raster, k, x0, y0, width, height) ==
  [i \in 0 .. width * height - 1 |->
     raster.pixels[k][(y0 + (i \div width)) * raster.width + x0 + (i % width)]]

\* Mistake: the second row is looked for as if there were two columns.
DirectTaps_TwoColumns(raster, k, p) ==
  LET width  == p.x1 - p.x0 + 1
      values == RasterIO(raster, k, p.x0, p.y0, width, p.y1 - p.y0 + 1) @@ (2 :> Void @@ 3 :> Void)
  IN  <<values[0], values[p.x1 - p.x0], values[(p.y1 - p.y0) * 2],
        values[(p.y1 - p.y0) * 2 + p.x1 - p.x0]>>

\* The four pixels are read from the file by themselves.
DirectTaps(raster, k, p) ==
  LET width  == p.x1 - p.x0 + 1
      values == RasterIO(raster, k, p.x0, p.y0, width, p.y1 - p.y0 + 1)
  IN  <<values[0], values[p.x1 - p.x0], values[(p.y1 - p.y0) * width],
        values[(p.y1 - p.y0) * width + p.x1 - p.x0]>>

\* They are taken from the samples of a whole raster, row by row.
CachedTaps(samples, columns, p) ==
  <<samples[p.y0 * columns + p.x0], samples[p.y0 * columns + p.x1],
    samples[p.y1 * columns + p.x0], samples[p.y1 * columns + p.x1]>>

\* They are taken from a window that was read before.
WindowTaps(values, window, p) ==
  LET columns == window.x1 - window.x0 + 1
      at(x, y) == values[(y - window.y0) * columns + x - window.x0]
  IN  <<at(p.x0, p.y0), at(p.x1, p.y0), at(p.x0, p.y1), at(p.x1, p.y1)>>

TapsOf(raster, k, p, view) ==
  CASE view.kind = "file"   -> DirectTaps(raster, k, p)
    [] view.kind = "memory" -> CachedTaps(view.values, raster.width, p)
    [] view.kind = "window" -> WindowTaps(view.values, view.window, p)

-----------------------------------------------------------------------------
(* One sample *)

Taps == 1 .. 4

Weights(p) ==
  <<(Grain - p.fx) * (Grain - p.fy), p.fx * (Grain - p.fy), (Grain - p.fx) * p.fy, p.fx * p.fy>>

Distance(p, tap) ==
  LET dx == p.fx - Grain * <<0, 1, 0, 1>>[tap]
      dy == p.fy - Grain * <<0, 0, 1, 1>>[tap]
  IN  dx * dx + dy * dy

Valid(values) == {tap \in Taps : values[tap] # Void}

\* The nearest of the valid pixels, the first of those at one distance.
Nearest(values, p) ==
  CHOOSE tap \in Valid(values) : \A other \in Valid(values) :
    \/ Distance(p, tap) < Distance(p, other)
    \/ Distance(p, tap) = Distance(p, other) /\ tap <= other

Sampled(raw, p, filled) ==
  IF raw > Limit * Grain * Grain THEN Hard
  ELSE [elevation |-> raw, interpolated |-> p.x0 # p.x1 \/ p.y0 # p.y1, filled |-> filled, quality |-> {}]

\* Only pixels of some weight count, unless a missing one is to be replaced.
Interpolate(raster, values, p) ==
  IF \A tap \in Taps : Weights(p)[tap] > 0 => tap \in Valid(values)
  THEN LET part(tap) == IF Weights(p)[tap] > 0 THEN Weights(p)[tap] * values[tap] ELSE 0
       IN  Sampled(part(1) + part(2) + part(3) + part(4), p, FALSE)
  ELSE IF raster.no_data = "error" \/ Valid(values) = {} THEN None
  ELSE Sampled(Grain * Grain * values[Nearest(values, p)], p, TRUE)

\* ApplyQualityValues: what the companions say of a sample, all four pixels of
\* each counting. No code of Maskelyne's, or a zero, takes the sample away.
Flagged(raster, sample, companions) ==
  LET some(k, Bad(_)) == \E tap \in Taps : companions[k][tap] = Void \/ Bad(companions[k][tap])
      with(flags) == [sample EXCEPT !.quality = flags]
      zero(v) == v = 0
      unsure(v) == v \notin 10 .. 15
      coarse(v) == v > 80
      wrong(v) == v > 5
  IN  CASE raster.quality = "none" -> sample
        [] raster.quality = "maskelyne_confidence_v1" ->
             IF some(1, zero) THEN None
             ELSE with(IF some(1, unsure) THEN {"interpolated", "lower_confidence"} ELSE {})
        [] OTHER ->
             with((IF some(1, zero) THEN {"filled_no_data", "lower_confidence"} ELSE {})
                  \cup (IF some(2, coarse) \/ some(3, wrong) THEN {"lower_confidence"} ELSE {}))

\* ApplyQualityBatch and ApplyQualitySample: the companions are looked at for the
\* samples that are there.
Judged(raster, sample, p, views) ==
  IF sample \in {None, Hard} THEN sample
  ELSE Flagged(raster, sample, [k \in 1 .. raster.companions |-> TapsOf(raster, k, p, views[k])])

SampleAt(raster, c, views) ==
  LET p == Around(raster, PixelCoordinate(raster, c))
  IN  CASE ~Covers(raster, c) -> None
        [] Covers(raster, c) /\ c \in raster.lost -> Hard
        [] OTHER -> Judged(raster, Interpolate(raster, TapsOf(raster, 0, p, views[0]), p), p, views)

-----------------------------------------------------------------------------
(* A batch, a sequence of coordinates *)

\* One error that is no missing sample ends the batch.
Batched(samples) == IF \E k \in DOMAIN samples : samples[k] = Hard THEN Hard ELSE samples

Covered(raster, batch) == {k \in DOMAIN batch : Covers(raster, batch[k])}

\* The pixels that the covered coordinates of a batch need.
Window(raster, batch) ==
  LET around == {Around(raster, PixelCoordinate(raster, batch[k])) : k \in Covered(raster, batch)}
      least(ns) == CHOOSE n \in ns : \A m \in ns : n <= m
      most(ns) == CHOOSE n \in ns : \A m \in ns : n >= m
  IN  [x0 |-> least({p.x0 : p \in around}), x1 |-> most({p.x1 : p \in around}),
       y0 |-> least({p.y0 : p \in around}), y1 |-> most({p.y1 : p \in around})]

Pixels(window) == (window.x1 - window.x0 + 1) * (window.y1 - window.y0 + 1)

\* SampleBatchUnlocked with a window that is not too large.
BulkBatch(raster, batch) ==
  LET w     == Window(raster, batch)
      views == [k \in 0 .. raster.companions |->
                  FromWindow(w, RasterIO(raster, k, w.x0, w.y0, w.x1 - w.x0 + 1, w.y1 - w.y0 + 1))]
  IN  Batched([i \in DOMAIN batch |-> SampleAt(raster, batch[i], views)])

\* SampleBatchUnlocked sample by sample, the rasters that are in memory from
\* there. The order of the samples, block by block of the file, is left out.
SingleBatch(raster, batch, views) ==
  Batched([i \in DOMAIN batch |-> SampleAt(raster, batch[i], views)])

\* IRasterSource::TrySample
TrySample(raster, c) == SampleAt(raster, c, [k \in 0 .. raster.companions |-> FromFile])

-----------------------------------------------------------------------------
(* A mosaic, which has several rasters as its components *)

\* MosaicRasterSource::Sample asks the components in order up to the first
\* that has a sample, or an error.
FirstSample(answers) ==
  LET first[k \in 1 .. Len(answers) + 1] ==
        IF k > Len(answers) THEN None
        ELSE IF answers[k] # None THEN answers[k] ELSE first[k + 1]
  IN  first[1]

\* Mistake: a later component overwrites an earlier one.
Merged_Last(batch, answers) ==
  [k \in DOMAIN batch |-> FirstSample([j \in DOMAIN answers |-> answers[Len(answers) + 1 - j][k]])]

\* MosaicRasterSource::SampleBatch, when all the components that cover some of
\* the batch have answered.
Merged(batch, answers) ==
  [k \in DOMAIN batch |-> FirstSample([j \in DOMAIN answers |-> answers[j][k]])]
=============================================================================
