---------------------------- MODULE MCRasterTile ----------------------------
(***************************************************************************)
(* Four families of scenes. In the first, sources decode while every step  *)
(* may be interrupted: two of one mosaic with a companion in common, or    *)
(* the same one in several processes. In the second, decoding fails and a  *)
(* later batch is sampled without. In the third, a raster of few pixels    *)
(* has all patterns of missing pixels, or one bad pixel somewhere. In the  *)
(* fourth, two neighboring tiles are fused from sources with holes; some   *)
(* have effective resolutions, sources or halos of their own.              *)
(***************************************************************************)
EXTENDS RasterTile

MCPathOf == <<<<"a", "q">>, <<"b", "q">>, <<"c", "d", "e", "f">>, <<"g">>, <<"h">>, <<"i">>, <<"g">>, <<"g">>>>
MCProcessOf == <<"one", "one", "one", "one", "one", "one", "two", "three">>

Good == <<12, 50, 1>>   \* pixels of a companion, or the first of three, that say nothing

Raster(west, width, height, quality) ==
  LET companions == CASE quality = "none" -> 0 [] quality = "maskelyne_confidence_v1" -> 1 [] OTHER -> 3
  IN  [west |-> west, width |-> width, height |-> height, no_data |-> "error",
       quality |-> quality, companions |-> companions, lost |-> {}, override |-> FALSE,
       pixels |-> [k \in 0 .. companions |->
                    [i \in 0 .. width * height - 1 |-> IF k = 0 THEN 1 + (i % 5) ELSE Good[k]]]]

With(image, k, i, value) == [image EXCEPT !.pixels[k][i] = value]

Logical(id, policy, resolution, components) ==
  [id |-> id, priority |-> id, policy |-> policy, resolution |-> resolution,
   effective |-> resolution, components |-> components]

Single1(s) == <<Logical(1, "replace", 2, <<s>>)>>

\* The halo is five samples wide, in most scenes, and begins in a pixel.
Scene(sources, rasters, step) ==
  [sources |-> sources, rasters |-> rasters, x |-> 2 + 5 * step, y |-> 2 + 5 * step, step |-> step,
   rooted |-> {FALSE}, tiles |-> {0}, workers |-> 1,
   active |-> [tile \in {0, 1} |-> [k \in DOMAIN sources |-> k]],
   errors |-> FALSE, stops |-> FALSE, fuses |-> FALSE]

-----------------------------------------------------------------------------

\* With five pixels from sample to sample the window is large.
Mosaic ==
  {[Scene(<<Logical(1, "replace", 2, <<1, 2>>)>>,
          1 :> Raster(0, 20, 13, "maskelyne_confidence_v1") @@ 2 :> Raster(8, 20, 13, "maskelyne_confidence_v1"), 20)
      EXCEPT !.x = 103, !.y = 103, !.rooted = {TRUE}, !.errors = TRUE]}

Preloaded(image) == [image EXCEPT !.override = TRUE]

TwoPixels == [Raster(0, 2, 1, "none") EXCEPT !.override = TRUE]

Processes ==
  {[Scene(Single1(4), 4 :> TwoPixels @@ 7 :> TwoPixels, 4)
      EXCEPT !.rooted = {TRUE}, !.errors = TRUE, !.stops = TRUE],
   [Scene(Single1(4), 4 :> TwoPixels @@ 7 :> TwoPixels @@ 8 :> TwoPixels, 4) EXCEPT !.rooted = {TRUE}]}

Fallback ==
  {[Scene(Single1(1), 1 :> With([Raster(0, 20, 13, "maskelyne_confidence_v1") EXCEPT !.no_data = "nearest_valid"], 0, 25, Void), 20)
      EXCEPT !.x = 100, !.y = 103, !.rooted = BOOLEAN, !.tiles = {0, 1}, !.workers = 2, !.errors = TRUE]}

-----------------------------------------------------------------------------

Small(quality) == Raster(0, 3, 2, quality)

Holes(image, at0) == [image EXCEPT !.pixels[0] = [i \in DOMAIN @ |-> IF i \in at0 THEN Void ELSE @[i]]]

Missing ==
  {Holes([Small("none") EXCEPT !.no_data = policy], at0) :
     policy \in {"error", "nearest_valid"}, at0 \in SUBSET (0 .. 5)}

Bad ==
  {With(Small("maskelyne_confidence_v1"), 1, i, v) : i \in 0 .. 5, v \in {Void, 0, 9, 16}}
  \cup {With(Small("lola_south_polar_v1"), k, i, v) : k \in 1 .. 3, i \in {1, 5}, v \in {Void, 0, 81}}
  \cup {With(Small("maskelyne_confidence_v1"), 0, i, Limit + 1) : i \in {0, 5}}
  \cup {[Small("maskelyne_confidence_v1") EXCEPT !.lost = {[x |-> 5, y |-> 5]}]}

SourceFor(image) == CASE image.quality = "none" -> 4 [] image.quality = "maskelyne_confidence_v1" -> 1 [] OTHER -> 3

\* Read at once, or decoded before.
Data ==
  UNION {{[Scene(Single1(SourceFor(image)), SourceFor(image) :> image, 1) EXCEPT !.fuses = TRUE],
          [Scene(Single1(SourceFor(image)), SourceFor(image) :> Preloaded(image), 1)
             EXCEPT !.fuses = TRUE, !.rooted = {TRUE}]} : image \in Missing \cup Bad}
  \cup {[Scene(Single1(4), 4 :> Raster(52, 3, 2, "none"), 1) EXCEPT !.x = -6, !.fuses = TRUE]}
  \cup {[Scene(<<Logical(1, "replace", 2, <<4, 5>>)>>,
               4 :> Holes(Small("none"), one) @@ 5 :> Holes(Raster(4, 3, 2, "none"), two), 1)
           EXCEPT !.fuses = TRUE] : one \in {{1}, {2, 5}}, two \in {{}, {1}, {3}}}

-----------------------------------------------------------------------------

Field(holes) == Holes(Raster(0, 13, 12, "none"), {13 * p[2] + p[1] : p \in holes})

Fusing(policy, holes) ==
  [Scene(<<Logical(1, "replace", 2, <<4>>), Logical(2, policy, 1, <<5>>)>>,
         4 :> Field({}) @@ 5 :> Field(holes), 4) EXCEPT !.tiles = {0, 1}, !.fuses = TRUE]

Everywhere == (0 .. 12) \X (0 .. 11)

Shapes ==
  {{p} : p \in (0 .. 12) \X {1, 3, 4, 6, 8}}
  \cup {{p \in Everywhere : p[1] < c} : c \in 1 .. 12}
  \cup {{p \in Everywhere : p[1] < c /\ p[2] < 5} : c \in 4 .. 8}

Pairs ==
  {Fusing(policy, holes) :
     policy \in {"replace", "bias_corrected_replace", "residual_refinement_v1"}, holes \in Shapes}

\* A hole that is filled in; a third source.
Others ==
  {[Fusing(policy, {p}) EXCEPT !.rasters[5].no_data = "nearest_valid"] :
     policy \in {"replace", "residual_refinement_v1"}, p \in (4 .. 8) \X {5}}
  \cup {[Fusing(policy, {p \in Everywhere : p[1] < 5}) EXCEPT
          !.rasters = @ @@ (6 :> Field({<<6, 6>>})),
          !.sources = Append(@, Logical(3, last, 1, <<6>>))] :
          policy, last \in {"replace", "residual_refinement_v1"}}

\* The first sample of tile 0 lies in pixel <<9, 9>>, so that halos of nine fit.
Wide(holes) == Holes(Raster(0, 21, 20, "none"), {21 * p[2] + p[1] : p \in holes})

Plain == (0 .. 20) \X (0 .. 19)

Seams(sources, rasters) ==
  [Scene(sources, rasters, 4) EXCEPT !.x = 38, !.y = 38, !.tiles = {0, 1}, !.fuses = TRUE]

Rated(source, effective) == [source EXCEPT !.effective = effective]

\* Samples that are few enough for a filter to lose some of them: the middle of the
\* cross is lost after one pass and back after three, and the chain is lost from its
\* end on.
Cross == {<<9, 7>>, <<10, 7>>, <<10, 8>>, <<9, 9>>, <<10, 9>>, <<11, 9>>, <<10, 10>>, <<10, 11>>, <<11, 11>>}

Chain ==
  ({12, 14, 16} \X {8}) \cup ({9, 11} \X {9}) \cup ({11, 13, 15} \X {10})
  \cup ({10, 11, 12} \X {11}) \cup ({9, 11, 14, 15} \X {12})

Gaps == {{p \in Plain : p[1] < c} : c \in {5, 8, 9, 10, 11, 12}} \cup {{<<x, 9>>} : x \in 8 .. 11}
        \cup {Plain \ Cross, Plain \ Chain}

\* The filter reaches further than effective resolutions say: as far as the halo, and
\* beyond.
Misjudged ==
  {Seams(<<Rated(Logical(1, "replace", coarse, <<4>>), 2),
           Logical(2, "residual_refinement_v1", 1, <<5>>)>>, 4 :> Wide({}) @@ 5 :> Wide(gap)) :
     coarse \in {4, 8}, gap \in Gaps}

\* The source in the middle counts on both grids, on the first one only, where one of
\* its two columns has a weight, or on none.
Between ==
  {Seams(<<Logical(1, "replace", 8, <<4>>), Logical(2, "replace", 2, <<5>>),
           Logical(3, "residual_refinement_v1", 1, <<6>>)>>,
         4 :> Wide({}) @@ 5 :> Wide({p \in Plain : p[1] > last}) @@ 6 :> Wide(gap)) :
     last \in {-1, 1, 12}, gap \in Gaps}

\* The last source begins at the corner of tile 0, or beside it.
Corner ==
  {[Seams(<<Logical(1, "replace", 8, <<4>>), Logical(2, "residual_refinement_v1", 4, <<5>>),
            Logical(3, policy, 1, <<6>>)>>,
          4 :> Wide({}) @@ 5 :> Wide(gap) @@ 6 :> Wide({p \in Plain : p[1] < 11 \/ p[2] < row}))
      EXCEPT !.active[0] = IF row > 10 THEN <<1, 2>> ELSE <<1, 2, 3>>] :
     policy \in {"replace", "bias_corrected_replace"}, row \in {9, 11}, gap \in Gaps}

MCScenes == Mosaic \cup Processes \cup Fallback \cup Data \cup Pairs \cup Others
            \cup Misjudged \cup Between \cup Corner
=============================================================================
