------------------------------- MODULE Fusion -------------------------------
(***************************************************************************)
(* How the samples of several sources on one grid become one terrain       *)
(* (fuse_source_grids, src/src/builder/fusion.cpp): which source           *)
(* contributes how much to every sample, and what the quality flags say of *)
(* it. Elevations are left out, and with them the bias of a source, which  *)
(* changes no share.                                                       *)
(*                                                                         *)
(* A source has an identifier, a priority, a policy, a resolution in       *)
(* metres, and the flags of the samples it has: a function from some of    *)
(* the points of the grid. Weights are in 1 / Unit, and shares in          *)
(* 1 / whole, which grows with every source, so nothing is rounded.        *)
(***************************************************************************)
EXTENDS Integers, SequencesExt, Functions

CONSTANTS
  TransitionWidth,  \* samples of a transition (32)
  MaxPasses         \* the most passes of the filter (64)

ASSUME FusionAssumption == TransitionWidth \in Nat \ {0} /\ MaxPasses \in Nat

Points(side) == (0 .. side - 1) \X (0 .. side - 1)

\* The points whose samples were taken from the source, not filled in.
Measured(source) == {p \in DOMAIN source.flags : "filled_no_data" \notin source.flags[p]}

-----------------------------------------------------------------------------
(* The filter of the residual refinement *)

BinomialWeights == <<1, 4, 6, 4, 1>>

\* Half of the weights must be there.
MinimumValidWeight == 8

\* The points of the grid where there is a filtered sample, after one axis.
FilterAxis(present, side, axis) ==
  LET weight(p) == LET w(tap) == IF [p EXCEPT ![axis] = @ + tap] \in present
                                 THEN BinomialWeights[tap + 3] ELSE 0
                   IN  w(-2) + w(-1) + w(0) + w(1) + w(2)
  IN  {p \in {<<x, y>> : x, y \in 0 .. side - 1} : weight(p) >= MinimumValidWeight}

LowPass(present, side, passes) ==
  LET filtered[k \in 0 .. passes] ==
        IF k = 0 THEN present
        ELSE FilterAxis(FilterAxis(filtered[k - 1], side, 1), side, 2)
  IN  filtered[passes]

\* residual_filter_pass_count. One pass more than may be stands for all that are
\* too many.
PassCount(coarse, fine) ==
  LET enough == {k \in 1 .. MaxPasses : fine * 2 ^ k >= coarse}
  IN  IF enough = {} THEN MaxPasses + 1 ELSE CHOOSE k \in enough : \A j \in enough : k <= j

-----------------------------------------------------------------------------
(* The transition to the sources below *)

Smaller(a, b) == IF a <= b THEN a ELSE b

\* Further than any point of the grid is from another.
Far(side) == 2 * side

\* A pass over the rows of a grid: no sample is further than one step more than
\* the sample before it in its row, and the one in the row before.
SweepRow(row, before) ==
  LET next(done, x) ==
        Append(done, Smaller(Smaller(row[x], before[x] + 1), IF x = 1 THEN row[x] ELSE done[x - 1] + 1))
      swept[x \in 0 .. Len(row)] == IF x = 0 THEN <<>> ELSE next(swept[x - 1], x)
  IN  swept[Len(row)]

Sweep(rows) ==
  LET next(done, y) == Append(done, SweepRow(rows[y], IF y = 1 THEN rows[y] ELSE done[y - 1]))
      swept[y \in 0 .. Len(rows)] == IF y = 0 THEN <<>> ELSE next(swept[y - 1], y)
  IN  swept[Len(rows)]

Turned(rows) == Reverse([y \in DOMAIN rows |-> Reverse(rows[y])])

\* Mistake: no pass back.
BoundaryDistance_OnePass(measured, side) ==
  LET start    == [y \in 1 .. side |-> [x \in 1 .. side |->
                     IF <<x - 1, y - 1>> \in measured THEN Far(side) ELSE 0]]
      distance == Sweep(start)
  IN  [p \in Points(side) |-> distance[p[2] + 1][p[1] + 1]]

\* valid_boundary_distance: a pass there and one back give the steps along the
\* axes to the nearest point that was not measured.
BoundaryDistance(measured, side) ==
  LET start    == [y \in 1 .. side |-> [x \in 1 .. side |->
                     IF <<x - 1, y - 1>> \in measured THEN Far(side) ELSE 0]]
      distance == Turned(Sweep(Turned(Sweep(start))))
  IN  [p \in Points(side) |-> distance[p[2] + 1][p[1] + 1]]

\* The weight of one, which makes every weight of a transition even.
Unit == 2 * TransitionWidth * TransitionWidth * TransitionWidth

\* A smooth step from zero, at the boundary, to one.
TransitionWeight(distance) ==
  LET w == TransitionWidth
      c == Smaller(distance - 1, w)
  IN  IF distance = 0 THEN 0 ELSE 2 * c * c * (3 * w - 2 * c)

-----------------------------------------------------------------------------
(* fuse_source_grids *)

Precedes(s, t) ==
  \/ s.priority < t.priority
  \/ s.priority = t.priority /\ s.id < t.id

Identifiers(sources) == {sources[k].id : k \in DOMAIN sources}

\* Identifiers are compared in this order, so equal ones are noticed when no
\* other source comes between them.
Repeated(ordered) == \E k \in 2 .. Len(ordered) : ordered[k - 1].id = ordered[k].id

\* What is known at a point: the shares of the sources, and the flags. No share
\* is positive before the first source that has a sample there.
Untouched(sources) == [shares |-> [i \in Identifiers(sources) |-> 0], flags |-> {}]

Fresh(point) == \A i \in DOMAIN point.shares : point.shares[i] = 0

\* The weight of a source at a point where there is terrain already.
WeightAt(source, p, distance, filtered) ==
  IF source.policy = "residual_refinement_v1" /\ p \notin filtered THEN 0
  ELSE TransitionWeight(distance[p])

\* A refinement shares what it changes with what it refines. The first source
\* takes all.
Share(source, point, p, weight) ==
  IF p \notin DOMAIN source.flags THEN 0
  ELSE IF Fresh(point) THEN Unit
  ELSE IF source.policy = "residual_refinement_v1" THEN weight[p] \div 2
  ELSE weight[p]

\* Shares in 1 / (whole * Unit), from those in 1 / whole.
Mixed(shares, id, share, whole) ==
  [i \in DOMAIN shares |-> shares[i] * (Unit - share) + (IF i = id THEN whole * share ELSE 0)]

FlagsAfter(source, point, p, weight) ==
  IF p \notin DOMAIN source.flags THEN point.flags
  ELSE IF Fresh(point) THEN source.flags[p]
  ELSE point.flags \cup source.flags[p]
       \cup (IF weight[p] < Unit THEN {"fusion_transition"} ELSE {})
       \cup (IF source.policy = "bias_corrected_replace" /\ weight[p] > 0 THEN {"bias_corrected"} ELSE {})

FusePoint(source, point, p, weight, whole) ==
  [shares |-> Mixed(point.shares, source.id, Share(source, point, p, weight), whole),
   flags  |-> FlagsAfter(source, point, p, weight)]

Contributes(source, points, weight) ==
  \E p \in DOMAIN source.flags : Fresh(points[p]) \/ weight[p] > 0

Passes(terrain, source) ==
  IF source.policy = "residual_refinement_v1" THEN PassCount(terrain.resolution, source.resolution) ELSE 0

\* One source on the terrain so far. The finest resolution of the sources that
\* contributed anywhere on the grid counts for the filter.
FuseSource(terrain, source, side) ==
  LET distance == BoundaryDistance(Measured(source), side)
      passes   == Passes(terrain, source)
      filtered == LowPass(Measured(source), side, passes)
      weight   == [p \in DOMAIN source.flags |-> WeightAt(source, p, distance, filtered)]
  IN  [points |-> [p \in Points(side) |->
          FusePoint(source, terrain.points[p], p, weight, terrain.whole)],
       whole |-> terrain.whole * Unit,
       resolution |-> IF Contributes(source, terrain.points, weight)
                      THEN Smaller(terrain.resolution, source.resolution) ELSE terrain.resolution,
       passes |-> [terrain.passes EXCEPT ![source.id] = passes]]

\* The place of a source in the order: how many come before it.
Ordered(sources) ==
  LET place(k) == Cardinality({j \in DOMAIN sources : Precedes(sources[j], sources[k])}) + 1
  IN  [n \in DOMAIN sources |-> sources[CHOOSE k \in DOMAIN sources : place(k) = n]]

Start(sources, ordered, side) ==
  [points |-> [p \in Points(side) |-> Untouched(sources)], whole |-> 1,
   resolution |-> ordered[1].resolution, passes |-> [i \in Identifiers(sources) |-> 0]]

\* What the first sources of an order give.
Layered(sources, ordered, side) ==
  LET after[k \in 0 .. Len(ordered)] ==
        IF k = 0 THEN Start(sources, ordered, side) ELSE FuseSource(after[k - 1], ordered[k], side)
  IN  after[Len(ordered)]

\* Nothing when two sources have one identifier, when a filter has too many passes,
\* or when no source has a sample at some point.
Fuse(sources, side) ==
  LET ordered == Ordered(sources)
      terrain == Layered(sources, ordered, side)
  IN  IF \/ Repeated(ordered)
         \/ \E i \in Identifiers(sources) : terrain.passes[i] > MaxPasses
         \/ \E p \in Points(side) : Fresh(terrain.points[p])
      THEN <<>> ELSE terrain
=============================================================================
