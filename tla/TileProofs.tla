----------------------------- MODULE TileProofs -----------------------------
(***************************************************************************)
(* Proofs about the tiles: what is planned of their tree (module           *)
(* Hierarchy), of which nothing is assumed of the footprints, how they lie *)
(* beside each other at any level (module QscTopology), and how the seams  *)
(* between them are resolved (module SeamResolution): in the end, that     *)
(* every tile released one by one holds what fusing the whole level at     *)
(* once gives it, and that the tiles around an edge or a corner agree.     *)
(***************************************************************************)
EXTENDS Hierarchy, SeamResolution, TopologyWalk, SequenceTheorems, FiniteSetTheorems, WellFoundedInduction, TLAPS

-----------------------------------------------------------------------------
(* Numbers: induction over the naturals is stated of sets, because the        *)
(* library states it of operators; with it, what TilesPerAxis computes.      *)

LessNat == {pair \in Nat \X Nat : pair[1] < pair[2]}

\* A nonempty set of naturals has a least element.
LEMMA LeastNatural ==
  ASSUME NEW S \in SUBSET Nat, S # {}
  PROVE  \E m \in S : \A n \in S : m <= n
<1>1. IsWellFoundedOn(LessNat, Nat)
  BY NatLessThanWellFounded, Zenon DEF LessNat, OpToRel
<1>2. PICK m \in S : \A n \in S : ~(<<n, m>> \in LessNat)
  BY <1>1, WFMin
<1>3. \A n \in S : <<n, m>> \in Nat \X Nat /\ <<n, m>>[1] = n /\ <<n, m>>[2] = m
  OBVIOUS
<1>4. \A n \in S : ~(n < m) BY <1>2, <1>3 DEF LessNat
<1> QED BY <1>2, <1>4

\* Induction over the naturals, of membership in a set.
LEMMA Induction ==
  ASSUME NEW S \in SUBSET Nat, 0 \in S, \A n \in S : n + 1 \in S
  PROVE  S = Nat
<1> SUFFICES ASSUME Nat \ S # {} PROVE FALSE
  OBVIOUS
<1>1. PICK m \in Nat \ S : \A n \in Nat \ S : m <= n BY LeastNatural
<1>2. m - 1 \in Nat BY <1>1
<1>3. m - 1 \in S BY <1>1, <1>2
<1>4. (m - 1) + 1 = m BY <1>2
<1> QED BY <1>1, <1>3, <1>4

Doubling(n) == {g \in [0 .. n -> Nat \ {0}] : \A i \in 0 .. n : g[i] = IF i = 0 THEN 1 ELSE 2 * g[i - 1]}

LEMMA DoublingExists == \A n \in Nat : Doubling(n) # {}
<1> DEFINE S == {n \in Nat : Doubling(n) # {}}
<1>1. 0 \in S
  <2>1. [i \in 0 .. 0 |-> 1] \in Doubling(0) BY DEF Doubling
  <2> QED BY <2>1
<1>2. ASSUME NEW n \in S PROVE n + 1 \in S
  <2>1. PICK g \in [0 .. n -> Nat \ {0}] : \A i \in 0 .. n : g[i] = IF i = 0 THEN 1 ELSE 2 * g[i - 1]
    BY DEF Doubling
  <2> DEFINE h == [i \in 0 .. n + 1 |-> IF i = n + 1 THEN 2 * g[n] ELSE g[i]]
  <2>2. h \in Doubling(n + 1)
    <3>1. h \in [0 .. n + 1 -> Nat \ {0}] BY <2>1
    <3>2. ASSUME NEW i \in 0 .. n + 1 PROVE h[i] = IF i = 0 THEN 1 ELSE 2 * h[i - 1]
      <4>1. CASE i = n + 1 BY <4>1, <2>1
      <4>2. CASE i \in 0 .. n BY <4>2, <2>1
      <4> QED BY <4>1, <4>2
    <3> QED BY <3>1, <3>2 DEF Doubling
  <2> QED BY <2>2
<1> HIDE DEF S
<1>3. S = Nat
  <2>1. S \in SUBSET Nat BY DEF S
  <2> QED BY <1>1, <1>2, <2>1, Induction
<1> QED BY <1>3 DEF S

LEMMA DoublingUnique ==
  ASSUME NEW m \in Nat, NEW n \in Nat, NEW g \in Doubling(m), NEW h \in Doubling(n), NEW k \in Nat,
         k <= m, k <= n
  PROVE  g[k] = h[k]
<1> DEFINE S == {i \in Nat : i <= m /\ i <= n => g[i] = h[i]}
<1>1. 0 \in S BY DEF Doubling
<1>2. ASSUME NEW i \in S PROVE i + 1 \in S BY SMTT(60) DEF Doubling
<1>3. S \in SUBSET Nat OBVIOUS
<1> HIDE DEF S
<1>4. S = Nat BY <1>1, <1>2, <1>3, Induction
<1> QED BY <1>4 DEF S

\* Powers double.
LEMMA Powers ==
  /\ TilesPerAxis[0] = 1
  /\ \A n \in Nat : TilesPerAxis[n] \in Nat \ {0} /\ TilesPerAxis[n + 1] = 2 * TilesPerAxis[n]
<1> DEFINE G(n) == CHOOSE g : g \in Doubling(n)
           F == [n \in Nat |-> G(n)[n]]
<1>1. \A n \in Nat : G(n) \in Doubling(n) BY DoublingExists
<1> HIDE DEF G
<1>2. \A n \in Nat : F[n] \in Nat \ {0}
  <2> TAKE n \in Nat
  <2>1. G(n) \in [0 .. n -> Nat \ {0}] /\ n \in 0 .. n BY <1>1 DEF Doubling
  <2> QED BY <2>1
<1>3. F[0] = 1
  <2>1. G(0)[0] = 1 BY <1>1 DEF Doubling
  <2> QED BY <2>1
<1>4. \A n \in Nat : F[n + 1] = 2 * F[n]
  <2> TAKE n \in Nat
  <2>1. G(n + 1)[n + 1] = 2 * G(n + 1)[n] BY <1>1 DEF Doubling
  <2>2. G(n + 1)[n] = G(n)[n] BY <1>1, DoublingUnique
  <2> QED BY <2>1, <2>2
<1>5. F = [n \in Nat |-> IF n = 0 THEN 1 ELSE 2 * F[n - 1]]
  <2>1. ASSUME NEW n \in Nat, n # 0 PROVE F[n] = 2 * F[n - 1]
    <3>1. n - 1 \in Nat /\ (n - 1) + 1 = n BY <2>1
    <3> QED BY <1>4, <3>1
  <2> QED BY <1>3, <2>1
<1> HIDE DEF F
<1>6. TilesPerAxis = [n \in Nat |-> IF n = 0 THEN 1 ELSE 2 * TilesPerAxis[n - 1]]
  BY <1>5, Zenon DEF TilesPerAxis
<1>7. TilesPerAxis[0] = 1 BY <1>6
<1>8. \A n \in Nat : TilesPerAxis[n + 1] = 2 * TilesPerAxis[n]
  <2> TAKE n \in Nat
  <2>1. n + 1 \in Nat /\ n + 1 # 0 /\ (n + 1) - 1 = n OBVIOUS
  <2>2. TilesPerAxis[n + 1] = 2 * TilesPerAxis[(n + 1) - 1] BY <1>6, <2>1
  <2> QED BY <2>1, <2>2
<1> DEFINE S == {n \in Nat : TilesPerAxis[n] \in Nat \ {0}}
<1>9. S = Nat
  <2>1. 0 \in S BY <1>7
  <2>2. ASSUME NEW n \in S PROVE n + 1 \in S BY <1>8
  <2>3. S \in SUBSET Nat OBVIOUS
  <2> HIDE DEF S
  <2> QED BY <2>1, <2>2, <2>3, Induction
<1> QED BY <1>7, <1>8, <1>9

\* Division by a positive number.
LEMMA DivMod ==
  ASSUME NEW a \in Nat, NEW d \in Nat \ {0}
  PROVE  /\ a \div d \in Nat /\ a % d \in Nat /\ a % d < d
         /\ a = ((a \div d) * d) + (a % d)
  OBVIOUS

LEMMA Monotone ==
  ASSUME NEW d \in Nat, NEW a \in Nat, NEW b \in Nat, a <= b
  PROVE a * d <= b * d
  OBVIOUS

\* There is one quotient and one remainder.
LEMMA DivUnique ==
  ASSUME NEW d \in Nat \ {0}, NEW q \in Nat, NEW r \in Nat, r < d
  PROVE  (q * d + r) \div d = q /\ (q * d + r) % d = r
<1> DEFINE a == q * d + r
           p == a \div d
<1>1. a \in Nat OBVIOUS
<1>2. p \in Nat /\ a % d \in Nat /\ a % d < d /\ a = p * d + (a % d) BY <1>1, DivMod
<1>3. p * d \in Nat /\ q * d \in Nat BY <1>2
<1>4. CASE p < q
  <2>1. (p + 1) * d <= q * d BY <1>2, <1>4, Monotone
  <2>2. (p + 1) * d = p * d + d BY <1>2
  <2> QED BY <1>2, <1>3, <2>1, <2>2
<1>5. CASE q < p
  <2>1. (q + 1) * d <= p * d BY <1>2, <1>5, Monotone
  <2>2. (q + 1) * d = q * d + d BY <1>2
  <2> QED BY <1>2, <1>3, <2>1, <2>2
<1>6. CASE p = q
  <2> QED BY <1>2, <1>3, <1>6
<1> QED BY <1>2, <1>4, <1>5, <1>6

-----------------------------------------------------------------------------

Nodes == [face : Faces, level : Nat, x : Nat, y : Nat]

\* A call is made only once the parent of its node is materialized.
Follows(k, found) == k.level = 0 \/ Parent(k) \in found

IInv ==
  /\ sources \in Seq(Sources)
  /\ next \in Nat /\ next >= 1 /\ next <= Len(sources) + 1
  /\ stack \in Seq(Nodes)
  /\ stack # <<>> => next >= 2
  /\ \A i \in 1 .. Len(stack) : Follows(stack[i], tiles)
  /\ tiles \subseteq Keys
  /\ \A k \in tiles : k.level > 0 => Parent(k) \in tiles
  /\ phase \in {"planning", "done", "failed"}
  /\ phase = "done" => masks = Masks

-----------------------------------------------------------------------------
\* The two directions of the tree, and the bits of a quadrant.
LEMMA ChildParent ==
  ASSUME NEW k \in Nodes, NEW q \in Quadrants
  PROVE  /\ Child(k, q) \in Nodes /\ Child(k, q).level = k.level + 1
         /\ Parent(Child(k, q)) = k /\ Quadrant(Child(k, q)) = q
<1>1. /\ k.face \in Faces /\ k.level \in Nat /\ k.x \in Nat /\ k.y \in Nat
      /\ k = [face |-> k.face, level |-> k.level, x |-> k.x, y |-> k.y]
  BY DEF Nodes
<1>2. /\ q \in 0 .. 3 /\ q % 2 \in 0 .. 1 /\ q \div 2 \in 0 .. 1
      /\ q = (q % 2) + 2 * (q \div 2)
  BY DEF Quadrants
<1>3. \A n \in Nat, b \in 0 .. 1 : (2 * n + b) \div 2 = n /\ (2 * n + b) % 2 = b /\ 2 * n + b \in Nat
  OBVIOUS
<1>4. /\ (2 * k.x + (q % 2)) \div 2 = k.x /\ (2 * k.x + (q % 2)) % 2 = q % 2
      /\ (2 * k.y + (q \div 2)) \div 2 = k.y /\ (2 * k.y + (q \div 2)) % 2 = q \div 2
      /\ 2 * k.x + (q % 2) \in Nat /\ 2 * k.y + (q \div 2) \in Nat
  BY <1>1, <1>2, <1>3
<1>5. Child(k, q) \in Nodes /\ Child(k, q).level = k.level + 1
  BY <1>1, <1>4 DEF Child, Nodes
<1>6. Quadrant(Child(k, q)) = q
  BY <1>2, <1>4 DEF Child, Quadrant
<1>7. Parent(Child(k, q)) = k
  BY <1>1, <1>4 DEF Child, Parent
<1> QED
  BY <1>5, <1>6, <1>7

LEMMA ParentChild ==
  ASSUME NEW k \in Nodes, k.level > 0
  PROVE  Quadrant(k) \in Quadrants /\ Child(Parent(k), Quadrant(k)) = k
<1>1. /\ k.face \in Faces /\ k.level \in Nat /\ k.x \in Nat /\ k.y \in Nat
      /\ k = [face |-> k.face, level |-> k.level, x |-> k.x, y |-> k.y]
  BY DEF Nodes
<1> DEFINE q == Quadrant(k)
<1>2. /\ q = (k.x % 2) + 2 * (k.y % 2) /\ q \in 0 .. 3
      /\ q % 2 = k.x % 2 /\ q \div 2 = k.y % 2
  BY <1>1 DEF Quadrant
<1>3. 2 * (k.x \div 2) + (k.x % 2) = k.x /\ 2 * (k.y \div 2) + (k.y % 2) = k.y
  BY <1>1
<1> HIDE DEF q
<1>4. Child(Parent(k), q) = k
  BY <1>1, <1>2, <1>3 DEF Child, Parent
<1> QED
  BY <1>2, <1>4 DEF q, Quadrants

LEMMA KeysAreNodes == Keys \subseteq Nodes
<1> SUFFICES ASSUME NEW k \in Keys PROVE k \in Nodes
  OBVIOUS
<1>1. k \in [face : Faces, level : 0 .. MaxLevel, x : Coordinates, y : Coordinates]
  BY DEF Keys
<1>2. Coordinates \subseteq Nat /\ 0 .. MaxLevel \subseteq Nat
  BY DEF Coordinates
<1> QED
  BY <1>1, <1>2 DEF Nodes

-----------------------------------------------------------------------------
LEMMA InitInvariant == Init => IInv
BY HierarchyAssumption DEF Init, IInv

LEMMA NextSourceInvariant == IInv /\ NextSource => IInv'
<1> SUFFICES ASSUME IInv, NextSource PROVE IInv'
  OBVIOUS
<1>1. Root(0) \in Nodes /\ Root(1) \in Nodes /\ Root(2) \in Nodes
      /\ Root(3) \in Nodes /\ Root(4) \in Nodes /\ Root(5) \in Nodes
  BY DEF Root, Nodes, Faces
<1>2. Roots \in Seq(Nodes) /\ Len(Roots) = 6
  BY <1>1 DEF Roots
<1>3. \A i \in 1 .. 6 : Roots[i].level = 0
  BY DEF Roots, Root
<1>4. \A i \in 1 .. Len(stack') : Follows(stack'[i], tiles')
  BY <1>2, <1>3 DEF NextSource, Follows
<1> QED
  BY <1>2, <1>4 DEF IInv, NextSource, Masks

\* The children of a node are called after the node has been materialized.
LEMMA VisitInvariant == IInv /\ Visit => IInv'
<1> SUFFICES ASSUME IInv, Visit PROVE IInv'
  OBVIOUS
<1> DEFINE k == Head(stack)
<1> DEFINE rest == Tail(stack)
<1>1. /\ stack # <<>> /\ phase = "planning" /\ phase' = phase /\ masks' = masks
      /\ next' = next /\ sources' = sources
      /\ tiles' = IF Materializes(k) THEN tiles \cup {k} ELSE tiles
      /\ stack' = IF Descends(k) THEN Children(k) \o rest ELSE rest
  BY DEF Visit
<1>2. /\ k \in Nodes /\ rest \in Seq(Nodes) /\ Len(rest) \in Nat
      /\ Follows(k, tiles) /\ \A i \in 1 .. Len(rest) : Follows(rest[i], tiles)
  <2>1. /\ stack \in Seq(Nodes) /\ Len(stack) \in Nat \ {0} /\ k = stack[1]
        /\ rest \in Seq(Nodes) /\ Len(rest) = Len(stack) - 1
        /\ \A i \in 1 .. Len(rest) : rest[i] = stack[i + 1]
    BY <1>1 DEF IInv
  <2>2. k \in Nodes /\ Follows(k, tiles)
    BY <2>1 DEF IInv
  <2>3. \A i \in 1 .. Len(rest) : i + 1 \in 1 .. Len(stack)
    BY <2>1
  <2> QED
    BY <2>1, <2>2, <2>3 DEF IInv
<1> HIDE DEF k, rest
<1>3. /\ tiles \subseteq tiles' /\ tiles' \subseteq tiles \cup {k}
      /\ Descends(k) => k \in tiles'
  <2>1. CASE Materializes(k)
    BY <1>1, <2>1
  <2>2. CASE ~Materializes(k)
    <3>1. tiles' = tiles
      BY <1>1, <2>2
    <3>2. ~Descends(k)
      BY <2>2 DEF Descends, Materializes
    <3> QED
      BY <3>1, <3>2
  <2> QED
    BY <2>1, <2>2
<1>4. tiles' \subseteq Keys
  <2>1. Source.covers \subseteq Keys
    <3>1. next - 1 \in 1 .. Len(sources)
      BY <1>1 DEF IInv
    <3>2. Source \in Sources
      BY <3>1 DEF IInv, Source
    <3> QED
      BY <3>2 DEF Sources
  <2> QED
    BY <2>1, <1>1 DEF Materializes, IInv
<1>5. \A t \in tiles' : t.level > 0 => Parent(t) \in tiles'
  BY <1>2, <1>3 DEF IInv, Follows
<1>6. stack' \in Seq(Nodes) /\ \A i \in 1 .. Len(stack') : Follows(stack'[i], tiles')
  <2>1. \A n \in Nodes : Follows(n, tiles) => Follows(n, tiles')
    BY <1>3 DEF Follows
  <2>2. CASE ~Descends(k)
    <3>1. stack' = rest
      BY <1>1, <2>2
    <3>2. \A i \in 1 .. Len(rest) : rest[i] \in Nodes
      BY <1>2
    <3> QED
      BY <3>1, <3>2, <1>2, <2>1
  <2>3. CASE Descends(k)
    <3>1. \A q \in Quadrants : Child(k, q) \in Nodes /\ Follows(Child(k, q), tiles')
      BY <1>2, <1>3, <2>3, ChildParent DEF Follows
    <3>2. /\ Children(k) \in Seq(Nodes) /\ Len(Children(k)) = 4
          /\ \A i \in 1 .. 4 : Follows(Children(k)[i], tiles')
      BY <3>1 DEF Children, Quadrants
    <3>3. /\ stack' \in Seq(Nodes) /\ Len(stack') = 4 + Len(rest)
          /\ \A i \in 1 .. Len(stack') :
               stack'[i] = IF i <= 4 THEN Children(k)[i] ELSE rest[i - 4]
      <4>1. stack' = Children(k) \o rest
        BY <1>1, <2>3
      <4> DEFINE four == Children(k)
      <4> HIDE DEF four
      <4>2. /\ four \o rest \in Seq(Nodes) /\ Len(four \o rest) = Len(four) + Len(rest)
            /\ \A i \in 1 .. Len(four) + Len(rest) :
                 (four \o rest)[i] = IF i <= Len(four) THEN four[i] ELSE rest[i - Len(four)]
        BY <3>2, <1>2, ConcatProperties DEF four
      <4> QED
        BY <4>1, <4>2, <3>2 DEF four
    <3>4. ASSUME NEW i \in 1 .. Len(stack') PROVE Follows(stack'[i], tiles')
      <4>1. CASE i <= 4
        BY <4>1, <3>2, <3>3, <1>2
      <4>2. CASE i > 4
        <5>1. i - 4 \in 1 .. Len(rest) /\ stack'[i] = rest[i - 4]
          BY <4>2, <3>3, <1>2
        <5> QED
          BY <5>1, <1>2, <2>1
      <4> QED
        BY <4>1, <4>2, <3>3, <1>2
    <3> QED
      BY <3>3, <3>4
  <2> QED
    BY <2>2, <2>3
<1> QED
  BY <1>1, <1>4, <1>5, <1>6 DEF IInv

LEMMA ComputeMasksInvariant == IInv /\ ComputeMasks => IInv'
<1> SUFFICES ASSUME IInv, ComputeMasks PROVE IInv'
  OBVIOUS
<1>1. Orphans = {}
  BY DEF IInv, Orphans
<1>2. phase' = "done" /\ masks' = Masks /\ Masks' = Masks
  BY <1>1 DEF ComputeMasks, Masks
<1> QED
  BY <1>2 DEF IInv, ComputeMasks, Follows

LEMMA OtherInvariant == IInv /\ (GiveUp \/ UNCHANGED vars) => IInv'
BY DEF IInv, GiveUp, vars, Follows, Masks

THEOREM Invariance == Spec => []IInv
<1>1. IInv /\ [Next]_vars => IInv'
  BY NextSourceInvariant, VisitInvariant, ComputeMasksInvariant, OtherInvariant DEF Next, Ended
<1> QED
  BY InitInvariant, <1>1, PTL DEF Spec

\* For any sources, the parent of a tile is materialized before it, and no plan is
\* refused for an orphan.
THEOREM PlanClosedAlways == Spec => []PlanClosed
<1>1. IInv => PlanClosed
  BY DEF IInv, PlanClosed
<1> QED
  BY Invariance, <1>1, PTL

LEMMA MasksOfComplete == IInv => MasksExact
<1> SUFFICES ASSUME IInv, phase = "done", NEW k \in tiles
             PROVE  /\ \A q \in Quadrants : q \in masks[k] <=> Child(k, q) \in tiles
                    /\ ChildrenOf(k) = {Child(k, q) : q \in masks[k]}
  BY DEF MasksExact
<1>1. /\ k \in Nodes /\ k.level \in 0 .. MaxLevel
      /\ \A t \in tiles : t \in Nodes /\ t.level <= MaxLevel
  <2>1. \A t \in tiles : t \in Keys /\ t \in Nodes
    BY KeysAreNodes DEF IInv
  <2>2. \A t \in Keys : t.level \in 0 .. MaxLevel
    BY DEF Keys
  <2> QED
    BY <2>1, <2>2, HierarchyAssumption
<1>2. masks[k] = {Quadrant(c) : c \in {t \in tiles : t.level > 0 /\ Parent(t) = k}}
  BY DEF IInv, Masks
<1>3. masks[k] \subseteq Quadrants
  BY <1>1, <1>2, ParentChild
<1>4. ASSUME NEW q \in Quadrants PROVE q \in masks[k] <=> Child(k, q) \in tiles
  <2>1. ASSUME q \in masks[k] PROVE Child(k, q) \in tiles
    <3>1. PICK t \in tiles : t.level > 0 /\ Parent(t) = k /\ Quadrant(t) = q
      BY <1>2, <2>1
    <3> QED
      BY <3>1, <1>1, ParentChild
  <2>2. ASSUME Child(k, q) \in tiles PROVE q \in masks[k]
    <3>1. /\ Child(k, q).level = k.level + 1 /\ Parent(Child(k, q)) = k
          /\ Quadrant(Child(k, q)) = q
      BY <1>1, ChildParent
    <3>2. Child(k, q).level > 0
      BY <3>1, <1>1
    <3> QED
      BY <1>2, <2>2, <3>1, <3>2
  <2> QED
    BY <2>1, <2>2
<1>5. ChildrenOf(k) = {Child(k, q) : q \in masks[k]}
  <2>1. CASE k.level # MaxLevel
    BY <2>1, <1>3, <1>4 DEF ChildrenOf
  <2>2. CASE k.level = MaxLevel
    <3>1. \A q \in Quadrants : Child(k, q) \notin tiles
      <4> SUFFICES ASSUME NEW q \in Quadrants, Child(k, q) \in tiles PROVE FALSE
        OBVIOUS
      <4>1. Child(k, q).level = MaxLevel + 1
        BY <2>2, <1>1, ChildParent
      <4> QED
        BY <4>1, <1>1, HierarchyAssumption
    <3>2. masks[k] = {}
      BY <3>1, <1>3, <1>4
    <3> QED
      BY <3>2, <2>2 DEF ChildrenOf
  <2> QED
    BY <2>1, <2>2
<1> QED
  BY <1>4, <1>5

\* Every quadrant in a mask is one, and the deepest tiles have none.
LEMMA MasksInRange ==
  ASSUME IInv, phase = "done", NEW k \in tiles
  PROVE  masks[k] \subseteq Quadrants /\ (k.level = MaxLevel => masks[k] = {})
<1>1. \A t \in tiles : t \in Nodes /\ t.level \in 0 .. MaxLevel
  <2>1. \A t \in tiles : t \in Keys /\ t \in Nodes
    BY KeysAreNodes DEF IInv
  <2> QED
    BY <2>1 DEF Keys
<1>2. masks[k] = {Quadrant(c) : c \in {t \in tiles : t.level > 0 /\ Parent(t) = k}}
  BY DEF IInv, Masks
<1>3. masks[k] \subseteq Quadrants
  BY <1>1, <1>2, ParentChild
<1>4. ASSUME k.level = MaxLevel PROVE masks[k] = {}
  <2> SUFFICES ASSUME NEW t \in tiles, t.level > 0, Parent(t) = k PROVE FALSE
    BY <1>2
  <2>1. Parent(t).level = t.level - 1
    BY DEF Parent
  <2> QED
    BY <2>1, <1>1, <1>4, HierarchyAssumption
<1> QED
  BY <1>3, <1>4

LEMMA ValidatorAccepts == IInv /\ phase = "done" => ValidateHierarchy
<1> SUFFICES ASSUME IInv, phase = "done", NEW k \in tiles
             PROVE  /\ masks[k] = IF k.level = MaxLevel THEN {} ELSE {q \in Quadrants : Child(k, q) \in tiles}
                    /\ tiles # {k} /\ k.level # 0 => Parent(k) \in tiles
  BY DEF ValidateHierarchy
<1>1. \A q \in Quadrants : q \in masks[k] <=> Child(k, q) \in tiles
  BY MasksOfComplete DEF MasksExact
<1>2. masks[k] = IF k.level = MaxLevel THEN {} ELSE {q \in Quadrants : Child(k, q) \in tiles}
  BY <1>1, MasksInRange
<1>3. k.level \in Nat
  BY KeysAreNodes DEF IInv, Nodes
<1>4. k.level # 0 => Parent(k) \in tiles
  BY <1>3 DEF IInv
<1> QED
  BY <1>2, <1>4

\* The mask of a tile and the keys a reader looks its children up by agree.
THEOREM MasksExactAlways == Spec => []MasksExact
<1> QED
  BY Invariance, MasksOfComplete, PTL

\* Whatever the footprints are, the validator of a written database would accept
\* what is planned.
THEOREM PlanValidAlways == Spec => []PlanValid
<1>1. IInv => PlanValid
  BY MasksOfComplete, ValidatorAccepts DEF IInv, PlanValid, PlanClosed
<1> QED
  BY Invariance, <1>1, PTL

-----------------------------------------------------------------------------
(* Subtrees *)

LEMMA PowersMonotone ==
  ASSUME NEW m \in Nat, NEW n \in Nat, m <= n
  PROVE  TilesPerAxis[m] <= TilesPerAxis[n]
<1> DEFINE S == {i \in Nat : TilesPerAxis[m] <= TilesPerAxis[m + i]}
<1>1. 0 \in S BY Powers
<1>2. ASSUME NEW i \in S PROVE i + 1 \in S
  <2>1. TilesPerAxis[(m + i) + 1] = 2 * TilesPerAxis[m + i] BY Powers
  <2>2. m + (i + 1) = (m + i) + 1 OBVIOUS
  <2>3. TilesPerAxis[m] \in Nat /\ TilesPerAxis[m + i] \in Nat BY Powers
  <2> QED BY <2>1, <2>2, <2>3
<1>3. S \in SUBSET Nat OBVIOUS
<1> HIDE DEF S
<1>4. n - m \in S BY <1>1, <1>2, <1>3, Induction
<1>5. m + (n - m) = n OBVIOUS
<1> QED BY <1>4, <1>5 DEF S

\* Halving before or after a division is dividing by twice as much.
LEMMA Halves ==
  ASSUME NEW x \in Nat, NEW d \in Nat \ {0}
  PROVE  (x \div 2) \div d = x \div (2 * d) /\ (x \div d) \div 2 = x \div (2 * d)
<1>1. (x \div 2) \div d = x \div (2 * d)
  <2> DEFINE h == x \div 2
             b == x % 2
             s == h \div d
             r == h % d
  <2>1. h \in Nat /\ b \in 0 .. 1 /\ x = 2 * h + b BY DivMod
  <2>2. s \in Nat /\ r \in Nat /\ r < d /\ h = (s * d) + r BY <2>1, DivMod
  <2> HIDE DEF h, b, s, r
  <2>3. x = (s * (2 * d)) + (2 * r + b) BY <2>1, <2>2
  <2>4. 2 * r + b \in Nat /\ 2 * r + b < 2 * d /\ 2 * d \in Nat \ {0} BY <2>1, <2>2
  <2>5. x \div (2 * d) = s BY <2>2, <2>3, <2>4, DivUnique
  <2> QED BY <2>5 DEF s, h
<1>2. (x \div d) \div 2 = x \div (2 * d)
  <2> DEFINE h == x \div d
             r == x % d
             s == h \div 2
             b == h % 2
  <2>1. h \in Nat /\ r \in Nat /\ r < d /\ x = (h * d) + r BY DivMod
  <2>2. s \in Nat /\ b \in 0 .. 1 /\ h = 2 * s + b BY <2>1, DivMod
  <2> HIDE DEF h, b, s, r
  <2>3. b = 0 \/ b = 1 BY <2>2
  <2>4. x = (s * (2 * d)) + (b * d + r) BY <2>1, <2>2
  <2>5. b * d + r \in Nat /\ b * d + r < 2 * d /\ 2 * d \in Nat \ {0} BY <2>1, <2>3
  <2>6. x \div (2 * d) = s BY <2>2, <2>4, <2>5, DivUnique
  <2> QED BY <2>6 DEF s, h
<1> QED BY <1>1, <1>2

\* What lies below a level has a positive power of two between them.
LEMMA LevelsBetween ==
  ASSUME NEW k \in Nodes, NEW a \in Nodes, a.level < k.level
  PROVE  /\ k.level - a.level \in Nat /\ k.level - a.level - 1 \in Nat
         /\ TilesPerAxis[k.level - a.level - 1] \in Nat \ {0}
         /\ TilesPerAxis[k.level - a.level] = 2 * TilesPerAxis[k.level - a.level - 1]
<1>1. k.level \in Nat /\ a.level \in Nat BY DEF Nodes
<1>2. k.level - a.level - 1 \in Nat /\ (k.level - a.level - 1) + 1 = k.level - a.level BY <1>1
<1> QED BY <1>2, Powers

LEMMA SubtreeSelf ==
  ASSUME NEW k \in Nodes, NEW a \in Nodes, a.level = k.level
  PROVE  InSubtree(k, a) <=> k = a
<1>1. k.level - a.level = 0 /\ k.x \in Nat /\ k.y \in Nat /\ k.level >= a.level BY DEF Nodes
<1>2. k.x \div 1 = k.x /\ k.y \div 1 = k.y BY <1>1
<1>3. TilesPerAxis[k.level - a.level] = 1 BY <1>1, Powers
<1>4. k = a <=> k.face = a.face /\ k.x = a.x /\ k.y = a.y BY DEF Nodes
<1> QED BY <1>1, <1>2, <1>3, <1>4 DEF InSubtree

LEMMA SubtreeParent ==
  ASSUME NEW k \in Nodes, NEW a \in Nodes, a.level < k.level
  PROVE  InSubtree(k, a) <=> InSubtree(Parent(k), a)
<1> DEFINE d == TilesPerAxis[k.level - a.level - 1]
<1>1. d \in Nat \ {0} /\ TilesPerAxis[k.level - a.level] = 2 * d BY LevelsBetween
<1>2. k.x \in Nat /\ k.y \in Nat /\ k.level \in Nat /\ a.level \in Nat BY DEF Nodes
<1>3. /\ (k.x \div 2) \div d = k.x \div (2 * d)
      /\ (k.y \div 2) \div d = k.y \div (2 * d)
  BY <1>1, <1>2, Halves
<1>4. /\ Parent(k).level - a.level = k.level - a.level - 1 /\ Parent(k).face = k.face
      /\ Parent(k).x = k.x \div 2 /\ Parent(k).y = k.y \div 2
      /\ Parent(k).level >= a.level /\ k.level >= a.level
  BY <1>2 DEF Parent
<1> HIDE DEF d
<1>5. TilesPerAxis[Parent(k).level - a.level] = d BY <1>4 DEF d
<1> QED BY <1>1, <1>3, <1>4, <1>5 DEF InSubtree

\* What lies in a subtree is its root, or in the subtree of one of the children.
LEMMA SubtreeChild ==
  ASSUME NEW k \in Nodes, NEW a \in Nodes, a.level < k.level, InSubtree(k, a)
  PROVE  \E q \in Quadrants : InSubtree(k, Child(a, q))
<1> DEFINE d == TilesPerAxis[k.level - a.level - 1]
           mx == k.x \div d
           my == k.y \div d
           q == (mx % 2) + 2 * (my % 2)
<1>1. d \in Nat \ {0} /\ TilesPerAxis[k.level - a.level] = 2 * d BY LevelsBetween
<1>2. k.x \in Nat /\ k.y \in Nat /\ k.level \in Nat /\ a.level \in Nat BY DEF Nodes
<1>3. mx \in Nat /\ my \in Nat BY <1>1, <1>2, DivMod
<1>4. mx \div 2 = a.x /\ my \div 2 = a.y BY <1>1, <1>2, Halves DEF InSubtree
<1> HIDE DEF d
<1>5. q \in Quadrants /\ q % 2 = mx % 2 /\ q \div 2 = my % 2
  <2> HIDE DEF mx, my
  <2> QED BY <1>3 DEF Quadrants
<1>6. 2 * a.x + (q % 2) = mx /\ 2 * a.y + (q \div 2) = my
  <2> HIDE DEF mx, my, q
  <2> QED BY <1>3, <1>4, <1>5
<1>7. /\ Child(a, q).face = k.face /\ Child(a, q).x = mx /\ Child(a, q).y = my
      /\ Child(a, q).level = a.level + 1
  <2> HIDE DEF mx, my, q
  <2> QED BY <1>6 DEF Child, InSubtree
<1>8. k.level - (a.level + 1) = k.level - a.level - 1 /\ k.level >= a.level + 1 BY <1>2
<1>9. TilesPerAxis[k.level - Child(a, q).level] = d BY <1>7, <1>8 DEF d
<1> HIDE DEF q
<1>10. InSubtree(k, Child(a, q)) BY <1>7, <1>8, <1>9 DEF InSubtree
<1> QED BY <1>5, <1>10

LEMMA KeyFields ==
  ASSUME NEW k \in Keys
  PROVE  /\ k \in Nodes /\ k.level \in 0 .. MaxLevel
         /\ k.x < TilesPerAxis[k.level] /\ k.y < TilesPerAxis[k.level]
  BY KeysAreNodes DEF Keys

\* A node within the face is a key.
LEMMA NodeIsKey ==
  ASSUME NEW k \in Nodes, k.level <= MaxLevel,
         k.x < TilesPerAxis[k.level], k.y < TilesPerAxis[k.level]
  PROVE  k \in Keys
<1>1. k.face \in Faces /\ k.level \in Nat /\ k.x \in Nat /\ k.y \in Nat BY DEF Nodes
<1>2. TilesPerAxis[k.level] <= TilesPerAxis[MaxLevel] BY <1>1, PowersMonotone, HierarchyAssumption
<1>3. TilesPerAxis[k.level] \in Nat /\ TilesPerAxis[MaxLevel] \in Nat
  BY <1>1, Powers, HierarchyAssumption
<1>4. k.x \in Coordinates /\ k.y \in Coordinates BY <1>1, <1>2, <1>3 DEF Coordinates
<1>5. k.level \in 0 .. MaxLevel BY <1>1, HierarchyAssumption
<1>6. k \in [face : Faces, level : 0 .. MaxLevel, x : Coordinates, y : Coordinates]
  BY <1>1, <1>4, <1>5 DEF Nodes
<1> QED BY <1>6 DEF Keys

LEMMA RootsAreKeys ==
  ASSUME NEW face \in Faces
  PROVE  Root(face) \in Keys /\ Root(face).level = 0
<1>1. Root(face) \in Nodes /\ Root(face).level = 0 /\ Root(face).x = 0 /\ Root(face).y = 0
  BY DEF Root, Nodes
<1>2. TilesPerAxis[0] = 1 BY Powers
<1> QED BY <1>1, <1>2, NodeIsKey, HierarchyAssumption

LEMMA SubtreeRoot ==
  ASSUME NEW k \in Keys
  PROVE  InSubtree(k, Root(k.face))
<1> DEFINE d == TilesPerAxis[k.level]
<1>1. /\ k.x \in Nat /\ k.y \in Nat /\ k.x < d /\ k.y < d /\ d \in Nat \ {0} /\ k.level \in Nat
      /\ k.face \in Faces
  BY KeyFields, Powers DEF Nodes
<1> HIDE DEF d
<1>2. (0 * d) + k.x = k.x /\ (0 * d) + k.y = k.y BY <1>1
<1>3. k.x \div d = 0 /\ k.y \div d = 0 BY <1>1, <1>2, DivUnique
<1>4. k.level - 0 = k.level /\ k.level >= 0 BY <1>1
<1> QED BY <1>3, <1>4 DEF InSubtree, Root, d

LEMMA ChildIsKey ==
  ASSUME NEW k \in Keys, k.level < MaxLevel, NEW q \in Quadrants
  PROVE  Child(k, q) \in Keys
<1>1. /\ k \in Nodes /\ k.level \in Nat /\ k.x \in Nat /\ k.y \in Nat
      /\ k.x < TilesPerAxis[k.level] /\ k.y < TilesPerAxis[k.level]
  BY KeyFields DEF Nodes
<1>2. Child(k, q) \in Nodes /\ Child(k, q).level = k.level + 1 BY <1>1, ChildParent
<1>3. TilesPerAxis[k.level + 1] = 2 * TilesPerAxis[k.level] /\ TilesPerAxis[k.level] \in Nat
  BY <1>1, Powers
<1>4. q % 2 \in 0 .. 1 /\ q \div 2 \in 0 .. 1 BY DEF Quadrants
<1>5. Child(k, q).x = 2 * k.x + (q % 2) /\ Child(k, q).y = 2 * k.y + (q \div 2) BY DEF Child
<1>6. Child(k, q).x < TilesPerAxis[k.level + 1] /\ Child(k, q).y < TilesPerAxis[k.level + 1]
  BY <1>1, <1>3, <1>4, <1>5
<1> QED BY <1>1, <1>2, <1>6, NodeIsKey, HierarchyAssumption

-----------------------------------------------------------------------------
(* Which tiles a plan has *)

\* The tiles a source needs.
Needed(source) ==
  {k \in Keys : k.level <= source.level /\ \A a \in Keys : InSubtree(k, a) => a \in source.covers}

\* Every tile found is needed by a source that was taken up, and every tile that
\* such a source needs is found, or is of the last source and lies below a node
\* that is to be visited. Such a node is the child of a tile the source needs.
Exact ==
  /\ \A k \in tiles : \E s \in 1 .. next - 1 : k \in Needed(sources[s])
  /\ \A s \in 1 .. next - 1 : \A k \in Needed(sources[s]) :
       k \in tiles \/ (s = next - 1 /\ \E i \in 1 .. Len(stack) : InSubtree(k, stack[i]))
  /\ \A i \in 1 .. Len(stack) :
       /\ stack[i] \in Keys /\ stack[i].level <= Source.level
       /\ stack[i].level > 0 => Parent(stack[i]) \in Needed(Source)
  /\ phase = "done" => stack = <<>> /\ next = Len(sources) + 1

\* A node that is covered and the child of a tile that is needed is needed.
LEMMA CoveredIsNeeded ==
  ASSUME NEW source \in Sources, NEW k \in source.covers, k.level <= source.level,
         k.level > 0 => Parent(k) \in Needed(source)
  PROVE  k \in Needed(source)
<1>1. k \in Keys BY DEF Sources
<1>2. ASSUME NEW a \in Keys, InSubtree(k, a) PROVE a \in source.covers
  <2>1. k \in Nodes /\ a \in Nodes /\ a.level <= k.level /\ a.level \in Nat /\ k.level \in Nat
    BY <1>1, <1>2, KeyFields DEF InSubtree, Nodes
  <2>2. CASE a.level = k.level BY <1>2, <2>1, <2>2, SubtreeSelf
  <2>3. CASE a.level < k.level
    <3>1. InSubtree(Parent(k), a) BY <1>2, <2>1, <2>3, SubtreeParent
    <3>2. Parent(k) \in Needed(source) BY <2>1, <2>3
    <3> QED BY <3>1, <3>2 DEF Needed
  <2> QED BY <2>1, <2>2, <2>3
<1> QED BY <1>1, <1>2 DEF Needed

LEMMA SourceType ==
  ASSUME IInv, next >= 2
  PROVE  /\ next - 1 \in 1 .. Len(sources) /\ Source \in Sources
         /\ Source.level \in 0 .. MaxLevel
<1>1. next - 1 \in 1 .. Len(sources) BY DEF IInv
<1>2. Source \in Sources BY <1>1 DEF IInv, Source
<1> QED BY <1>1, <1>2 DEF Sources

\* With the roots, all of what the next source needs is to be visited.
LEMMA NextSourceExact == IInv /\ Exact /\ NextSource => Exact'
<1> SUFFICES ASSUME IInv, Exact, NextSource PROVE Exact'
  OBVIOUS
<1>1. /\ stack = <<>> /\ next' = next + 1 /\ stack' = Roots /\ next \in Nat
      /\ UNCHANGED <<sources, phase, tiles>> /\ phase' = "planning" /\ next >= 1
  BY DEF NextSource, IInv
<1>2. /\ Len(Roots) = 6 /\ \A i \in 1 .. 6 : Roots[i] = Root(i - 1)
  BY DEF Roots
<1>3. Source' \in Sources /\ Source'.level \in Nat
  <2>1. next \in 1 .. Len(sources) /\ Source' = sources[next]
    BY <1>1 DEF NextSource, Source
  <2>2. Source' \in Sources BY <2>1 DEF IInv
  <2> QED BY <2>2 DEF Sources
<1>4. ASSUME NEW s \in 1 .. next, NEW k \in Needed(sources[s])
      PROVE  k \in tiles \/ (s = next /\ \E i \in 1 .. 6 : InSubtree(k, Roots[i]))
  <2>1. CASE s = next
    <3>1. k \in Keys /\ k.face \in 0 .. 5 BY KeyFields DEF Needed, Nodes, Faces
    <3>2. k.face + 1 \in 1 .. 6 /\ (k.face + 1) - 1 = k.face BY <3>1
    <3>3. InSubtree(k, Roots[k.face + 1]) BY <1>2, <3>1, <3>2, SubtreeRoot
    <3> QED BY <2>1, <3>2, <3>3
  <2>2. CASE s \in 1 .. next - 1
    <3>1. Len(stack) = 0 BY <1>1
    <3> QED BY <2>2, <3>1 DEF Exact
  <2> QED BY <1>1, <2>1, <2>2
<1>5. ASSUME NEW i \in 1 .. 6
      PROVE  Roots[i] \in Keys /\ Roots[i].level = 0
  BY <1>2, RootsAreKeys DEF Faces
<1>6. \A k \in tiles : \E s \in 1 .. next : k \in Needed(sources[s])
  <2>1. 1 .. next - 1 \subseteq 1 .. next BY <1>1
  <2> QED BY <2>1 DEF Exact
<1>7. next' - 1 = next BY <1>1
<1> QED BY <1>1, <1>2, <1>3, <1>4, <1>5, <1>6, <1>7 DEF Exact, Needed, InSubtree

\* A visit materializes a tile that is needed, and leaves what is needed below it
\* to its children. A node that is not covered has nothing below it.
LEMMA VisitExact == IInv /\ Exact /\ Visit => Exact'
<1> SUFFICES ASSUME IInv, Exact, Visit PROVE Exact'
  OBVIOUS
<1> DEFINE k == Head(stack)
           rest == Tail(stack)
<1>1. /\ stack # <<>> /\ phase = "planning" /\ UNCHANGED <<sources, phase, next>>
      /\ tiles' = IF Materializes(k) THEN tiles \cup {k} ELSE tiles
      /\ stack' = IF Descends(k) THEN Children(k) \o rest ELSE rest
      /\ next \in Nat /\ next >= 2
  BY DEF Visit, IInv
<1>2. /\ Len(stack) \in Nat \ {0} /\ k = stack[1] /\ rest \in Seq(Nodes)
      /\ Len(rest) \in Nat /\ Len(rest) = Len(stack) - 1
      /\ \A i \in 1 .. Len(rest) : rest[i] = stack[i + 1] /\ i + 1 \in 1 .. Len(stack)
  BY <1>1 DEF IInv
<1>3. /\ Source \in Sources /\ Source.level \in 0 .. MaxLevel /\ next - 1 \in 1 .. Len(sources)
  BY <1>1, SourceType
<1>4. /\ k \in Keys /\ k \in Nodes /\ k.level \in 0 .. MaxLevel /\ k.level <= Source.level
      /\ k.level > 0 => Parent(k) \in Needed(Source)
  BY <1>2, KeyFields DEF Exact
<1> HIDE DEF k, rest
<1>5. Source' = Source BY <1>1 DEF Source
<1>6. k \in Source.covers => k \in Needed(Source)
  BY <1>3, <1>4, CoveredIsNeeded
\* What is still to be visited, as a set of nodes.
<1> DEFINE Front == {stack[i] : i \in 1 .. Len(stack)}
           Rest == {rest[i] : i \in 1 .. Len(rest)}
           Below == IF Descends(k) THEN {Child(k, q) : q \in Quadrants} ELSE {}
<1>7. Front = {k} \cup Rest
  <2>1. \A i \in 1 .. Len(stack) : i = 1 \/ (i - 1 \in 1 .. Len(rest) /\ (i - 1) + 1 = i) BY <1>2
  <2>2. \A i \in 1 .. Len(stack) : stack[i] \in {k} \cup Rest
    <3> TAKE i \in 1 .. Len(stack)
    <3>1. CASE i = 1 BY <1>2, <3>1
    <3>2. CASE i # 1
      <4>1. i - 1 \in 1 .. Len(rest) /\ rest[i - 1] = stack[i] BY <1>2, <2>1, <3>2
      <4> QED BY <4>1
    <3> QED BY <3>1, <3>2
  <2>3. 1 \in 1 .. Len(stack) BY <1>2
  <2>4. k \in Front BY <1>2, <2>3
  <2>5. Rest \subseteq Front BY <1>2
  <2> QED BY <2>2, <2>4, <2>5
<1>8. {stack'[i] : i \in 1 .. Len(stack')} = Below \cup Rest
  <2>1. CASE ~Descends(k) BY <1>1, <2>1
  <2>2. CASE Descends(k)
    <3> DEFINE four == Children(k)
    <3>1. four = <<Child(k, 0), Child(k, 1), Child(k, 2), Child(k, 3)>> BY DEF Children
    <3>2. \A q \in Quadrants : Child(k, q) \in Nodes BY <1>4, ChildParent
    <3>3. four \in Seq(Nodes) /\ Len(four) = 4 BY <3>1, <3>2 DEF Quadrants
    <3>4. {four[i] : i \in 1 .. 4} = Below
      BY <2>2, <3>1 DEF Quadrants
    <3> HIDE DEF four, Below
    <3>5. /\ Len(four \o rest) = 4 + Len(rest)
          /\ \A i \in 1 .. 4 + Len(rest) : (four \o rest)[i] = IF i <= 4 THEN four[i] ELSE rest[i - 4]
      <4>1. /\ Len(four \o rest) = Len(four) + Len(rest)
            /\ \A i \in 1 .. Len(four) + Len(rest) :
                 (four \o rest)[i] = IF i <= Len(four) THEN four[i] ELSE rest[i - Len(four)]
        BY <1>2, <3>3, ConcatProperties
      <4> QED BY <3>3, <4>1
    <3>6. stack' = four \o rest BY <1>1, <2>2 DEF four
    <3>7. ASSUME NEW i \in 1 .. 4 + Len(rest) PROVE stack'[i] \in Below \cup Rest
      <4>1. CASE i <= 4
        <5>1. i \in 1 .. 4 BY <4>1
        <5> QED BY <3>4, <3>5, <3>6, <4>1, <5>1
      <4>2. CASE i > 4
        <5>1. i - 4 \in 1 .. Len(rest) BY <1>2, <4>2
        <5> QED BY <3>5, <3>6, <4>2, <5>1
      <4> QED BY <4>1, <4>2
    <3>8. ASSUME NEW i \in 1 .. 4 PROVE \E j \in 1 .. 4 + Len(rest) : four[i] = stack'[j]
      <4>1. i \in 1 .. 4 + Len(rest) /\ i <= 4 BY <1>2
      <4> QED BY <3>5, <3>6, <4>1
    <3>9. ASSUME NEW i \in 1 .. Len(rest) PROVE \E j \in 1 .. 4 + Len(rest) : rest[i] = stack'[j]
      <4>1. i + 4 \in 1 .. 4 + Len(rest) /\ ~(i + 4 <= 4) /\ (i + 4) - 4 = i BY <1>2
      <4> QED BY <3>5, <3>6, <4>1
    <3>10. Len(stack') = 4 + Len(rest) BY <3>5, <3>6
    <3>11. {stack'[i] : i \in 1 .. Len(stack')} \subseteq Below \cup Rest
      BY <3>7, <3>10
    <3>12. Below \subseteq {stack'[i] : i \in 1 .. Len(stack')}
      BY <3>4, <3>8, <3>10
    <3>13. Rest \subseteq {stack'[i] : i \in 1 .. Len(stack')}
      BY <3>9, <3>10
    <3> QED BY <3>11, <3>12, <3>13
  <2> QED BY <2>1, <2>2
<1>9. ASSUME NEW t \in Needed(Source), InSubtree(t, k)
      PROVE  t \in tiles' \/ \E n \in Below : InSubtree(t, n)
  <2>1. /\ t \in Keys /\ t \in Nodes /\ k \in Source.covers
        /\ t.level <= Source.level /\ k.level <= t.level /\ t.level \in Nat
    BY <1>4, <1>9, KeyFields DEF Needed, InSubtree
  <2>2. CASE t.level = k.level
    <3>1. t = k BY <1>4, <1>9, <2>1, <2>2, SubtreeSelf
    <3> QED BY <1>1, <2>1, <3>1 DEF Materializes
  <2>3. CASE k.level < t.level
    <3>1. Descends(k) BY <1>3, <1>4, <2>1, <2>3 DEF Descends
    <3>2. \E q \in Quadrants : InSubtree(t, Child(k, q))
      BY <1>4, <1>9, <2>1, <2>3, SubtreeChild
    <3> QED BY <3>1, <3>2
  <2> QED BY <1>4, <2>1, <2>2, <2>3
<1>10. ASSUME NEW n \in Below
       PROVE  n \in Keys /\ n.level <= Source.level /\ (n.level > 0 => Parent(n) \in Needed(Source))
  <2>1. Descends(k) /\ \E q \in Quadrants : n = Child(k, q) BY <1>10
  <2>2. PICK q \in Quadrants : n = Child(k, q) BY <2>1
  <2>3. k \in Source.covers /\ k.level < Source.level BY <1>3, <1>4, <2>1 DEF Descends
  <2>4. k.level < MaxLevel BY <1>3, <1>4, <2>3, HierarchyAssumption
  <2>5. Child(k, q) \in Keys BY <1>4, <2>4, ChildIsKey
  <2>6. Child(k, q).level = k.level + 1 /\ Parent(Child(k, q)) = k BY <1>4, ChildParent
  <2>7. k.level + 1 <= Source.level BY <1>3, <1>4, <2>3
  <2> QED BY <1>6, <2>2, <2>3, <2>5, <2>6, <2>7
<1>11. /\ \A t \in tiles : \E s \in 1 .. next - 1 : t \in Needed(sources[s])
       /\ \A s \in 1 .. next - 1 : \A t \in Needed(sources[s]) :
            t \in tiles \/ (s = next - 1 /\ \E n \in Front : InSubtree(t, n))
       /\ \A n \in Front : n \in Keys /\ n.level <= Source.level /\ (n.level > 0 => Parent(n) \in Needed(Source))
  BY DEF Exact
<1> HIDE DEF Front, Rest, Below
<1>12. tiles \subseteq tiles' /\ \A t \in tiles' : t \in tiles \/ t \in Needed(Source)
  BY <1>1, <1>6 DEF Materializes
<1>13. \A t \in tiles' : \E s \in 1 .. next - 1 : t \in Needed(sources[s])
  <2>1. next - 1 \in 1 .. next - 1 BY <1>1
  <2> QED BY <1>11, <1>12, <2>1 DEF Source
<1>14. ASSUME NEW s \in 1 .. next - 1, NEW t \in Needed(sources[s])
       PROVE  t \in tiles' \/ (s = next - 1 /\ \E n \in Below \cup Rest : InSubtree(t, n))
  <2>1. CASE t \in tiles BY <1>12, <2>1
  <2>2. CASE s = next - 1 /\ \E n \in Front : InSubtree(t, n)
    <3>1. t \in Needed(Source) BY <2>2 DEF Source
    <3> QED BY <1>7, <1>9, <2>2, <3>1
  <2> QED BY <1>11, <2>1, <2>2
<1>15. \A n \in Below \cup Rest :
         n \in Keys /\ n.level <= Source.level /\ (n.level > 0 => Parent(n) \in Needed(Source))
  BY <1>7, <1>10, <1>11
<1>16. /\ \A n : n \in Below \cup Rest <=> \E i \in 1 .. Len(stack') : n = stack'[i]
  BY <1>8
<1>17. \A s \in 1 .. next - 1 : \A t \in Needed(sources[s]) :
         t \in tiles' \/ (s = next - 1 /\ \E i \in 1 .. Len(stack') : InSubtree(t, stack'[i]))
  BY <1>14, <1>16
<1>18. \A i \in 1 .. Len(stack') :
         /\ stack'[i] \in Keys /\ stack'[i].level <= Source.level
         /\ stack'[i].level > 0 => Parent(stack'[i]) \in Needed(Source)
  BY <1>15, <1>16
<1> QED BY <1>1, <1>5, <1>13, <1>17, <1>18 DEF Exact

LEMMA OtherExact == IInv /\ Exact /\ (ComputeMasks \/ GiveUp \/ UNCHANGED vars) => Exact'
<1> SUFFICES ASSUME IInv, Exact, ComputeMasks \/ GiveUp \/ UNCHANGED vars PROVE Exact'
  OBVIOUS
<1>1. UNCHANGED <<sources, next, stack, tiles>> BY DEF ComputeMasks, GiveUp, vars
<1>2. phase' = "done" => phase = "done" \/ (stack = <<>> /\ next = Len(sources) + 1)
  BY DEF ComputeMasks, GiveUp, vars, IInv
<1> QED BY <1>1, <1>2 DEF Exact, Source, Needed, InSubtree

\* For any sources and footprints, the tiles that are planned are those that the
\* sources need, in whatever order the sources are given.
THEOREM PlanAlwaysExact == Spec => []PlanExact
<1>1. Init => Exact BY DEF Init, Exact
<1>2. IInv /\ Exact /\ [Next]_vars => Exact'
  BY NextSourceExact, VisitExact, OtherExact DEF Next, Ended
<1>3. IInv /\ Exact => PlanExact
  <2> SUFFICES ASSUME IInv, Exact, phase = "done"
               PROVE  tiles = {k \in Keys : \E s \in 1 .. Len(sources) : k \in Needed(sources[s])}
    BY DEF PlanExact, Needed
  <2>1. stack = <<>> /\ next - 1 = Len(sources) /\ Len(stack) = 0 BY DEF Exact, IInv
  <2> QED BY <2>1 DEF Exact, Needed
<1> QED BY Invariance, <1>1, <1>2, <1>3, PTL DEF Spec

-----------------------------------------------------------------------------
(* Which samples of an ancestor are compared with *)

LEMMA TileInTile ==
  ASSUME NEW k \in Keys, NEW a \in Keys, a # k, InSubtree(k, a), NEW p \in 0 .. Cells
  PROVE  LET low == Lower(k, a, k.x, a.x, p)
             rest == Remainder(k, a, k.x, p)
         IN  /\ low \in 0 .. Cells /\ Upper(low) \in 0 .. Cells
             /\ rest # 0 => Upper(low) = low + 1
             /\ (a.x * Cells + low) * Scale(k, a) + rest = k.x * Cells + p
<1> DEFINE d == Scale(k, a)
           r == k.x % d
           w == r * Cells + p
           q == w \div d
           low == Lower(k, a, k.x, a.x, p)
           rest == Remainder(k, a, k.x, p)
<1>1. /\ k \in Nodes /\ a \in Nodes /\ k.x \in Nat /\ a.x \in Nat /\ k.level - a.level \in Nat
      /\ Cells \in Nat \ {0} /\ p \in Nat /\ p <= Cells
  BY KeyFields, HierarchyAssumption, CellsAssumption DEF Nodes, InSubtree
<1>2. d \in Nat \ {0} BY <1>1, Powers DEF Scale
<1>3. k.x \div d = a.x BY DEF InSubtree, Scale
<1> HIDE DEF d
<1>4. r \in Nat /\ r < d /\ k.x = (a.x * d) + r BY <1>1, <1>2, <1>3, DivMod
<1> HIDE DEF r
<1>5. w \in Nat /\ w <= d * Cells
  <2>1. r + 1 <= d /\ r + 1 \in Nat BY <1>2, <1>4
  <2>2. (r + 1) * Cells <= d * Cells BY <1>1, <1>2, <2>1, Monotone
  <2>3. (r + 1) * Cells = r * Cells + Cells BY <1>1, <1>4
  <2>4. r * Cells \in Nat BY <1>1, <1>4
  <2>5. d * Cells \in Nat BY <1>1, <1>2
  <2> QED BY <1>1, <2>2, <2>3, <2>4, <2>5
<1>6. q \in Nat /\ w % d \in Nat /\ w % d < d /\ w = (q * d) + (w % d) BY <1>2, <1>5, DivMod
<1>7. k.x * Cells + p = (a.x * Cells + q) * d + (w % d)
  <2>1. k.x * Cells = (a.x * d) * Cells + r * Cells BY <1>1, <1>2, <1>4
  <2>2. k.x * Cells + p = (a.x * d) * Cells + w BY <1>1, <1>2, <1>4, <2>1
  <2>3. (a.x * Cells + q) * d = (a.x * d) * Cells + q * d BY <1>1, <1>2, <1>6
  <2> HIDE DEF w, q
  <2> QED BY <1>1, <1>2, <1>5, <1>6, <2>2, <2>3
<1> HIDE DEF w, q
<1>8. /\ (k.x * Cells + p) \div d = a.x * Cells + q
      /\ (k.x * Cells + p) % d = w % d
  <2>1. a.x * Cells + q \in Nat BY <1>1, <1>6
  <2>2. /\ ((a.x * Cells + q) * d + (w % d)) \div d = a.x * Cells + q
        /\ ((a.x * Cells + q) * d + (w % d)) % d = w % d
    BY <1>2, <1>6, <2>1, DivUnique
  <2> QED BY <1>7, <2>2
<1>9. low = q /\ rest = w % d
  <2>1. a.x * Cells \in Nat BY <1>1
  <2> QED BY <1>6, <1>8, <2>1 DEF Lower, Remainder, d
<1> HIDE DEF low, rest
<1>10. q <= Cells /\ (w % d # 0 => q < Cells)
  <2>1. CASE q >= Cells
    <3>1. Cells * d <= q * d BY <1>1, <1>2, <1>6, <2>1, Monotone
    <3>2. q * d \in Nat /\ Cells * d \in Nat /\ d * Cells = Cells * d BY <1>1, <1>2, <1>6
    <3>3. q * d = Cells * d /\ w % d = 0 BY <1>5, <1>6, <3>1, <3>2
    <3>4. CASE q > Cells
      <4>1. (Cells + 1) * d <= q * d BY <1>1, <1>2, <1>6, <3>4, Monotone
      <4>2. (Cells + 1) * d = Cells * d + d BY <1>1, <1>2
      <4> QED BY <1>2, <3>2, <3>3, <4>1, <4>2
    <3> QED BY <1>1, <1>6, <2>1, <3>3, <3>4
  <2>2. CASE q < Cells BY <1>1, <1>6, <2>2
  <2> QED BY <1>1, <1>6, <2>1, <2>2
<1>11. low \in 0 .. Cells /\ Upper(low) \in 0 .. Cells /\ (rest # 0 => Upper(low) = low + 1)
  BY <1>1, <1>6, <1>9, <1>10 DEF Upper
<1> QED BY <1>7, <1>9, <1>11 DEF d, low, rest

\* Wherever a tile lies in an ancestor, at any number of cells, its samples fall
\* between samples that the ancestor has.
THEOREM SamplesAlwaysEnclosed == Spec => []SamplesEnclosed
<1>1. IInv => SamplesEnclosed
  BY TileInTile DEF IInv, SamplesEnclosed
<1> QED BY Invariance, <1>1, PTL
-----------------------------------------------------------------------------
(* Neighborhood *)

LEMMA SidePositive == Side \in Nat \ {0}
BY Powers, LevelAssumption

\* The face and the edge beyond each edge, face by face.
LEMMA BeyondTable ==
  /\ Connection(0).west.face = 3 /\ Connection(0).east.face = 1
  /\ Connection(0).south.face = 5 /\ Connection(0).north.face = 4
  /\ Connection(0).west.edge = "east" /\ Connection(0).east.edge = "west"
  /\ Connection(0).south.edge = "north" /\ Connection(0).north.edge = "south"
  /\ Connection(1).west.face = 0 /\ Connection(1).east.face = 2
  /\ Connection(1).south.face = 5 /\ Connection(1).north.face = 4
  /\ Connection(1).west.edge = "east" /\ Connection(1).east.edge = "west"
  /\ Connection(1).south.edge = "east" /\ Connection(1).north.edge = "east"
  /\ Connection(2).west.face = 1 /\ Connection(2).east.face = 3
  /\ Connection(2).south.face = 5 /\ Connection(2).north.face = 4
  /\ Connection(2).west.edge = "east" /\ Connection(2).east.edge = "west"
  /\ Connection(2).south.edge = "south" /\ Connection(2).north.edge = "north"
  /\ Connection(3).west.face = 2 /\ Connection(3).east.face = 0
  /\ Connection(3).south.face = 5 /\ Connection(3).north.face = 4
  /\ Connection(3).west.edge = "east" /\ Connection(3).east.edge = "west"
  /\ Connection(3).south.edge = "west" /\ Connection(3).north.edge = "west"
  /\ Connection(4).west.face = 3 /\ Connection(4).east.face = 1
  /\ Connection(4).south.face = 0 /\ Connection(4).north.face = 2
  /\ Connection(4).west.edge = "north" /\ Connection(4).east.edge = "north"
  /\ Connection(4).south.edge = "north" /\ Connection(4).north.edge = "north"
  /\ Connection(5).west.face = 3 /\ Connection(5).east.face = 1
  /\ Connection(5).south.face = 2 /\ Connection(5).north.face = 0
  /\ Connection(5).west.edge = "south" /\ Connection(5).east.edge = "south"
  /\ Connection(5).south.edge = "south" /\ Connection(5).north.edge = "south"
BY DEF Connection, Beyond, To

\* The edges that are reversed, face by face.
LEMMA ReversedTable ==
  /\ ~Connection(0).west.reversed /\ ~Connection(0).east.reversed /\ ~Connection(0).south.reversed /\ ~Connection(0).north.reversed
  /\ ~Connection(1).west.reversed /\ ~Connection(1).east.reversed /\ Connection(1).south.reversed /\ ~Connection(1).north.reversed
  /\ ~Connection(2).west.reversed /\ ~Connection(2).east.reversed /\ Connection(2).south.reversed /\ Connection(2).north.reversed
  /\ ~Connection(3).west.reversed /\ ~Connection(3).east.reversed /\ ~Connection(3).south.reversed /\ Connection(3).north.reversed
  /\ Connection(4).west.reversed /\ ~Connection(4).east.reversed /\ ~Connection(4).south.reversed /\ Connection(4).north.reversed
  /\ ~Connection(5).west.reversed /\ Connection(5).east.reversed /\ Connection(5).south.reversed /\ ~Connection(5).north.reversed
BY DEF Connection, Beyond, To

\* Beyond every edge is an edge of another face.
LEMMA ConnectionType ==
  ASSUME NEW f \in Faces, NEW e \in Edges
  PROVE  /\ Connection(f)[e].face \in Faces /\ Connection(f)[e].face # f
         /\ Connection(f)[e].edge \in Edges
BY BeyondTable DEF Edges, Faces

ReversedEdges ==
  {<<1, "south">>, <<2, "south">>, <<2, "north">>, <<3, "north">>,
   <<4, "west">>, <<4, "north">>, <<5, "east">>, <<5, "south">>}

\* The table of faces is reciprocal: who crosses an edge and crosses back, at the
\* edge that was touched, is on the same face and the same edge, with the same
\* direction.
LEMMA ConnectionReciprocal ==
  ASSUME NEW f \in Faces, NEW e \in Edges
  PROVE  LET c == Connection(f)[e]
             b == Connection(c.face)[c.edge]
         IN  b.face = f /\ b.edge = e /\ (b.reversed <=> c.reversed)
<1> DEFINE c == Connection(f)[e]
           b == Connection(c.face)[c.edge]
<1>1. b.face = f /\ b.edge = e
  <2>1. CASE f = 0 BY <2>1, BeyondTable DEF Edges
  <2>2. CASE f = 1 BY <2>2, BeyondTable DEF Edges
  <2>3. CASE f = 2 BY <2>3, BeyondTable DEF Edges
  <2>4. CASE f = 3 BY <2>4, BeyondTable DEF Edges
  <2>5. CASE f = 4 BY <2>5, BeyondTable DEF Edges
  <2>6. CASE f = 5 BY <2>6, BeyondTable DEF Edges
  <2> QED BY <2>1, <2>2, <2>3, <2>4, <2>5, <2>6 DEF Faces
<1>3. \A g \in Faces, d \in Edges : Connection(g)[d].reversed <=> <<g, d>> \in ReversedEdges
  BY ReversedTable DEF Edges, Faces, ReversedEdges
<1>4. <<f, e>> \in ReversedEdges <=> <<c.face, c.edge>> \in ReversedEdges
  <2>1. CASE f = 0 BY <2>1, BeyondTable DEF Edges, ReversedEdges
  <2>2. CASE f = 1 BY <2>2, BeyondTable DEF Edges, ReversedEdges
  <2>3. CASE f = 2 BY <2>3, BeyondTable DEF Edges, ReversedEdges
  <2>4. CASE f = 3 BY <2>4, BeyondTable DEF Edges, ReversedEdges
  <2>5. CASE f = 4 BY <2>5, BeyondTable DEF Edges, ReversedEdges
  <2>6. CASE f = 5 BY <2>6, BeyondTable DEF Edges, ReversedEdges
  <2> QED BY <2>1, <2>2, <2>3, <2>4, <2>5, <2>6 DEF Faces
<1>5. c.face \in Faces /\ c.edge \in Edges BY ConnectionType
<1> HIDE DEF c
<1>6. b.reversed <=> <<c.face, c.edge>> \in ReversedEdges BY <1>3, <1>5
<1>7. c.reversed <=> <<f, e>> \in ReversedEdges BY <1>3 DEF c
<1> QED BY <1>1, <1>4, <1>6, <1>7 DEF c

\* Within a face the neighbor to one side has the tile on its opposite side.
LEMMA BesideReciprocal ==
  ASSUME NEW t \in Tiles, NEW e \in Edges, ~AtBorder(t, e)
  PROVE  /\ Beside(t, e) \in Tiles /\ Beside(t, e) # t
         /\ Opposite(e) \in Edges /\ Opposite(Opposite(e)) = e
         /\ ~AtBorder(Beside(t, e), Opposite(e))
         /\ Beside(Beside(t, e), Opposite(e)) = t
<1>1. CASE e = "west"
  <2>1. Beside(t, e) = [t EXCEPT !.x = t.x - 1] /\ Opposite(e) = "east" /\ t.x # 0
    BY <1>1 DEF Beside, Opposite, AtBorder
  <2> DEFINE b == [t EXCEPT !.x = t.x - 1]
  <2>2. b \in Tiles /\ b # t BY <2>1, SidePositive DEF Tiles
  <2>3. ~AtBorder(b, "east") BY <2>1, SidePositive DEF Tiles, AtBorder
  <2>4. Beside(b, "east") = t
    <3>1. Beside(b, "east") = [b EXCEPT !.x = b.x + 1] BY DEF Beside
    <3>2. b.x + 1 = t.x BY SidePositive DEF Tiles
    <3> QED BY <3>1, <3>2 DEF Tiles
  <2>5. Opposite("east") = e BY <1>1 DEF Opposite
  <2> QED BY <2>1, <2>2, <2>3, <2>4, <2>5 DEF Edges
<1>2. CASE e = "east"
  <2>1. Beside(t, e) = [t EXCEPT !.x = t.x + 1] /\ Opposite(e) = "west" /\ t.x # Side - 1
    BY <1>2 DEF Beside, Opposite, AtBorder
  <2> DEFINE b == [t EXCEPT !.x = t.x + 1]
  <2>2. b \in Tiles /\ b # t BY <2>1, SidePositive DEF Tiles
  <2>3. ~AtBorder(b, "west") BY <2>1, SidePositive DEF Tiles, AtBorder
  <2>4. Beside(b, "west") = t
    <3>1. Beside(b, "west") = [b EXCEPT !.x = b.x - 1] BY DEF Beside
    <3>2. b.x - 1 = t.x BY SidePositive DEF Tiles
    <3> QED BY <3>1, <3>2 DEF Tiles
  <2>5. Opposite("west") = e BY <1>2 DEF Opposite
  <2> QED BY <2>1, <2>2, <2>3, <2>4, <2>5 DEF Edges
<1>3. CASE e = "south"
  <2>1. Beside(t, e) = [t EXCEPT !.y = t.y - 1] /\ Opposite(e) = "north" /\ t.y # 0
    BY <1>3 DEF Beside, Opposite, AtBorder
  <2> DEFINE b == [t EXCEPT !.y = t.y - 1]
  <2>2. b \in Tiles /\ b # t BY <2>1, SidePositive DEF Tiles
  <2>3. ~AtBorder(b, "north") BY <2>1, SidePositive DEF Tiles, AtBorder
  <2>4. Beside(b, "north") = t
    <3>1. Beside(b, "north") = [b EXCEPT !.y = b.y + 1] BY DEF Beside
    <3>2. b.y + 1 = t.y BY SidePositive DEF Tiles
    <3> QED BY <3>1, <3>2 DEF Tiles
  <2>5. Opposite("north") = e BY <1>3 DEF Opposite
  <2> QED BY <2>1, <2>2, <2>3, <2>4, <2>5 DEF Edges
<1>4. CASE e = "north"
  <2>1. Beside(t, e) = [t EXCEPT !.y = t.y + 1] /\ Opposite(e) = "south" /\ t.y # Side - 1
    BY <1>4 DEF Beside, Opposite, AtBorder
  <2> DEFINE b == [t EXCEPT !.y = t.y + 1]
  <2>2. b \in Tiles /\ b # t BY <2>1, SidePositive DEF Tiles
  <2>3. ~AtBorder(b, "south") BY <2>1, SidePositive DEF Tiles, AtBorder
  <2>4. Beside(b, "south") = t
    <3>1. Beside(b, "south") = [b EXCEPT !.y = b.y - 1] BY DEF Beside
    <3>2. b.y - 1 = t.y BY SidePositive DEF Tiles
    <3> QED BY <3>1, <3>2 DEF Tiles
  <2>5. Opposite("south") = e BY <1>4 DEF Opposite
  <2> QED BY <2>1, <2>2, <2>3, <2>4, <2>5 DEF Edges
<1> QED BY <1>1, <1>2, <1>3, <1>4 DEF Edges

\* Across the edge of a face the position along the edge is kept, or mirrored twice.
LEMMA AcrossReciprocal ==
  ASSUME NEW t \in Tiles, NEW e \in Edges, AtBorder(t, e)
  PROVE  LET c == Connection(t.face)[e]
         IN  /\ Across(t, e) \in Tiles /\ Across(t, e) # t
             /\ Across(t, e).face = c.face
             /\ AtBorder(Across(t, e), c.edge)
             /\ Across(Across(t, e), c.edge) = t
<1> DEFINE c == Connection(t.face)[e]
           b == Connection(c.face)[c.edge]
           a == Across(t, e)
<1>1. /\ c.face \in Faces /\ c.face # t.face /\ c.edge \in Edges
      /\ b.face = t.face /\ b.edge = e /\ (b.reversed <=> c.reversed)
  BY ConnectionType, ConnectionReciprocal DEF Tiles
<1> DEFINE along == IF Vertical(e) THEN t.y ELSE t.x
           mirror == IF c.reversed THEN Side - 1 - along ELSE along
<1>2. a = [face |-> c.face,
           x |-> CASE c.edge = "west" -> 0 [] c.edge = "east" -> Side - 1 [] OTHER -> mirror,
           y |-> CASE c.edge = "south" -> 0 [] c.edge = "north" -> Side - 1 [] OTHER -> mirror]
  BY DEF Across
<1>3. Across(a, c.edge) =
        LET back == IF Vertical(c.edge) THEN a.y ELSE a.x
            home == IF b.reversed THEN Side - 1 - back ELSE back
        IN  [face |-> b.face,
             x |-> CASE b.edge = "west" -> 0 [] b.edge = "east" -> Side - 1 [] OTHER -> home,
             y |-> CASE b.edge = "south" -> 0 [] b.edge = "north" -> Side - 1 [] OTHER -> home]
  BY <1>2 DEF Across
<1> HIDE DEF c, b
<1>4. mirror \in 0 .. Side - 1 /\ along \in 0 .. Side - 1
  BY SidePositive DEF Tiles
<1> HIDE DEF a, mirror
<1>5. a \in Tiles /\ a.face = c.face /\ AtBorder(a, c.edge)
  BY <1>1, <1>2, <1>4, SidePositive DEF Tiles, AtBorder, Edges
<1>6. (IF Vertical(c.edge) THEN a.y ELSE a.x) = mirror
  BY <1>1, <1>2, <1>4 DEF Vertical, Edges
<1>7. (IF b.reversed THEN Side - 1 - mirror ELSE mirror) = along
  BY <1>1, <1>4, SidePositive DEF mirror
<1>8. Across(a, c.edge) = t
  BY <1>1, <1>3, <1>6, <1>7, SidePositive DEF Tiles, AtBorder, Edges, Vertical
<1> QED BY <1>1, <1>5, <1>8 DEF a, c

\* qsc_tile_neighbor at every level: the neighbor is a tile of the level, not the
\* tile itself, and has the tile as its neighbor across the edge it is touched at.
THEOREM NeighborReciprocal ==
  ASSUME NEW t \in Tiles, NEW e \in Edges
  PROVE  LET n == Neighbor(t, e)
             b == Neighbor(n.key, n.edge)
         IN  /\ n.key \in Tiles /\ n.key # t /\ n.edge \in Edges
             /\ b.key = t /\ b.edge = e /\ (b.reversed <=> n.reversed)
<1>1. CASE AtBorder(t, e)
  <2> DEFINE c == Connection(t.face)[e]
             a == Across(t, e)
  <2>1. /\ Neighbor(t, e).key = a /\ Neighbor(t, e).edge = c.edge
        /\ Neighbor(t, e).reversed <=> c.reversed
    BY <1>1 DEF Neighbor
  <2>2. /\ a \in Tiles /\ a # t /\ a.face = c.face
        /\ AtBorder(a, c.edge) /\ Across(a, c.edge) = t
    BY <1>1, AcrossReciprocal
  <2>3. /\ c.edge \in Edges
        /\ Connection(c.face)[c.edge].edge = e
        /\ Connection(c.face)[c.edge].reversed <=> c.reversed
    BY ConnectionType, ConnectionReciprocal DEF Tiles
  <2> HIDE DEF a, c
  <2>4. /\ Neighbor(a, c.edge).key = t /\ Neighbor(a, c.edge).edge = e
        /\ Neighbor(a, c.edge).reversed <=> c.reversed
    BY <2>2, <2>3 DEF Neighbor
  <2> QED BY <2>1, <2>2, <2>3, <2>4
<1>2. CASE ~AtBorder(t, e)
  <2>1. Neighbor(t, e) = [key |-> Beside(t, e), edge |-> Opposite(e), reversed |-> FALSE]
    BY <1>2 DEF Neighbor
  <2>2. /\ Beside(t, e) \in Tiles /\ Beside(t, e) # t
        /\ Opposite(e) \in Edges /\ Opposite(Opposite(e)) = e
        /\ ~AtBorder(Beside(t, e), Opposite(e))
        /\ Beside(Beside(t, e), Opposite(e)) = t
    BY <1>2, BesideReciprocal
  <2>3. Neighbor(Beside(t, e), Opposite(e)) = [key |-> t, edge |-> e, reversed |-> FALSE]
    BY <2>2 DEF Neighbor
  <2> QED BY <2>1, <2>2, <2>3
<1> QED BY <1>1, <1>2

Standing == tile \in Tiles /\ corner \in Corners

\* Whoever walks over the level stays on it.
LEMMA WalkStays == WalkSpec => []Standing
<1>1. WalkInit => Standing BY DEF WalkInit, Standing
<1>2. Standing /\ [Turn]_walkVars => Standing'
  <2> SUFFICES ASSUME Standing, [Turn]_walkVars PROVE Standing' OBVIOUS
  <2>1. CASE Turn
    <3>1. PICK edge \in EdgesAt(corner) : /\ tile' = Around(tile, corner, edge).tile
                                          /\ corner' = Around(tile, corner, edge).corner
      BY <2>1 DEF Turn
    <3>2. edge \in Edges BY DEF EdgesAt
    <3>3. tile' = Neighbor(tile, edge).key BY <3>1 DEF Around
    <3>4. tile' \in Tiles BY <3>2, <3>3, NeighborReciprocal DEF Standing
    <3>5. corner' \in Corners BY <3>1 DEF Around, FacingCorner, EdgeCorner, Corners
    <3> QED BY <3>4, <3>5 DEF Standing
  <2>2. CASE UNCHANGED walkVars BY <2>2 DEF Standing, walkVars
  <2> QED BY <2>1, <2>2
<1> QED BY <1>1, <1>2, PTL DEF WalkSpec

\* Neighbors are reciprocal wherever the walk has led, at every level.
THEOREM WalkReciprocal == WalkSpec => []NeighborsReciprocal
<1>1. Standing => NeighborsReciprocal BY NeighborReciprocal DEF Standing, NeighborsReciprocal
<1> QED BY <1>1, WalkStays, PTL

-----------------------------------------------------------------------------
(* Corners. A place beside an edge is given by the edge and the position     *)
(* along it; the other edge at an end of an edge is its side edge there.     *)

SideEdge(e, h) ==
  IF Vertical(e) THEN (IF h THEN "north" ELSE "south") ELSE (IF h THEN "east" ELSE "west")

Along(t, e) == IF Vertical(e) THEN t.y ELSE t.x

\* The position at an end of an edge, and the next one towards that end.
End(h) == IF h THEN Side - 1 ELSE 0
Toward(a, h) == IF h THEN a + 1 ELSE a - 1
Mirror(r, a) == IF r THEN Side - 1 - a ELSE a

\* The tile of a face at an edge and a position along it.
AtEdge(f, e, a) ==
  [face |-> f,
   x |-> CASE e = "west" -> 0 [] e = "east" -> Side - 1 [] OTHER -> a,
   y |-> CASE e = "south" -> 0 [] e = "north" -> Side - 1 [] OTHER -> a]

LEMMA SideEdges ==
  ASSUME NEW e \in Edges, NEW h \in BOOLEAN
  PROVE  /\ SideEdge(e, h) \in Edges /\ SideEdge(e, h) # e
         /\ Opposite(SideEdge(e, h)) = SideEdge(e, ~h)
         /\ SideEdge(Opposite(e), h) = SideEdge(e, h) /\ Opposite(e) \in Edges
         /\ EdgeCorner(e, h) \in Corners
         /\ EdgesAt(EdgeCorner(e, h)) = {e, SideEdge(e, h)}
<1>1. EdgeCorner(e, h) \in Corners BY DEF Edges, EdgeCorner, Corners
<1>2. ASSUME NEW d \in Edges
      PROVE  (\E g \in BOOLEAN : EdgeCorner(d, g) = EdgeCorner(e, h)) <=> (d = e \/ d = SideEdge(e, h))
  <2>1. CASE h = TRUE BY <2>1 DEF Edges, EdgeCorner, SideEdge, Vertical
  <2>2. CASE h = FALSE BY <2>2 DEF Edges, EdgeCorner, SideEdge, Vertical
  <2> QED BY <2>1, <2>2
<1>3. /\ SideEdge(e, h) \in Edges /\ SideEdge(e, h) # e
      /\ Opposite(SideEdge(e, h)) = SideEdge(e, ~h)
      /\ SideEdge(Opposite(e), h) = SideEdge(e, h) /\ Opposite(e) \in Edges
  BY DEF SideEdge, Edges, Vertical, Opposite
<1>4. EdgesAt(EdgeCorner(e, h)) = {e, SideEdge(e, h)} BY <1>2, <1>3 DEF EdgesAt
<1> QED BY <1>1, <1>3, <1>4

\* Every corner is the end of its vertical edge, and its other edge is the side
\* edge there; seen from the side edge it is the same.
LEMMA CornerEnds ==
  /\ \A c \in Corners : \E e \in Edges, h \in BOOLEAN : Vertical(e) /\ c = EdgeCorner(e, h)
  /\ \A e \in Edges, h \in BOOLEAN :
       /\ EndAt(e, EdgeCorner(e, h)) = h
       /\ \E g \in BOOLEAN : EdgeCorner(SideEdge(e, h), g) = EdgeCorner(e, h) /\ SideEdge(SideEdge(e, h), g) = e
       /\ Vertical(SideEdge(e, h)) <=> ~Vertical(e)
<1>1. ASSUME NEW c \in Corners
      PROVE  \E e \in Edges, h \in BOOLEAN : Vertical(e) /\ c = EdgeCorner(e, h)
  <2>1. /\ EdgeCorner("west", FALSE) = "sw" /\ EdgeCorner("west", TRUE) = "nw"
        /\ EdgeCorner("east", FALSE) = "se" /\ EdgeCorner("east", TRUE) = "ne"
    BY DEF EdgeCorner
  <2> QED BY <2>1 DEF Corners, Edges, Vertical
<1>2. ASSUME NEW e \in Edges, NEW h \in BOOLEAN
      PROVE  /\ EndAt(e, EdgeCorner(e, h)) = h
             /\ Vertical(SideEdge(e, h)) <=> ~Vertical(e)
  BY DEF Edges, EndAt, EdgeCorner, SideEdge, Vertical
<1>3. ASSUME NEW e \in Edges, NEW h \in BOOLEAN
      PROVE  \E g \in BOOLEAN : EdgeCorner(SideEdge(e, h), g) = EdgeCorner(e, h) /\ SideEdge(SideEdge(e, h), g) = e
  <2> DEFINE G == e \in {"east", "north"}
  <2>1. EdgeCorner(SideEdge(e, h), G) = EdgeCorner(e, h) /\ SideEdge(SideEdge(e, h), G) = e
    BY DEF Edges, EdgeCorner, SideEdge, Vertical
  <2>2. G \in BOOLEAN OBVIOUS
  <2> HIDE DEF G
  <2> QED BY <2>1, <2>2
<1> QED BY <1>1, <1>2, <1>3

LEMMA AtEdgeType ==
  ASSUME NEW f \in Faces, NEW e \in Edges, NEW a \in 0 .. Side - 1
  PROVE  /\ AtEdge(f, e, a) \in Tiles /\ AtEdge(f, e, a).face = f
         /\ AtBorder(AtEdge(f, e, a), e) /\ Along(AtEdge(f, e, a), e) = a
BY SidePositive DEF AtEdge, Tiles, AtBorder, Along, Edges, Vertical

LEMMA AtEdgeOf ==
  ASSUME NEW t \in Tiles, NEW e \in Edges, AtBorder(t, e)
  PROVE  Along(t, e) \in 0 .. Side - 1 /\ t = AtEdge(t.face, e, Along(t, e))
BY SidePositive DEF AtEdge, Tiles, AtBorder, Along, Edges, Vertical

\* Stepping along an edge.
LEMMA AtEdgeBeside ==
  ASSUME NEW f \in Faces, NEW e \in Edges, NEW a \in 0 .. Side - 1, NEW h \in BOOLEAN
  PROVE  /\ AtBorder(AtEdge(f, e, a), SideEdge(e, h)) <=> a = End(h)
         /\ a # End(h) =>
              /\ Toward(a, h) \in 0 .. Side - 1
              /\ Beside(AtEdge(f, e, a), SideEdge(e, h)) = AtEdge(f, e, Toward(a, h))
<1>1. AtBorder(AtEdge(f, e, a), SideEdge(e, h)) <=> a = End(h)
  BY SidePositive DEF AtEdge, AtBorder, Edges, Vertical, SideEdge, End
<1>2. a # End(h) => Toward(a, h) \in 0 .. Side - 1
  BY SidePositive DEF End, Toward
<1>3. Beside(AtEdge(f, e, a), SideEdge(e, h)) = AtEdge(f, e, Toward(a, h))
  BY SidePositive DEF AtEdge, Beside, Edges, Vertical, SideEdge, Toward
<1> QED BY <1>1, <1>2, <1>3

\* Stepping across it.
LEMMA AtEdgeAcross ==
  ASSUME NEW f \in Faces, NEW e \in Edges, NEW a \in 0 .. Side - 1
  PROVE  LET c == Connection(f)[e]
         IN  /\ Across(AtEdge(f, e, a), e) = AtEdge(c.face, c.edge, Mirror(c.reversed, a))
             /\ Mirror(c.reversed, a) \in 0 .. Side - 1
<1> DEFINE c == Connection(f)[e]
<1>1. AtEdge(f, e, a).face = f /\ Along(AtEdge(f, e, a), e) = a BY AtEdgeType
<1> HIDE DEF c
<1>2. Across(AtEdge(f, e, a), e) = AtEdge(c.face, c.edge, Mirror(c.reversed, a))
  BY <1>1 DEF Across, Along, AtEdge, Mirror, c
<1>3. Mirror(c.reversed, a) \in 0 .. Side - 1 BY SidePositive DEF Mirror
<1> QED BY <1>2, <1>3 DEF c

\* A reversed edge exchanges its ends and the directions along it.
LEMMA MirrorEnds ==
  ASSUME NEW r \in BOOLEAN, NEW h \in BOOLEAN, NEW a \in 0 .. Side - 1
  PROVE  /\ Mirror(r, a) = End(h # r) <=> a = End(h)
         /\ Mirror(r, Toward(a, h)) = Toward(Mirror(r, a), h # r)
         /\ Toward(Toward(a, h), ~h) = a
         /\ Mirror(r, End(h)) = End(h # r)
         /\ ((h # r) # r) = h
         /\ ((~h) # r) = ~(h # r)
<1>1. ((h # r) # r) = h /\ ((~h) # r) = ~(h # r) BY Zenon
<1>2. Toward(Toward(a, h), ~h) = a BY DEF Toward
<1>3. CASE r
  <2>1. (h # r) = ~h BY <1>3, Zenon
  <2>2. /\ Mirror(r, a) = End(~h) <=> a = End(h)
        /\ Mirror(r, Toward(a, h)) = Toward(Mirror(r, a), ~h)
        /\ Mirror(r, End(h)) = End(~h)
    BY <1>3, SidePositive DEF Mirror, End, Toward
  <2> QED BY <1>1, <1>2, <2>1, <2>2, Zenon
<1>4. CASE ~r
  <2>1. (h # r) = h BY <1>4, Zenon
  <2>2. /\ Mirror(r, a) = End(h) <=> a = End(h)
        /\ Mirror(r, Toward(a, h)) = Toward(Mirror(r, a), h)
        /\ Mirror(r, End(h)) = End(h)
    BY <1>4, SidePositive DEF Mirror, End, Toward
  <2> QED BY <1>1, <1>2, <2>1, <2>2, Zenon
<1> QED BY <1>3, <1>4

LEMMA ConnectionReverses ==
  ASSUME NEW f \in Faces, NEW e \in Edges
  PROVE  Connection(f)[e].reversed \in BOOLEAN
<1> DEFINE Places == [face : Faces, edge : Edges, reversed : BOOLEAN]
<1>1. \A face \in Faces, edge \in Edges, reversed \in BOOLEAN : To(face, edge, reversed) \in Places
  BY DEF To
<1>2. \A west, east, south, north \in Places : Beyond(west, east, south, north)[e] \in Places
  BY DEF Beyond, Edges
<1>3. \A place \in Places : place.reversed \in BOOLEAN OBVIOUS
<1> HIDE DEF Places
<1>4. /\ 0 \in Faces /\ 1 \in Faces /\ 2 \in Faces /\ 3 \in Faces /\ 4 \in Faces /\ 5 \in Faces
      /\ "west" \in Edges /\ "east" \in Edges /\ "south" \in Edges /\ "north" \in Edges
      /\ TRUE \in BOOLEAN /\ FALSE \in BOOLEAN
  BY DEF Faces, Edges
<1>5. CASE f = 0
  <2>1. Connection(f) = Beyond(To(3, "east", FALSE), To(1, "west", FALSE),
                               To(5, "north", FALSE), To(4, "south", FALSE))
    BY <1>5 DEF Connection
  <2> QED BY <1>1, <1>2, <1>3, <1>4, <2>1
<1>6. CASE f = 1
  <2>1. Connection(f) = Beyond(To(0, "east", FALSE), To(2, "west", FALSE),
                               To(5, "east", TRUE), To(4, "east", FALSE))
    BY <1>6 DEF Connection
  <2> QED BY <1>1, <1>2, <1>3, <1>4, <2>1
<1>7. CASE f = 2
  <2>1. Connection(f) = Beyond(To(1, "east", FALSE), To(3, "west", FALSE),
                               To(5, "south", TRUE), To(4, "north", TRUE))
    BY <1>7 DEF Connection
  <2> QED BY <1>1, <1>2, <1>3, <1>4, <2>1
<1>8. CASE f = 3
  <2>1. Connection(f) = Beyond(To(2, "east", FALSE), To(0, "west", FALSE),
                               To(5, "west", FALSE), To(4, "west", TRUE))
    BY <1>8 DEF Connection
  <2> QED BY <1>1, <1>2, <1>3, <1>4, <2>1
<1>9. CASE f = 4
  <2>1. Connection(f) = Beyond(To(3, "north", TRUE), To(1, "north", FALSE),
                               To(0, "north", FALSE), To(2, "north", TRUE))
    BY <1>9 DEF Connection
  <2> QED BY <1>1, <1>2, <1>3, <1>4, <2>1
<1>10. CASE f = 5
  <2>1. Connection(f) = Beyond(To(3, "south", FALSE), To(1, "south", TRUE),
                               To(2, "south", TRUE), To(0, "south", FALSE))
    BY <1>10 DEF Connection
  <2> QED BY <1>1, <1>2, <1>3, <1>4, <2>1
<1> QED BY <1>5, <1>6, <1>7, <1>8, <1>9, <1>10 DEF Faces

LEMMA NeighborReverses ==
  ASSUME NEW t \in Tiles, NEW e \in Edges
  PROVE  Neighbor(t, e).reversed \in BOOLEAN
<1>1. t.face \in Faces BY DEF Tiles
<1>2. CASE AtBorder(t, e)
  <2>1. Neighbor(t, e).reversed = Connection(t.face)[e].reversed BY <1>2 DEF Neighbor
  <2> QED BY <1>1, <2>1, ConnectionReverses
<1>3. CASE ~AtBorder(t, e) BY <1>3 DEF Neighbor
<1> QED BY <1>2, <1>3

\* Four tiles around a corner: whether one goes across an edge before going along
\* it, or after, one gets to the same tile.
Square(t, e, h) ==
  LET o == SideEdge(e, h)
      b == Beside(t, o)
      n == Neighbor(t, e)
      m == Neighbor(b, e)
      p == SideEdge(n.edge, h # n.reversed)
  IN  /\ b \in Tiles /\ b # t
      /\ m.edge = n.edge /\ (m.reversed <=> n.reversed)
      /\ ~AtBorder(n.key, p) /\ m.key = Beside(n.key, p) /\ m.key # n.key
      /\ n.key # b /\ m.key # t

LEMMA SquareAcross ==
  ASSUME NEW t \in Tiles, NEW e \in Edges, NEW h \in BOOLEAN,
         AtBorder(t, e), ~AtBorder(t, SideEdge(e, h))
  PROVE  Square(t, e, h)
<1> DEFINE o == SideEdge(e, h)
           b == Beside(t, o)
           n == Neighbor(t, e)
           m == Neighbor(b, e)
           p == SideEdge(n.edge, h # n.reversed)
           f == t.face
           a == Along(t, e)
           c == Connection(f)[e]
           g == Mirror(c.reversed, a)
           k == h # c.reversed
<1>1. f \in Faces /\ a \in 0 .. Side - 1 /\ t = AtEdge(f, e, a) BY AtEdgeOf DEF Tiles
<1>2. a # End(h) /\ Toward(a, h) \in 0 .. Side - 1 /\ b = AtEdge(f, e, Toward(a, h))
  BY <1>1, AtEdgeBeside
<1>3. /\ c.face \in Faces /\ c.face # f /\ c.edge \in Edges /\ c.reversed \in BOOLEAN
  BY <1>1, ConnectionType, ConnectionReverses
<1>4. /\ b \in Tiles /\ AtBorder(b, e) /\ b.face = f BY <1>1, <1>2, AtEdgeType
<1>5. n.key = Across(t, e) /\ n.edge = c.edge /\ n.reversed = c.reversed BY DEF Neighbor
<1>6. m.key = Across(b, e) /\ m.edge = c.edge /\ m.reversed = c.reversed BY <1>4 DEF Neighbor
<1>7. n.key = AtEdge(c.face, c.edge, g) /\ g \in 0 .. Side - 1 BY <1>1, <1>5, AtEdgeAcross
<1>8. m.key = AtEdge(c.face, c.edge, Mirror(c.reversed, Toward(a, h)))
  BY <1>1, <1>2, <1>6, AtEdgeAcross
<1>9. k \in BOOLEAN /\ p = SideEdge(c.edge, k) BY <1>5
<1> HIDE DEF a, f, b, n, m, p, c, k
<1>10. g # End(k) /\ Mirror(c.reversed, Toward(a, h)) = Toward(g, k)
  BY <1>1, <1>2, <1>3, MirrorEnds DEF k
<1> HIDE DEF g
<1>11. ~AtBorder(n.key, p) /\ m.key = Beside(n.key, p)
  BY <1>3, <1>7, <1>8, <1>9, <1>10, AtEdgeBeside
<1>12. n.key \in Tiles /\ n.key.face = c.face BY <1>3, <1>7, AtEdgeType
<1>13. p \in Edges BY <1>3, <1>9, SideEdges
<1>14. m.key # n.key BY <1>11, <1>12, <1>13, BesideReciprocal
<1>15. m.key.face = c.face BY <1>8 DEF AtEdge
<1>16. t.face = f BY DEF f
<1>17. b # t
  <2>1. o \in Edges BY SideEdges
  <2> QED BY <2>1, BesideReciprocal DEF b
<1>18. b \in Tiles /\ m.edge = n.edge /\ (m.reversed <=> n.reversed) BY <1>4, <1>5, <1>6
<1>19. n.key # b /\ m.key # t BY <1>3, <1>4, <1>12, <1>15, <1>16
<1> QED BY <1>11, <1>14, <1>17, <1>18, <1>19 DEF Square, b, n, m, p

LEMMA SquareWithin ==
  ASSUME NEW t \in Tiles, NEW e \in Edges, NEW h \in BOOLEAN,
         ~AtBorder(t, e), ~AtBorder(t, SideEdge(e, h))
  PROVE  Square(t, e, h)
<1> DEFINE o == SideEdge(e, h)
           b == Beside(t, o)
<1>1. o \in Edges /\ b \in Tiles /\ b # t BY SideEdges, BesideReciprocal
<1>2. Neighbor(t, e) = [key |-> Beside(t, e), edge |-> Opposite(e), reversed |-> FALSE]
  BY DEF Neighbor
<1>3. ~AtBorder(b, e)
  BY DEF AtBorder, Beside, SideEdge, Vertical, Edges, Tiles
<1>4. Neighbor(b, e) = [key |-> Beside(b, e), edge |-> Opposite(e), reversed |-> FALSE]
  BY <1>3 DEF Neighbor
<1>5. SideEdge(Opposite(e), h # FALSE) = o /\ (h # FALSE <=> h) BY SideEdges
<1>6. ~AtBorder(Beside(t, e), o)
  BY DEF AtBorder, Beside, SideEdge, Vertical, Edges, Tiles
<1>7. Beside(b, e) = Beside(Beside(t, e), o)
  BY SMTT(120) DEF Beside, SideEdge, Vertical, Edges, Tiles
<1>8. Beside(t, e) \in Tiles BY BesideReciprocal
<1>9. Beside(Beside(t, e), o) # Beside(t, e) BY <1>1, <1>6, <1>8, BesideReciprocal
<1>10. Beside(t, e) # b /\ Beside(b, e) # t
  BY SidePositive DEF Beside, SideEdge, Vertical, Edges, Tiles
<1> DEFINE n == Neighbor(t, e)
           m == Neighbor(b, e)
           p == SideEdge(n.edge, h # n.reversed)
<1> HIDE DEF b
<1>11. /\ n.key = Beside(t, e) /\ n.edge = Opposite(e) /\ n.reversed = FALSE
       /\ m.key = Beside(b, e) /\ m.edge = Opposite(e) /\ m.reversed = FALSE
  BY <1>2, <1>4
<1> HIDE DEF n, m, o
<1>12. p = o BY <1>5, <1>11
<1> HIDE DEF p
<1>13. /\ b \in Tiles /\ b # t
       /\ m.edge = n.edge /\ (m.reversed <=> n.reversed)
       /\ ~AtBorder(n.key, p) /\ m.key = Beside(n.key, p) /\ m.key # n.key
       /\ n.key # b /\ m.key # t
  BY <1>1, <1>6, <1>7, <1>9, <1>10, <1>11, <1>12 DEF b
<1> QED BY <1>13 DEF Square, o, b, n, m, p

LEMMA Squares ==
  ASSUME NEW t \in Tiles, NEW e \in Edges, NEW h \in BOOLEAN, ~AtBorder(t, SideEdge(e, h))
  PROVE  Square(t, e, h)
BY SquareAcross, SquareWithin

-----------------------------------------------------------------------------
(* Around a corner *)

Place(t, c, from) == [tile |-> t, corner |-> c, from |-> from]

\* A step across an edge at one of its ends; within the face it is known where the
\* step leads.
LEMMA StepAcross ==
  ASSUME NEW t \in Tiles, NEW e \in Edges, NEW h \in BOOLEAN
  PROVE  LET n == Neighbor(t, e)
         IN  Around(t, EdgeCorner(e, h), e) = Place(n.key, EdgeCorner(n.edge, h # n.reversed), n.edge)
<1>1. EndAt(e, EdgeCorner(e, h)) = h BY CornerEnds
<1> QED BY <1>1, Zenon DEF Around, FacingCorner, Place

LEMMA StepBeside ==
  ASSUME NEW t \in Tiles, NEW e \in Edges, NEW h \in BOOLEAN, ~AtBorder(t, SideEdge(e, h))
  PROVE  Around(t, EdgeCorner(e, h), SideEdge(e, h))
           = Place(Beside(t, SideEdge(e, h)), EdgeCorner(e, ~h), SideEdge(e, ~h))
<1> DEFINE o == SideEdge(e, h)
<1>1. PICK g \in BOOLEAN : EdgeCorner(o, g) = EdgeCorner(e, h) /\ SideEdge(o, g) = e
  BY CornerEnds
<1>2. o \in Edges /\ Opposite(o) = SideEdge(e, ~h) /\ Opposite(o) \in Edges BY SideEdges
<1>3. Neighbor(t, o) = [key |-> Beside(t, o), edge |-> Opposite(o), reversed |-> FALSE]
  BY DEF Neighbor
<1>4. EdgeCorner(Opposite(o), g) = EdgeCorner(e, ~h)
  <2>1. CASE g
    <3>1. g = TRUE BY <2>1
    <3> QED BY <1>1, <3>1 DEF EdgeCorner, SideEdge, Opposite, Edges, Vertical
  <2>2. CASE ~g
    <3>1. g = FALSE BY <2>2
    <3> QED BY <1>1, <3>1 DEF EdgeCorner, SideEdge, Opposite, Edges, Vertical
  <2> QED BY <2>1, <2>2
<1> HIDE DEF o
<1> DEFINE n == Neighbor(t, o)
<1>5. n.key = Beside(t, o) /\ n.edge = Opposite(o) /\ n.reversed = FALSE BY <1>3
<1>6. Around(t, EdgeCorner(o, g), o) = Place(n.key, EdgeCorner(n.edge, g # n.reversed), n.edge)
  BY <1>2, StepAcross
<1> HIDE DEF n
<1>7. (g # n.reversed) = g BY <1>5, Zenon
<1>8. Around(t, EdgeCorner(e, h), o) = Place(Beside(t, o), EdgeCorner(e, ~h), SideEdge(e, ~h))
  BY <1>1, <1>2, <1>4, <1>5, <1>6, <1>7
<1> QED BY <1>8 DEF o

\* Who came along or across an edge goes on across or along it.
LEMMA Turning ==
  ASSUME NEW t, NEW e \in Edges, NEW h \in BOOLEAN
  PROVE  /\ Onward(Place(t, EdgeCorner(e, h), e)) = SideEdge(e, h)
         /\ Onward(Place(t, EdgeCorner(e, h), SideEdge(e, h))) = e
<1>1. EdgesAt(EdgeCorner(e, h)) = {e, SideEdge(e, h)} /\ SideEdge(e, h) # e BY SideEdges
<1>2. \A from : /\ Place(t, EdgeCorner(e, h), from).corner = EdgeCorner(e, h)
                /\ Place(t, EdgeCorner(e, h), from).from = from
  BY DEF Place
<1> QED BY <1>1, <1>2 DEF Onward

GoOn(s) == Around(s.tile, s.corner, Onward(s))

LEMMA RingUnfolds ==
  ASSUME NEW e
  PROVE  /\ Ring(e)[0] = Around(tile, corner, e)
         /\ Ring(e)[1] = GoOn(Ring(e)[0])
         /\ Ring(e)[2] = GoOn(Ring(e)[1])
         /\ Ring(e)[3] = GoOn(Ring(e)[2])
<1> DEFINE one == Around(tile, corner, e)
           two == GoOn(one)
           three == GoOn(two)
           four == GoOn(three)
           F == [i \in 0 .. 3 |-> IF i = 0 THEN one ELSE IF i = 1 THEN two ELSE IF i = 2 THEN three ELSE four]
<1>1. F = [i \in 0 .. 3 |-> IF i = 0 THEN one ELSE LET s == F[i - 1] IN Around(s.tile, s.corner, Onward(s))]
  <2>1. two = GoOn(one) /\ three = GoOn(two) /\ four = GoOn(three) OBVIOUS
  <2> HIDE DEF one, two, three, four
  <2>2. /\ F[0] = one /\ F[1] = two /\ F[2] = three /\ F[3] = four
        /\ F = [i \in 0 .. 3 |-> F[i]]
    OBVIOUS
  <2> HIDE DEF F
  <2>3. ASSUME NEW i \in 0 .. 3 PROVE F[i] = IF i = 0 THEN one ELSE GoOn(F[i - 1])
    <3>1. i = 0 \/ i = 1 \/ i = 2 \/ i = 3 OBVIOUS
    <3>2. 1 - 1 = 0 /\ 2 - 1 = 1 /\ 3 - 1 = 2 OBVIOUS
    <3> QED BY <2>1, <2>2, <3>1, <3>2
  <2>4. F = [i \in 0 .. 3 |-> IF i = 0 THEN one ELSE GoOn(F[i - 1])] BY <2>2, <2>3
  <2> QED BY <2>4 DEF GoOn
<1> HIDE DEF F
<1>2. Ring(e) = [i \in 0 .. 3 |->
         IF i = 0 THEN one ELSE LET s == Ring(e)[i - 1] IN Around(s.tile, s.corner, Onward(s))]
  BY <1>1, Zenon DEF Ring
<1> QED BY <1>2 DEF GoOn

LEMMA Exchange ==
  ASSUME NEW h \in BOOLEAN, NEW r \in BOOLEAN
  PROVE  /\ (h # r) \in BOOLEAN /\ (~(h # r)) \in BOOLEAN /\ (~h) \in BOOLEAN
         /\ ((~h) # r) = ~(h # r) /\ ((h # r) # r) = h /\ ((~(h # r)) # r) = ~h
         /\ ~~h = h
<1>1. CASE r BY <1>1, Zenon
<1>2. CASE ~r BY <1>2, Zenon
<1> QED BY <1>1, <1>2

\* The places of a ring of four tiles, in both directions.
LEMMA FourSteps ==
  ASSUME NEW t \in Tiles, NEW e \in Edges, NEW h \in BOOLEAN, ~AtBorder(t, SideEdge(e, h))
  PROVE  LET o == SideEdge(e, h)
             b == Beside(t, o)
             n == Neighbor(t, e)
             m == Neighbor(b, e)
             k == h # n.reversed
             c == EdgeCorner(e, h)
             c1 == EdgeCorner(e, ~h)
             d == EdgeCorner(n.edge, k)
             d1 == EdgeCorner(n.edge, ~k)
             p == SideEdge(n.edge, k)
             q == SideEdge(n.edge, ~k)
             back == SideEdge(e, ~h)
         IN  /\ Around(t, c, e) = Place(n.key, d, n.edge)
             /\ GoOn(Place(n.key, d, n.edge)) = Place(m.key, d1, q)
             /\ GoOn(Place(m.key, d1, q)) = Place(b, c1, e)
             /\ GoOn(Place(b, c1, e)) = Place(t, c, o)
             /\ Around(t, c, o) = Place(b, c1, back)
             /\ GoOn(Place(b, c1, back)) = Place(m.key, d1, n.edge)
             /\ GoOn(Place(m.key, d1, n.edge)) = Place(n.key, d, p)
             /\ GoOn(Place(n.key, d, p)) = Place(t, c, e)
<1> DEFINE o == SideEdge(e, h)
           b == Beside(t, o)
           n == Neighbor(t, e)
           m == Neighbor(b, e)
           k == h # n.reversed
           p == SideEdge(n.edge, k)
           q == SideEdge(n.edge, ~k)
           back == SideEdge(e, ~h)
<1>1. /\ b \in Tiles /\ m.edge = n.edge /\ (m.reversed <=> n.reversed)
      /\ ~AtBorder(n.key, p) /\ m.key = Beside(n.key, p)
  BY Squares DEF Square
<1>2. /\ n.key \in Tiles /\ n.edge \in Edges /\ n.reversed \in BOOLEAN
      /\ Neighbor(n.key, n.edge).key = t /\ Neighbor(n.key, n.edge).edge = e
      /\ (Neighbor(n.key, n.edge).reversed <=> n.reversed)
      /\ Neighbor(n.key, n.edge).reversed \in BOOLEAN
  BY NeighborReciprocal, NeighborReverses
<1>3. /\ m.key \in Tiles /\ m.edge \in Edges /\ m.reversed \in BOOLEAN
      /\ Neighbor(m.key, m.edge).key = b /\ Neighbor(m.key, m.edge).edge = e
      /\ (Neighbor(m.key, m.edge).reversed <=> m.reversed)
      /\ Neighbor(m.key, m.edge).reversed \in BOOLEAN
  BY <1>1, NeighborReciprocal, NeighborReverses
<1>4. /\ k \in BOOLEAN /\ (~k) \in BOOLEAN /\ (~h) \in BOOLEAN
      /\ (h # n.reversed) = k /\ ((~h) # n.reversed) = ~k
      /\ (k # n.reversed) = h /\ ((~k) # n.reversed) = ~h
      /\ ~~h = h /\ ~~k = k
  BY <1>2, Exchange
<1>5. m.reversed = n.reversed BY <1>1, <1>2, <1>3, Zenon
<1>6. Neighbor(n.key, n.edge).reversed = n.reversed BY <1>2, Zenon
<1>7. Neighbor(m.key, n.edge).reversed = n.reversed BY <1>1, <1>2, <1>3, <1>5, Zenon
<1>8. /\ o \in Edges /\ Opposite(o) = back /\ back \in Edges
      /\ p \in Edges /\ Opposite(p) = q /\ q \in Edges
  BY <1>2, <1>4, SideEdges
<1>9. ~AtBorder(b, back) /\ Beside(b, back) = t BY <1>8, BesideReciprocal
<1>10. ~AtBorder(m.key, q) /\ Beside(m.key, q) = n.key BY <1>1, <1>2, <1>8, BesideReciprocal
\* The steps across the edge, on both ts it has here, and those along it, on
\* both of its sides, each in two directions.
<1> DEFINE c == EdgeCorner(e, h)
           c1 == EdgeCorner(e, ~h)
           d == EdgeCorner(n.edge, k)
           d1 == EdgeCorner(n.edge, ~k)
<1> DEFINE nb == Neighbor(n.key, n.edge)
           mb == Neighbor(m.key, m.edge)
<1> HIDE DEF o, b, n, m, k, p, q, back, c, c1, d, d1, nb, mb
<1>11. Around(t, c, e) = Place(n.key, d, n.edge) BY <1>4, StepAcross, Zenon DEF c, d, n
<1>12. Around(n.key, d, n.edge) = Place(t, c, e)
  <2>1. Around(n.key, d, n.edge) = Place(nb.key, EdgeCorner(nb.edge, k # nb.reversed), nb.edge)
    BY <1>2, <1>4, StepAcross, Zenon DEF d, nb
  <2>2. nb.key = t /\ nb.edge = e /\ (k # nb.reversed) = h BY <1>2, <1>4, <1>6, Zenon DEF nb
  <2> QED BY <2>1, <2>2, Zenon DEF c
<1>13. Around(b, c1, e) = Place(m.key, d1, n.edge)
  <2>1. Around(b, c1, e) = Place(m.key, EdgeCorner(m.edge, (~h) # m.reversed), m.edge)
    BY <1>1, <1>4, StepAcross, Zenon DEF c1, m
  <2>2. ((~h) # m.reversed) = ~k BY <1>4, <1>5, Zenon
  <2> QED BY <1>1, <2>1, <2>2, Zenon DEF d1
<1>14. Around(m.key, d1, n.edge) = Place(b, c1, e)
  <2>1. Around(m.key, EdgeCorner(m.edge, ~k), m.edge)
          = Place(mb.key, EdgeCorner(mb.edge, (~k) # mb.reversed), mb.edge)
    BY <1>3, <1>4, StepAcross, Zenon DEF mb
  <2>2. mb.key = b /\ mb.edge = e /\ ((~k) # mb.reversed) = ~h
    BY <1>1, <1>3, <1>4, <1>7, Zenon DEF mb
  <2> QED BY <1>1, <2>1, <2>2, Zenon DEF c1, d1
<1>15. Around(t, c, o) = Place(b, c1, back) BY <1>4, StepBeside, Zenon DEF c, c1, o, b, back
<1>16. Around(b, c1, back) = Place(t, c, o)
  <2>1. Around(b, c1, back) = Place(Beside(b, back), EdgeCorner(e, ~~h), SideEdge(e, ~~h))
    BY <1>1, <1>4, <1>9, StepBeside, Zenon DEF c1, back
  <2> QED BY <1>4, <1>9, <2>1, Zenon DEF c, o
<1>17. Around(n.key, d, p) = Place(m.key, d1, q)
  <2>1. Around(n.key, d, p) = Place(Beside(n.key, p), d1, q)
    BY <1>1, <1>2, <1>4, StepBeside, ZenonT(60) DEF d, d1, p, q
  <2> QED BY <1>1, <2>1, Zenon
<1>18. Around(m.key, d1, q) = Place(n.key, d, p)
  <2>1. Around(m.key, d1, q) = Place(Beside(m.key, q), EdgeCorner(n.edge, ~~k), SideEdge(n.edge, ~~k))
    BY <1>2, <1>3, <1>4, <1>10, StepBeside, Zenon DEF d1, q
  <2> QED BY <1>4, <1>10, <2>1, Zenon DEF d, p
<1>19. /\ Onward(Place(n.key, d, n.edge)) = p /\ Onward(Place(n.key, d, p)) = n.edge
       /\ Onward(Place(m.key, d1, n.edge)) = q /\ Onward(Place(m.key, d1, q)) = n.edge
       /\ Onward(Place(b, c1, e)) = back /\ Onward(Place(b, c1, back)) = e
  <2>1. /\ Onward(Place(n.key, d, n.edge)) = p /\ Onward(Place(n.key, d, p)) = n.edge
    BY <1>2, <1>4, Turning, ZenonT(60) DEF d, p
  <2>2. /\ Onward(Place(m.key, d1, n.edge)) = q /\ Onward(Place(m.key, d1, q)) = n.edge
    BY <1>2, <1>4, Turning, ZenonT(60) DEF d1, q
  <2>3. /\ Onward(Place(b, c1, e)) = back /\ Onward(Place(b, c1, back)) = e
    BY <1>2, <1>4, Turning, ZenonT(60) DEF c1, back
  <2> QED BY <2>1, <2>2, <2>3
<1>20. \A v, u, w : /\ Place(v, u, w).tile = v /\ Place(v, u, w).corner = u
                    /\ Place(v, u, w).from = w
  BY DEF Place
<1>21. /\ GoOn(Place(n.key, d, n.edge)) = Place(m.key, d1, q)
       /\ GoOn(Place(m.key, d1, q)) = Place(b, c1, e)
       /\ GoOn(Place(b, c1, e)) = Place(t, c, o)
  BY <1>14, <1>16, <1>17, <1>19, <1>20 DEF GoOn
<1>22. /\ GoOn(Place(b, c1, back)) = Place(m.key, d1, n.edge)
       /\ GoOn(Place(m.key, d1, n.edge)) = Place(n.key, d, p)
       /\ GoOn(Place(n.key, d, p)) = Place(t, c, e)
  BY <1>12, <1>13, <1>18, <1>19, <1>20 DEF GoOn
<1> QED BY <1>11, <1>15, <1>21, <1>22, Zenon DEF o, b, n, m, k, p, q, back, c, c1, d, d1

LEMMA FourPlaces ==
  ASSUME tile \in Tiles, NEW e \in Edges, NEW h \in BOOLEAN, corner = EdgeCorner(e, h),
         ~AtBorder(tile, SideEdge(e, h))
  PROVE  LET o == SideEdge(e, h)
             b == Beside(tile, o)
             n == Neighbor(tile, e)
             m == Neighbor(b, e)
             c == EdgeCorner(n.edge, ~(h # n.reversed))
         IN  /\ Ring(e)[0].tile = n.key
             /\ Ring(e)[1].tile = m.key /\ Ring(e)[1].corner = c
             /\ Ring(e)[2].tile = b
             /\ Ring(e)[3].tile = tile /\ Ring(e)[3].corner = corner
             /\ Ring(o)[0].tile = b
             /\ Ring(o)[1].tile = m.key /\ Ring(o)[1].corner = c
             /\ Ring(o)[2].tile = n.key
             /\ Ring(o)[3].tile = tile /\ Ring(o)[3].corner = corner
<1> DEFINE o == SideEdge(e, h)
           b == Beside(tile, o)
           n == Neighbor(tile, e)
           m == Neighbor(b, e)
           k == h # n.reversed
           c == EdgeCorner(e, h)
           c1 == EdgeCorner(e, ~h)
           d == EdgeCorner(n.edge, k)
           d1 == EdgeCorner(n.edge, ~k)
           p == SideEdge(n.edge, k)
           q == SideEdge(n.edge, ~k)
           back == SideEdge(e, ~h)
<1>1. /\ Around(tile, c, e) = Place(n.key, d, n.edge)
      /\ GoOn(Place(n.key, d, n.edge)) = Place(m.key, d1, q)
      /\ GoOn(Place(m.key, d1, q)) = Place(b, c1, e)
      /\ GoOn(Place(b, c1, e)) = Place(tile, c, o)
      /\ Around(tile, c, o) = Place(b, c1, back)
      /\ GoOn(Place(b, c1, back)) = Place(m.key, d1, n.edge)
      /\ GoOn(Place(m.key, d1, n.edge)) = Place(n.key, d, p)
      /\ GoOn(Place(n.key, d, p)) = Place(tile, c, e)
  BY FourSteps, Zenon
<1> HIDE DEF o, b, n, m, k, p, q, back, c, c1, d, d1
<1>2. /\ Ring(e)[0] = Place(n.key, d, n.edge) /\ Ring(e)[1] = Place(m.key, d1, q)
      /\ Ring(e)[2] = Place(b, c1, e) /\ Ring(e)[3] = Place(tile, c, o)
  BY <1>1, RingUnfolds DEF c
<1>3. /\ Ring(o)[0] = Place(b, c1, back) /\ Ring(o)[1] = Place(m.key, d1, n.edge)
      /\ Ring(o)[2] = Place(n.key, d, p) /\ Ring(o)[3] = Place(tile, c, e)
  BY <1>1, RingUnfolds DEF c
<1>4. \A t, u, v : Place(t, u, v).tile = t /\ Place(t, u, v).corner = u BY DEF Place
<1>5. /\ Ring(e)[0].tile = n.key
      /\ Ring(e)[1].tile = m.key /\ Ring(e)[1].corner = d1
      /\ Ring(e)[2].tile = b
      /\ Ring(e)[3].tile = tile /\ Ring(e)[3].corner = corner
      /\ Ring(o)[0].tile = b
      /\ Ring(o)[1].tile = m.key /\ Ring(o)[1].corner = d1
      /\ Ring(o)[2].tile = n.key
      /\ Ring(o)[3].tile = tile /\ Ring(o)[3].corner = corner
  BY <1>2, <1>3, <1>4 DEF c
<1> QED BY <1>5 DEF o, b, n, m, k, d1

LEMMA FourDistinct ==
  ASSUME NEW f, f[0].tile # f[1].tile, f[0].tile # f[2].tile, f[0].tile # f[3].tile, f[1].tile # f[2].tile, f[1].tile # f[3].tile, f[2].tile # f[3].tile
  PROVE  Cardinality({f[i].tile : i \in 0 .. 3}) = 4
<1>1. {f[i].tile : i \in 0 .. 3} = {f[0].tile, f[1].tile, f[2].tile} \cup {f[3].tile}
  <2>1. \A i : i \in 0 .. 3 <=> i = 0 \/ i = 1 \/ i = 2 \/ i = 3 OBVIOUS
  <2> QED BY <2>1
<1>2. IsFiniteSet({f[0].tile}) /\ Cardinality({f[0].tile}) = 1 BY FS_Singleton
<1>3. {f[0].tile, f[1].tile} = {f[0].tile} \cup {f[1].tile} /\ f[1].tile \notin {f[0].tile} OBVIOUS
<1>4. IsFiniteSet({f[0].tile, f[1].tile}) /\ Cardinality({f[0].tile, f[1].tile}) = 2 BY <1>2, <1>3, FS_AddElement
<1>5. {f[0].tile, f[1].tile, f[2].tile} = {f[0].tile, f[1].tile} \cup {f[2].tile} /\ f[2].tile \notin {f[0].tile, f[1].tile} OBVIOUS
<1>6. /\ IsFiniteSet({f[0].tile, f[1].tile} \cup {f[2].tile})
      /\ Cardinality({f[0].tile, f[1].tile} \cup {f[2].tile}) = 2 + 1
  BY <1>4, <1>5, FS_AddElement
<1>7. f[3].tile \notin {f[0].tile, f[1].tile, f[2].tile} OBVIOUS
<1>8. Cardinality({f[0].tile, f[1].tile, f[2].tile} \cup {f[3].tile}) = 3 + 1 BY <1>5, <1>6, <1>7, FS_AddElement
<1> QED BY <1>1, <1>8

LEMMA ThreeDistinct ==
  ASSUME NEW f, f[0].tile # f[1].tile, f[0].tile # f[2].tile, f[1].tile # f[2].tile
  PROVE  Cardinality({f[i].tile : i \in 0 .. 2}) = 3
<1>1. {f[i].tile : i \in 0 .. 2} = {f[0].tile, f[1].tile} \cup {f[2].tile}
  <2>1. \A i : i \in 0 .. 2 <=> i = 0 \/ i = 1 \/ i = 2 OBVIOUS
  <2> QED BY <2>1
<1>2. IsFiniteSet({f[0].tile}) /\ Cardinality({f[0].tile}) = 1 BY FS_Singleton
<1>3. {f[0].tile, f[1].tile} = {f[0].tile} \cup {f[1].tile} /\ f[1].tile \notin {f[0].tile} OBVIOUS
<1>4. IsFiniteSet({f[0].tile, f[1].tile}) /\ Cardinality({f[0].tile, f[1].tile}) = 2 BY <1>2, <1>3, FS_AddElement
<1>5. f[2].tile \notin {f[0].tile, f[1].tile} OBVIOUS
<1>6. Cardinality({f[0].tile, f[1].tile} \cup {f[2].tile}) = 2 + 1 BY <1>4, <1>5, FS_AddElement
<1> QED BY <1>1, <1>6

\* Beyond different edges lie different faces.
LEMMA ConnectionsDiffer ==
  ASSUME NEW f \in Faces, NEW e \in Edges, NEW d \in Edges,
         Connection(f)[e].face = Connection(f)[d].face
  PROVE  e = d
BY BeyondTable DEF Edges, Faces

\* The third face at an end of an edge is the same seen from both sides of it.
LEMMA ThirdFace ==
  ASSUME NEW f \in Faces, NEW e \in Edges, NEW h \in BOOLEAN
  PROVE  LET c == Connection(f)[e]
         IN  Connection(c.face)[SideEdge(c.edge, h # c.reversed)].face = Connection(f)[SideEdge(e, h)].face
<1> DEFINE c == Connection(f)[e]
           high == SideEdge(c.edge, TRUE)
           low == SideEdge(c.edge, FALSE)
<1>1. <<f, e>> \in ReversedEdges =>
        /\ Connection(c.face)[low].face = Connection(f)[SideEdge(e, TRUE)].face
        /\ Connection(c.face)[high].face = Connection(f)[SideEdge(e, FALSE)].face
  <2>1. CASE f = 0 BY <2>1, BeyondTable DEF Edges, ReversedEdges, SideEdge, Vertical
  <2>2. CASE f = 1 BY <2>2, BeyondTable DEF Edges, ReversedEdges, SideEdge, Vertical
  <2>3. CASE f = 2 BY <2>3, BeyondTable DEF Edges, ReversedEdges, SideEdge, Vertical
  <2>4. CASE f = 3 BY <2>4, BeyondTable DEF Edges, ReversedEdges, SideEdge, Vertical
  <2>5. CASE f = 4 BY <2>5, BeyondTable DEF Edges, ReversedEdges, SideEdge, Vertical
  <2>6. CASE f = 5 BY <2>6, BeyondTable DEF Edges, ReversedEdges, SideEdge, Vertical
  <2>7. f = 0 \/ f = 1 \/ f = 2 \/ f = 3 \/ f = 4 \/ f = 5 BY DEF Faces
  <2> HIDE DEF c, high, low
  <2> QED BY ZenonT(30), <2>1, <2>2, <2>3, <2>4, <2>5, <2>6, <2>7
<1>2. <<f, e>> \notin ReversedEdges =>
        /\ Connection(c.face)[high].face = Connection(f)[SideEdge(e, TRUE)].face
        /\ Connection(c.face)[low].face = Connection(f)[SideEdge(e, FALSE)].face
  <2>1. CASE f = 0 BY <2>1, BeyondTable DEF Edges, ReversedEdges, SideEdge, Vertical
  <2>2. CASE f = 1 BY <2>2, BeyondTable DEF Edges, ReversedEdges, SideEdge, Vertical
  <2>3. CASE f = 2 BY <2>3, BeyondTable DEF Edges, ReversedEdges, SideEdge, Vertical
  <2>4. CASE f = 3 BY <2>4, BeyondTable DEF Edges, ReversedEdges, SideEdge, Vertical
  <2>5. CASE f = 4 BY <2>5, BeyondTable DEF Edges, ReversedEdges, SideEdge, Vertical
  <2>6. CASE f = 5 BY <2>6, BeyondTable DEF Edges, ReversedEdges, SideEdge, Vertical
  <2>7. f = 0 \/ f = 1 \/ f = 2 \/ f = 3 \/ f = 4 \/ f = 5 BY DEF Faces
  <2> HIDE DEF c, high, low
  <2> QED BY ZenonT(30), <2>1, <2>2, <2>3, <2>4, <2>5, <2>6, <2>7
<1>3. c.reversed <=> <<f, e>> \in ReversedEdges
  BY ReversedTable DEF Edges, Faces, ReversedEdges
<1>4. c.reversed \in BOOLEAN BY ConnectionReverses
<1> HIDE DEF c
<1>5. CASE h
  <2>1. h = TRUE BY <1>5
  <2>2. CASE c.reversed
    <3>1. (h # c.reversed) = FALSE BY <1>4, <2>1, <2>2, Zenon
    <3> QED BY <1>1, <1>3, <2>1, <2>2, <3>1 DEF c
  <2>3. CASE ~c.reversed
    <3>1. (h # c.reversed) = TRUE BY <1>4, <2>1, <2>3, Zenon
    <3> QED BY <1>2, <1>3, <2>1, <2>3, <3>1 DEF c
  <2> QED BY <2>2, <2>3
<1>6. CASE ~h
  <2>1. h = FALSE BY <1>6
  <2>2. CASE c.reversed
    <3>1. (h # c.reversed) = TRUE BY <1>4, <2>1, <2>2, Zenon
    <3> QED BY <1>1, <1>3, <2>1, <2>2, <3>1 DEF c
  <2>3. CASE ~c.reversed
    <3>1. (h # c.reversed) = FALSE BY <1>4, <2>1, <2>3, Zenon
    <3> QED BY <1>2, <1>3, <2>1, <2>3, <3>1 DEF c
  <2> QED BY <2>2, <2>3
<1> QED BY <1>5, <1>6

\* The end of its side edges that an edge lies at.
High(e) == e \in {"east", "north"}

LEMMA SideEdgesDiffer ==
  ASSUME NEW e, NEW a \in BOOLEAN, NEW b \in BOOLEAN, SideEdge(e, a) = SideEdge(e, b)
  PROVE  a = b
BY DEF SideEdge

LEMMA EndInRange ==
  ASSUME NEW h \in BOOLEAN
  PROVE  End(h) \in 0 .. Side - 1
BY SidePositive DEF End

LEMMA CubeTurn ==
  ASSUME NEW f \in Faces, NEW e \in Edges, NEW h \in BOOLEAN
  PROVE  LET o == SideEdge(e, h)
         IN  /\ o \in Edges /\ High(e) \in BOOLEAN
             /\ SideEdge(o, High(e)) = e /\ EdgeCorner(o, High(e)) = EdgeCorner(e, h)
             /\ AtEdge(f, o, End(High(e))) = AtEdge(f, e, End(h))
<1>1. SideEdge(e, h) \in Edges /\ High(e) \in BOOLEAN BY SideEdges DEF High
<1>2. CASE High(e)
  <2>1. High(e) = TRUE BY <1>2 DEF High
  <2>2. CASE h = TRUE BY <1>2, <2>1, <2>2 DEF High, Edges, SideEdge, EdgeCorner, AtEdge, End, Vertical
  <2>3. CASE h = FALSE BY <1>2, <2>1, <2>3 DEF High, Edges, SideEdge, EdgeCorner, AtEdge, End, Vertical
  <2> QED BY <1>1, <2>2, <2>3
<1>3. CASE ~High(e)
  <2>1. High(e) = FALSE BY <1>3 DEF High
  <2>2. CASE h = TRUE BY <1>3, <2>1, <2>2 DEF High, Edges, SideEdge, EdgeCorner, AtEdge, End, Vertical
  <2>3. CASE h = FALSE BY <1>3, <2>1, <2>3 DEF High, Edges, SideEdge, EdgeCorner, AtEdge, End, Vertical
  <2> QED BY <1>1, <2>2, <2>3
<1> QED BY <1>2, <1>3

LEMMA CubeStep ==
  ASSUME NEW f \in Faces, NEW e \in Edges, NEW h \in BOOLEAN
  PROVE  LET c == Connection(f)[e]
             k == h # c.reversed
         IN  /\ c.face \in Faces /\ c.edge \in Edges /\ k \in BOOLEAN
             /\ Around(AtEdge(f, e, End(h)), EdgeCorner(e, h), e)
                  = Place(AtEdge(c.face, c.edge, End(k)), EdgeCorner(c.edge, k), c.edge)
<1> DEFINE c == Connection(f)[e]
           k == h # c.reversed
           t == AtEdge(f, e, End(h))
           n == Neighbor(t, e)
<1>1. c.face \in Faces /\ c.edge \in Edges /\ c.reversed \in BOOLEAN
  BY ConnectionType, ConnectionReverses
<1>2. k \in BOOLEAN BY <1>1, Exchange
<1>3. t \in Tiles /\ t.face = f /\ AtBorder(t, e) BY EndInRange, AtEdgeType
<1>4. n.key = Across(t, e) /\ n.edge = c.edge /\ n.reversed = c.reversed BY <1>3 DEF Neighbor
<1>5. n.key = AtEdge(c.face, c.edge, Mirror(c.reversed, End(h))) BY <1>4, EndInRange, AtEdgeAcross
<1> HIDE DEF c, t, n
<1>6. Mirror(c.reversed, End(h)) = End(k) BY <1>1, EndInRange, MirrorEnds
<1>7. Around(t, EdgeCorner(e, h), e) = Place(n.key, EdgeCorner(n.edge, h # n.reversed), n.edge)
  BY <1>3, StepAcross DEF n
<1>8. (h # n.reversed) = k BY <1>4, Zenon
<1> HIDE DEF k
<1>9. Around(t, EdgeCorner(e, h), e)
        = Place(AtEdge(c.face, c.edge, End(k)), EdgeCorner(c.edge, k), c.edge)
  BY <1>4, <1>5, <1>6, <1>7, <1>8, Zenon
<1> QED BY <1>1, <1>2, <1>9 DEF c, t, k

\* A step across an edge of the cube at its corner, and the turn that follows.
CubePlace(f, e, h) == Place(AtEdge(f, e, End(h)), EdgeCorner(e, h), e)

LEMMA CubeGoOn ==
  ASSUME NEW f \in Faces, NEW e \in Edges, NEW h \in BOOLEAN
  PROVE  LET o == SideEdge(e, h)
             c == Connection(f)[o]
             k == High(e) # c.reversed
         IN  /\ c.face \in Faces /\ c.edge \in Edges /\ k \in BOOLEAN
             /\ GoOn(CubePlace(f, e, h)) = CubePlace(c.face, c.edge, k)
             /\ Connection(c.face)[SideEdge(c.edge, k)].face = Connection(f)[e].face
<1> DEFINE o == SideEdge(e, h)
           c == Connection(f)[o]
           k == High(e) # c.reversed
           s == CubePlace(f, e, h)
<1>1. /\ o \in Edges /\ High(e) \in BOOLEAN
      /\ SideEdge(o, High(e)) = e /\ EdgeCorner(o, High(e)) = EdgeCorner(e, h)
      /\ AtEdge(f, o, End(High(e))) = AtEdge(f, e, End(h))
  BY CubeTurn
<1>2. s.tile = AtEdge(f, e, End(h)) /\ s.corner = EdgeCorner(e, h) BY DEF CubePlace, Place
<1>3. Onward(s) = o BY Turning DEF CubePlace
<1> HIDE DEF s, o
<1>4. /\ c.face \in Faces /\ c.edge \in Edges /\ k \in BOOLEAN
      /\ Around(AtEdge(f, o, End(High(e))), EdgeCorner(o, High(e)), o)
           = Place(AtEdge(c.face, c.edge, End(k)), EdgeCorner(c.edge, k), c.edge)
  BY <1>1, CubeStep, Zenon
<1>5. Connection(c.face)[SideEdge(c.edge, k)].face = Connection(f)[SideEdge(o, High(e))].face
  BY <1>1, ThirdFace, Zenon
<1> HIDE DEF c, k
<1>6. GoOn(s) = CubePlace(c.face, c.edge, k) BY <1>1, <1>2, <1>3, <1>4, Zenon DEF GoOn, CubePlace
<1>7. Connection(c.face)[SideEdge(c.edge, k)].face = Connection(f)[e].face BY <1>1, <1>5
<1> QED BY <1>4, <1>6, <1>7, Zenon DEF c, k, s, o

\* The places of a ring of three tiles.
LEMMA ThreeSteps ==
  ASSUME NEW t \in Tiles, NEW e \in Edges, NEW h \in BOOLEAN,
         AtBorder(t, e), AtBorder(t, SideEdge(e, h))
  PROVE  LET f  == t.face
             o  == SideEdge(e, h)
             c  == Connection(f)[e]
             k  == h # c.reversed
             c1 == Connection(c.face)[SideEdge(c.edge, k)]
             k1 == High(c.edge) # c1.reversed
         IN  /\ t = AtEdge(f, e, End(h))
             /\ Around(t, EdgeCorner(e, h), e) = CubePlace(c.face, c.edge, k)
             /\ GoOn(CubePlace(c.face, c.edge, k)) = CubePlace(c1.face, c1.edge, k1)
             /\ GoOn(CubePlace(c1.face, c1.edge, k1)) = Place(t, EdgeCorner(e, h), o)
             /\ c1.face = Connection(f)[o].face
<1> DEFINE f  == t.face
           o  == SideEdge(e, h)
           c  == Connection(f)[e]
           k  == h # c.reversed
           c1 == Connection(c.face)[SideEdge(c.edge, k)]
           k1 == High(c.edge) # c1.reversed
           c2 == Connection(c1.face)[SideEdge(c1.edge, k1)]
           k2 == High(c1.edge) # c2.reversed
<1>1. f \in Faces BY DEF Tiles
<1>2. t = AtEdge(f, e, End(h))
  <2>1. Along(t, e) \in 0 .. Side - 1 /\ t = AtEdge(f, e, Along(t, e)) BY AtEdgeOf
  <2>2. Along(t, e) = End(h) BY <1>1, <2>1, AtEdgeBeside
  <2> QED BY <2>1, <2>2
<1> HIDE DEF f
<1>3. c.face \in Faces /\ c.edge \in Edges /\ k \in BOOLEAN
  BY <1>1, CubeStep
<1>4. Around(t, EdgeCorner(e, h), e) = CubePlace(c.face, c.edge, k)
  <2>1. Around(AtEdge(f, e, End(h)), EdgeCorner(e, h), e)
          = Place(AtEdge(c.face, c.edge, End(k)), EdgeCorner(c.edge, k), c.edge)
    BY <1>1, CubeStep, Zenon
  <2> QED BY <1>2, <2>1, Zenon DEF CubePlace
<1>5. c1.face = Connection(f)[o].face /\ Connection(c.face)[c.edge].face = f
  <2>1. c1.face = Connection(f)[o].face BY <1>1, ThirdFace, Zenon
  <2>2. Connection(c.face)[c.edge].face = f BY <1>1, ConnectionReciprocal
  <2> QED BY <2>1, <2>2
<1> HIDE DEF c, k
<1>6. /\ c1.face \in Faces /\ c1.edge \in Edges /\ k1 \in BOOLEAN
      /\ GoOn(CubePlace(c.face, c.edge, k)) = CubePlace(c1.face, c1.edge, k1)
      /\ Connection(c1.face)[SideEdge(c1.edge, k1)].face = Connection(c.face)[c.edge].face
  BY <1>3, CubeGoOn, Zenon
<1>7. c2.face = f BY <1>5, <1>6
<1>8. SideEdge(c.edge, k) \in Edges BY <1>3, SideEdges
<1>9. Connection(c1.face)[c1.edge].face = c.face BY <1>3, <1>8, ConnectionReciprocal
<1> HIDE DEF c1, k1
<1>10. /\ c2.face \in Faces /\ c2.edge \in Edges /\ k2 \in BOOLEAN
       /\ GoOn(CubePlace(c1.face, c1.edge, k1)) = CubePlace(c2.face, c2.edge, k2)
       /\ Connection(c2.face)[SideEdge(c2.edge, k2)].face = Connection(c1.face)[c1.edge].face
  BY <1>6, CubeGoOn, Zenon
<1>11. SideEdge(c1.edge, k1) \in Edges BY <1>6, SideEdges
<1>12. Connection(c2.face)[c2.edge].face = c1.face BY <1>6, <1>11, ConnectionReciprocal
<1> HIDE DEF c2, k2
<1>13. o \in Edges BY SideEdges
<1>14. c2.edge = o
  <2>1. Connection(f)[c2.edge].face = Connection(f)[o].face BY <1>5, <1>7, <1>12
  <2> QED BY <1>1, <1>10, <1>13, <2>1, ConnectionsDiffer
<1>15. SideEdge(o, k2) = e
  <2>1. Connection(f)[SideEdge(o, k2)].face = Connection(f)[e].face
    BY <1>7, <1>9, <1>10, <1>14 DEF c
  <2>2. SideEdge(o, k2) \in Edges BY <1>10, <1>13, SideEdges
  <2> QED BY <1>1, <2>1, <2>2, ConnectionsDiffer
<1>16. k2 = High(e)
  <2>1. SideEdge(o, High(e)) = e /\ High(e) \in BOOLEAN BY <1>1, CubeTurn
  <2>2. SideEdge(o, k2) = SideEdge(o, High(e)) BY <1>15, <2>1
  <2> QED BY <1>10, <2>1, <2>2, SideEdgesDiffer
<1>17. CubePlace(c2.face, c2.edge, k2) = Place(t, EdgeCorner(e, h), o)
  <2>1. /\ EdgeCorner(o, High(e)) = EdgeCorner(e, h)
        /\ AtEdge(f, o, End(High(e))) = AtEdge(f, e, End(h))
    BY <1>1, CubeTurn
  <2> QED BY <1>2, <1>7, <1>14, <1>16, <2>1 DEF CubePlace
<1>18. GoOn(CubePlace(c1.face, c1.edge, k1)) = Place(t, EdgeCorner(e, h), o) BY <1>10, <1>17, Zenon
<1> QED BY <1>2, <1>4, <1>5, <1>6, <1>18, Zenon DEF f, o, c, k, c1, k1

LEMMA ThreePlaces ==
  ASSUME tile \in Tiles, NEW e \in Edges, NEW h \in BOOLEAN, corner = EdgeCorner(e, h),
         AtBorder(tile, e), AtBorder(tile, SideEdge(e, h))
  PROVE  LET f  == tile.face
             c  == Connection(f)[e]
             k  == h # c.reversed
             c1 == Connection(c.face)[SideEdge(c.edge, k)]
             k1 == High(c.edge) # c1.reversed
         IN  /\ tile = AtEdge(f, e, End(h))
             /\ Ring(e)[0] = CubePlace(c.face, c.edge, k)
             /\ Ring(e)[1] = CubePlace(c1.face, c1.edge, k1)
             /\ Ring(e)[0].tile.face = c.face
             /\ Ring(e)[1].tile.face = Connection(f)[SideEdge(e, h)].face
             /\ Ring(e)[2].tile = tile /\ Ring(e)[2].corner = corner
<1> DEFINE f  == tile.face
           o  == SideEdge(e, h)
           c  == Connection(f)[e]
           k  == h # c.reversed
           c1 == Connection(c.face)[SideEdge(c.edge, k)]
           k1 == High(c.edge) # c1.reversed
<1>1. /\ tile = AtEdge(f, e, End(h))
      /\ Around(tile, EdgeCorner(e, h), e) = CubePlace(c.face, c.edge, k)
      /\ GoOn(CubePlace(c.face, c.edge, k)) = CubePlace(c1.face, c1.edge, k1)
      /\ GoOn(CubePlace(c1.face, c1.edge, k1)) = Place(tile, EdgeCorner(e, h), o)
      /\ c1.face = Connection(f)[o].face
  BY ThreeSteps, ZenonT(60)
<1> HIDE DEF f, o, c, k, c1, k1
<1>2. /\ Ring(e)[0] = CubePlace(c.face, c.edge, k)
      /\ Ring(e)[1] = CubePlace(c1.face, c1.edge, k1)
      /\ Ring(e)[2] = Place(tile, corner, o)
  BY <1>1, RingUnfolds
<1>3. \A g, d, b : CubePlace(g, d, b).tile.face = g BY DEF CubePlace, Place, AtEdge
<1>4. Place(tile, corner, o).tile = tile /\ Place(tile, corner, o).corner = corner BY DEF Place
<1>5. /\ Ring(e)[0].tile.face = c.face /\ Ring(e)[1].tile.face = Connection(f)[o].face
      /\ Ring(e)[2].tile = tile /\ Ring(e)[2].corner = corner
  BY <1>1, <1>2, <1>3, <1>4
<1> QED BY <1>1, <1>2, <1>5, Zenon DEF f, o, c, k, c1, k1

LEMMA RingOnTiles ==
  ASSUME tile \in Tiles, NEW e \in Edges, NEW h \in BOOLEAN, corner = EdgeCorner(e, h),
         AtBorder(tile, e), AtBorder(tile, SideEdge(e, h))
  PROVE  Ring(e)[0].tile \in Tiles /\ Ring(e)[1].tile \in Tiles
<1>1. \A g \in Faces, d \in Edges, b \in BOOLEAN : CubePlace(g, d, b).tile \in Tiles
  <2> TAKE g \in Faces, d \in Edges, b \in BOOLEAN
  <2>1. AtEdge(g, d, End(b)) \in Tiles BY EndInRange, AtEdgeType
  <2> QED BY <2>1 DEF CubePlace, Place
<1> DEFINE f  == tile.face
           c  == Connection(f)[e]
           k  == h # c.reversed
           c1 == Connection(c.face)[SideEdge(c.edge, k)]
           k1 == High(c.edge) # c1.reversed
<1>2. f \in Faces BY DEF Tiles
<1>3. c.face \in Faces /\ c.edge \in Edges /\ k \in BOOLEAN BY <1>2, CubeStep, Zenon
<1>4. Ring(e)[0] = CubePlace(c.face, c.edge, k) /\ Ring(e)[1] = CubePlace(c1.face, c1.edge, k1)
  BY ThreePlaces, Zenon
<1> HIDE DEF c, k
<1>5. c1.face \in Faces /\ c1.edge \in Edges /\ k1 \in BOOLEAN BY <1>3, CubeGoOn, Zenon
<1> QED BY <1>1, <1>3, <1>4, <1>5, Zenon

\* A corner as the end of an edge, and of the other edge there.
LEMMA CornerAsEnd ==
  ASSUME NEW c \in Corners
  PROVE  \E e \in Edges, h \in BOOLEAN :
           /\ Vertical(e) /\ ~Vertical(SideEdge(e, h)) /\ SideEdge(e, h) \in Edges /\ High(e) \in BOOLEAN
           /\ c = EdgeCorner(e, h) /\ c = EdgeCorner(SideEdge(e, h), High(e))
           /\ SideEdge(SideEdge(e, h), High(e)) = e
           /\ EdgesAt(c) = {e, SideEdge(e, h)} /\ SideEdge(e, h) # e
<1>1. PICK e \in Edges, h \in BOOLEAN : Vertical(e) /\ c = EdgeCorner(e, h) BY CornerEnds
<1>2. ~Vertical(SideEdge(e, h)) BY <1>1, CornerEnds
<1>3. 0 \in Faces BY DEF Faces
<1>4. /\ SideEdge(e, h) \in Edges /\ High(e) \in BOOLEAN
      /\ SideEdge(SideEdge(e, h), High(e)) = e /\ EdgeCorner(SideEdge(e, h), High(e)) = EdgeCorner(e, h)
  BY <1>3, CubeTurn, Zenon
<1>5. EdgesAt(c) = {e, SideEdge(e, h)} /\ SideEdge(e, h) # e BY <1>1, SideEdges, Zenon
<1> QED BY <1>1, <1>2, <1>4, <1>5, Zenon

Closes(edge, n) ==
  /\ Ring(edge)[n - 1].tile = tile /\ Ring(edge)[n - 1].corner = corner
  /\ Cardinality({Ring(edge)[i].tile : i \in 0 .. n - 1}) = n

LEMMA FourClose ==
  ASSUME tile \in Tiles, NEW e \in Edges, NEW h \in BOOLEAN, corner = EdgeCorner(e, h),
         ~AtBorder(tile, SideEdge(e, h))
  PROVE  Closes(e, 4) /\ Closes(SideEdge(e, h), 4)
<1> DEFINE o == SideEdge(e, h)
           b == Beside(tile, o)
           n == Neighbor(tile, e)
           m == Neighbor(b, e)
<1>1. /\ Ring(e)[0].tile = n.key /\ Ring(e)[1].tile = m.key /\ Ring(e)[2].tile = b
      /\ Ring(e)[3].tile = tile /\ Ring(e)[3].corner = corner
      /\ Ring(o)[0].tile = b /\ Ring(o)[1].tile = m.key /\ Ring(o)[2].tile = n.key
      /\ Ring(o)[3].tile = tile /\ Ring(o)[3].corner = corner
  BY FourPlaces, Zenon
<1>2. b \in Tiles /\ b # tile /\ m.key # n.key /\ n.key # b /\ m.key # tile
  <2>1. Square(tile, e, h) BY Squares
  <2> QED BY <2>1 DEF Square
<1>3. o \in Edges BY SideEdges
<1>4. n.key # tile /\ m.key # b BY <1>2, NeighborReciprocal, Zenon
<1> HIDE DEF b, n, m, o
<1>5. /\ Cardinality({Ring(e)[i].tile : i \in 0 .. 3}) = 4
      /\ Cardinality({Ring(o)[i].tile : i \in 0 .. 3}) = 4
  BY <1>1, <1>2, <1>4, FourDistinct
<1>6. 4 - 1 = 3 OBVIOUS
<1> QED BY <1>1, <1>5, <1>6, Zenon DEF Closes, o

LEMMA ThreeClose ==
  ASSUME tile \in Tiles, NEW e \in Edges, NEW h \in BOOLEAN, corner = EdgeCorner(e, h),
         AtBorder(tile, e), AtBorder(tile, SideEdge(e, h))
  PROVE  Closes(e, 3)
<1> DEFINE f == tile.face
           o == SideEdge(e, h)
<1>1. /\ Ring(e)[0].tile.face = Connection(f)[e].face
      /\ Ring(e)[1].tile.face = Connection(f)[o].face
      /\ Ring(e)[2].tile = tile /\ Ring(e)[2].corner = corner
  BY ThreePlaces, Zenon
<1>2. f \in Faces /\ o \in Edges /\ o # e BY SideEdges DEF Tiles
<1>3. /\ Connection(f)[e].face # f /\ Connection(f)[o].face # f
      /\ Connection(f)[e].face # Connection(f)[o].face
  BY <1>2, ConnectionType, ConnectionsDiffer
<1>4. /\ Ring(e)[0].tile # Ring(e)[1].tile /\ Ring(e)[0].tile # Ring(e)[2].tile
      /\ Ring(e)[1].tile # Ring(e)[2].tile
  BY <1>1, <1>3
<1>5. Cardinality({Ring(e)[i].tile : i \in 0 .. 2}) = 3 BY <1>4, ThreeDistinct
<1>6. 3 - 1 = 2 OBVIOUS
<1> QED BY <1>1, <1>5, <1>6, Zenon DEF Closes

LEMMA CloseAnywhere == Standing => CornersClose
<1> SUFFICES ASSUME Standing PROVE CornersClose
  OBVIOUS
<1>1. tile \in Tiles /\ corner \in Corners BY DEF Standing
<1>2. PICK e \in Edges, h \in BOOLEAN :
        /\ SideEdge(e, h) \in Edges /\ High(e) \in BOOLEAN
        /\ corner = EdgeCorner(e, h) /\ corner = EdgeCorner(SideEdge(e, h), High(e))
        /\ SideEdge(SideEdge(e, h), High(e)) = e
        /\ EdgesAt(corner) = {e, SideEdge(e, h)}
  BY <1>1, CornerAsEnd, Zenon
<1> DEFINE o == SideEdge(e, h)
           n == IF AtCubeCorner THEN 3 ELSE 4
<1>3. (AtCubeCorner => n = 3) /\ (~AtCubeCorner => n = 4) OBVIOUS
<1> HIDE DEF o, n
<1> SUFFICES Closes(e, n) /\ Closes(o, n)
  <2>1. ASSUME Closes(e, n) /\ Closes(o, n) PROVE \A edge \in EdgesAt(corner) : Closes(edge, n)
    BY <1>2, <2>1, Zenon DEF o
  <2> QED BY <2>1, Zenon DEF CornersClose, Closes, n
<1>4. AtCubeCorner <=> AtBorder(tile, e) /\ AtBorder(tile, o) BY <1>2 DEF AtCubeCorner, o
<1>5. CASE AtBorder(tile, e) /\ AtBorder(tile, o)
  <2>1. Closes(e, 3) BY <1>1, <1>2, <1>5, ThreeClose, Zenon DEF o
  <2>2. Closes(o, 3) BY <1>1, <1>2, <1>5, ThreeClose, Zenon DEF o
  <2> QED BY <1>3, <1>4, <1>5, <2>1, <2>2, Zenon
<1>6. CASE ~AtBorder(tile, o)
  <2>1. Closes(e, 4) /\ Closes(o, 4) BY <1>1, <1>2, <1>6, FourClose, Zenon DEF o
  <2> QED BY <1>3, <1>4, <1>6, <2>1, Zenon
<1>7. CASE ~AtBorder(tile, e)
  <2>1. Closes(o, 4) /\ Closes(e, 4) BY <1>1, <1>2, <1>7, FourClose, Zenon DEF o
  <2> QED BY <1>3, <1>4, <1>7, <2>1, Zenon
<1> QED BY <1>5, <1>6, <1>7

-----------------------------------------------------------------------------
(* The order of keys *)

Square2(n) == (0 .. n) \X (0 .. n)

Digits(x, y) == (x % 2) + 2 * (y % 2)

Interleaving(n) ==
  {g \in [Square2(n) -> Nat] :
     \A x, y \in 0 .. n :
       g[<<x, y>>] = IF <<x, y>> = <<0, 0>> THEN 0 ELSE Digits(x, y) + 4 * g[<<x \div 2, y \div 2>>]}

LEMMA HalfRange ==
  ASSUME NEW n \in Nat, NEW x \in 0 .. n + 1
  PROVE  x \div 2 \in 0 .. n
OBVIOUS

LEMMA DigitsRange ==
  ASSUME NEW x \in Nat, NEW y \in Nat
  PROVE  Digits(x, y) \in 0 .. 3
BY DEF Digits

LEMMA InterleavingExists == \A n \in Nat : Interleaving(n) # {}
<1> DEFINE S == {n \in Nat : Interleaving(n) # {}}
<1>1. 0 \in S
  <2> DEFINE g == [p \in Square2(0) |-> 0]
  <2>1. g \in [Square2(0) -> Nat] OBVIOUS
  <2>2. ASSUME NEW x \in 0 .. 0, NEW y \in 0 .. 0 PROVE <<x, y>> = <<0, 0>> /\ g[<<x, y>>] = 0
    BY DEF Square2
  <2> HIDE DEF g
  <2>3. g \in Interleaving(0) BY <2>1, <2>2 DEF Interleaving
  <2> QED BY <2>3
<1>2. ASSUME NEW n \in S PROVE n + 1 \in S
  <2>1. PICK g \in [Square2(n) -> Nat] :
          \A x, y \in 0 .. n :
            g[<<x, y>>] = IF <<x, y>> = <<0, 0>> THEN 0 ELSE Digits(x, y) + 4 * g[<<x \div 2, y \div 2>>]
    BY DEF Interleaving
  <2> DEFINE h == [p \in Square2(n + 1) |->
                     IF p = <<0, 0>> THEN 0 ELSE Digits(p[1], p[2]) + 4 * g[<<p[1] \div 2, p[2] \div 2>>]]
  <2>2. ASSUME NEW x \in 0 .. n + 1, NEW y \in 0 .. n + 1
        PROVE  /\ h[<<x, y>>] = IF <<x, y>> = <<0, 0>> THEN 0 ELSE Digits(x, y) + 4 * g[<<x \div 2, y \div 2>>]
               /\ h[<<x, y>>] \in Nat
    <3>1. <<x, y>> \in Square2(n + 1) /\ <<x, y>>[1] = x /\ <<x, y>>[2] = y BY DEF Square2
    <3>2. h[<<x, y>>] = IF <<x, y>> = <<0, 0>> THEN 0 ELSE Digits(x, y) + 4 * g[<<x \div 2, y \div 2>>]
      BY <3>1
    <3>3. x \div 2 \in 0 .. n /\ y \div 2 \in 0 .. n BY HalfRange
    <3>4. g[<<x \div 2, y \div 2>>] \in Nat BY <3>3, <2>1 DEF Square2
    <3>5. Digits(x, y) \in 0 .. 3 BY DigitsRange
    <3> HIDE DEF h
    <3> QED BY <3>2, <3>4, <3>5
  <2>3. \A p \in Square2(n + 1) : \E x, y \in 0 .. n + 1 : p = <<x, y>> BY DEF Square2
  <2>4. h \in [Square2(n + 1) -> Nat]
    <3>1. ASSUME NEW p \in Square2(n + 1) PROVE h[p] \in Nat
      <4>1. PICK x, y \in 0 .. n + 1 : p = <<x, y>> BY <2>3
      <4> HIDE DEF h
      <4> QED BY <2>2, <4>1
    <3> QED BY <3>1
  <2> HIDE DEF h
  <2>5. ASSUME NEW x \in 0 .. n, NEW y \in 0 .. n PROVE h[<<x, y>>] = g[<<x, y>>]
    <3>1. x \in 0 .. n + 1 /\ y \in 0 .. n + 1 OBVIOUS
    <3> QED BY <2>1, <2>2, <3>1
  <2>6. ASSUME NEW x \in 0 .. n + 1, NEW y \in 0 .. n + 1
        PROVE  h[<<x, y>>] = IF <<x, y>> = <<0, 0>> THEN 0 ELSE Digits(x, y) + 4 * h[<<x \div 2, y \div 2>>]
    <3>1. x \div 2 \in 0 .. n /\ y \div 2 \in 0 .. n BY HalfRange
    <3>2. h[<<x \div 2, y \div 2>>] = g[<<x \div 2, y \div 2>>] BY <2>5, <3>1
    <3> QED BY <2>2, <3>2
  <2>7. h \in Interleaving(n + 1) BY <2>4, <2>6 DEF Interleaving
  <2> QED BY <2>7
<1>3. S \in SUBSET Nat OBVIOUS
<1> HIDE DEF S
<1>4. S = Nat BY <1>1, <1>2, <1>3, Induction
<1> QED BY <1>4 DEF S

LEMMA InterleavingUnique ==
  ASSUME NEW m \in Nat, NEW n \in Nat, NEW g \in Interleaving(m), NEW h \in Interleaving(n),
         NEW k \in Nat, k <= m, k <= n, NEW x \in 0 .. k, NEW y \in 0 .. k
  PROVE  g[<<x, y>>] = h[<<x, y>>]
<1> DEFINE S == {i \in Nat : i <= m /\ i <= n => \A u, v \in 0 .. i : g[<<u, v>>] = h[<<u, v>>]}
<1>1. 0 \in S
  <2>1. g[<<0, 0>>] = 0 /\ h[<<0, 0>>] = 0 BY DEF Interleaving
  <2> QED BY <2>1
<1>2. ASSUME NEW i \in S PROVE i + 1 \in S
  <2> SUFFICES ASSUME i + 1 <= m, i + 1 <= n, NEW u \in 0 .. i + 1, NEW v \in 0 .. i + 1
               PROVE  g[<<u, v>>] = h[<<u, v>>]
    OBVIOUS
  <2>1. u \div 2 \in 0 .. i /\ v \div 2 \in 0 .. i BY HalfRange
  <2>2. g[<<u \div 2, v \div 2>>] = h[<<u \div 2, v \div 2>>] BY <2>1
  <2>3. u \in 0 .. m /\ v \in 0 .. m /\ u \in 0 .. n /\ v \in 0 .. n OBVIOUS
  <2> QED BY <2>2, <2>3 DEF Interleaving
<1>3. S \in SUBSET Nat OBVIOUS
<1> HIDE DEF S
<1>4. S = Nat BY <1>1, <1>2, <1>3, Induction
<1> QED BY <1>4 DEF S

\* What the recursion defines is defined.
LEMMA Interleaved ==
  ASSUME NEW x \in Nat, NEW y \in Nat
  PROVE  Interleave[<<x, y>>] =
           IF <<x, y>> = <<0, 0>> THEN 0 ELSE Digits(x, y) + 4 * Interleave[<<x \div 2, y \div 2>>]
<1> DEFINE G(n) == CHOOSE g : g \in Interleaving(n)
           F == [p \in Nat \X Nat |-> G(p[1] + p[2])[p]]
<1>1. \A n \in Nat : G(n) \in Interleaving(n) BY InterleavingExists
<1> HIDE DEF G
<1>2. ASSUME NEW u \in Nat, NEW v \in Nat
      PROVE  F[<<u, v>>] = IF <<u, v>> = <<0, 0>> THEN 0 ELSE Digits(u, v) + 4 * F[<<u \div 2, v \div 2>>]
  <2> DEFINE n == u + v
             m == (u \div 2) + (v \div 2)
  <2>1. /\ u \div 2 \in Nat /\ v \div 2 \in Nat /\ n \in Nat /\ m \in Nat /\ m <= n
        /\ u \in 0 .. n /\ v \in 0 .. n /\ u \div 2 \in 0 .. m /\ v \div 2 \in 0 .. m
    OBVIOUS
  <2>2. F[<<u, v>>] = G(n)[<<u, v>>] /\ F[<<u \div 2, v \div 2>>] = G(m)[<<u \div 2, v \div 2>>]
    BY <2>1
  <2> HIDE DEF n, m, F
  <2>3. G(n) \in Interleaving(n) /\ G(m) \in Interleaving(m) BY <1>1, <2>1
  <2>4. G(n)[<<u \div 2, v \div 2>>] = G(m)[<<u \div 2, v \div 2>>]
    BY <2>1, <2>3, InterleavingUnique
  <2>5. G(n)[<<u, v>>] = IF <<u, v>> = <<0, 0>> THEN 0 ELSE Digits(u, v) + 4 * G(n)[<<u \div 2, v \div 2>>]
    BY <2>1, <2>3 DEF Interleaving
  <2> QED BY <2>2, <2>4, <2>5
<1>3. F = [p \in Nat \X Nat |->
             IF p = <<0, 0>> THEN 0
             ELSE (p[1] % 2) + 2 * (p[2] % 2) + 4 * F[<<p[1] \div 2, p[2] \div 2>>]]
  <2>1. F = [p \in Nat \X Nat |-> F[p]] OBVIOUS
  <2> HIDE DEF F
  <2>2. ASSUME NEW p \in Nat \X Nat
        PROVE  F[p] = IF p = <<0, 0>> THEN 0
                      ELSE (p[1] % 2) + 2 * (p[2] % 2) + 4 * F[<<p[1] \div 2, p[2] \div 2>>]
    <3>1. p = <<p[1], p[2]>> /\ p[1] \in Nat /\ p[2] \in Nat OBVIOUS
    <3> QED BY <1>2, <3>1 DEF Digits
  <2> QED BY <2>1, <2>2
<1> HIDE DEF F
<1>4. Interleave = [p \in Nat \X Nat |->
             IF p = <<0, 0>> THEN 0
             ELSE (p[1] % 2) + 2 * (p[2] % 2) + 4 * Interleave[<<p[1] \div 2, p[2] \div 2>>]]
  BY <1>3, Zenon DEF Interleave
<1>5. <<x, y>> \in Nat \X Nat /\ <<x, y>>[1] = x /\ <<x, y>>[2] = y OBVIOUS
<1> QED BY <1>4, <1>5 DEF Digits

\* The positions of a face have the numbers below the count of its tiles.
LEMMA InterleaveBound ==
  ASSUME NEW top \in Nat, NEW x \in Nat, NEW y \in Nat,
         x < TilesPerAxis[top], y < TilesPerAxis[top]
  PROVE  /\ Interleave[<<x, y>>] \in Nat
         /\ Interleave[<<x, y>>] < TilesPerAxis[top] * TilesPerAxis[top]
<1> DEFINE Below(n) == \A u, v \in Nat :
             u < TilesPerAxis[n] /\ v < TilesPerAxis[n] =>
               /\ Interleave[<<u, v>>] \in Nat
               /\ Interleave[<<u, v>>] < TilesPerAxis[n] * TilesPerAxis[n]
           S == {n \in Nat : Below(n)}
<1>1. 0 \in S
  <2>1. Interleave[<<0, 0>>] = 0 BY Interleaved
  <2> QED BY <2>1, Powers
<1>2. ASSUME NEW n \in S PROVE n + 1 \in S
  <2> DEFINE T == TilesPerAxis[n]
  <2>1. T \in Nat \ {0} /\ TilesPerAxis[n + 1] = 2 * T BY Powers
  <2> SUFFICES ASSUME NEW u \in Nat, NEW v \in Nat, u < 2 * T, v < 2 * T
               PROVE  /\ Interleave[<<u, v>>] \in Nat
                      /\ Interleave[<<u, v>>] < (2 * T) * (2 * T)
    BY <2>1
  <2> DEFINE i == Interleave[<<u \div 2, v \div 2>>]
  <2>2. u \div 2 \in Nat /\ v \div 2 \in Nat /\ u \div 2 < T /\ v \div 2 < T BY <2>1
  <2>3. i \in Nat /\ i < T * T BY <2>2
  <2>4. Interleave[<<u, v>>] = IF <<u, v>> = <<0, 0>> THEN 0 ELSE Digits(u, v) + 4 * i
    BY Interleaved
  <2>5. Digits(u, v) \in 0 .. 3 BY DigitsRange
  <2>6. (2 * T) * (2 * T) = 4 * (T * T) /\ T * T \in Nat BY <2>1
  <2> HIDE DEF T, i
  <2> QED BY <2>3, <2>4, <2>5, <2>6
<1>3. S \in SUBSET Nat OBVIOUS
<1> HIDE DEF S
<1>4. S = Nat BY <1>1, <1>2, <1>3, Induction
<1> QED BY <1>4 DEF S

\* So the keys of a face come before those of the next.
LEMMA FacesOrdered ==
  ASSUME NEW t \in Tiles, NEW u \in Tiles, t.face < u.face
  PROVE  Key(t) < Key(u) /\ Key(t) \in Nat /\ Key(u) \in Nat
<1> DEFINE q == Side * Side
           i == Interleave[<<t.x, t.y>>]
           j == Interleave[<<u.x, u.y>>]
<1>1. Side \in Nat \ {0} /\ q \in Nat BY SidePositive
<1>2. /\ t.face \in Nat /\ u.face \in Nat /\ t.x \in Nat /\ t.y \in Nat /\ u.x \in Nat /\ u.y \in Nat
      /\ t.x < Side /\ t.y < Side /\ u.x < Side /\ u.y < Side
  BY <1>1 DEF Tiles, Faces
<1>3. i \in Nat /\ i < q /\ j \in Nat BY <1>2, LevelAssumption, InterleaveBound
<1>4. t.face * Side * Side = t.face * q /\ u.face * Side * Side = u.face * q BY <1>1, <1>2
<1> HIDE DEF q, i, j
<1>5. (t.face + 1) * q <= u.face * q BY <1>1, <1>2, Monotone
<1>6. (t.face + 1) * q = t.face * q + q BY <1>1, <1>2
<1>7. Key(t) = t.face * q + i /\ Key(u) = u.face * q + j BY <1>4 DEF Key, i, j
<1>8. t.face * q \in Nat /\ u.face * q \in Nat BY <1>1, <1>2
<1> QED BY <1>1, <1>3, <1>5, <1>6, <1>7, <1>8

LEMMA EdgesOwned ==
  ASSUME NEW t \in Tiles, NEW e \in Edges, AtBorder(t, e)
  PROVE  FaceOwnsEdge(t.face, e) <=> Key(t) < Key(Neighbor(t, e).key)
<1> DEFINE c == Connection(t.face)[e]
           n == Neighbor(t, e).key
<1>1. t.face \in Faces BY DEF Tiles
<1>2. c.face \in Faces /\ c.face # t.face BY <1>1, ConnectionType
<1>3. n = Across(t, e) BY DEF Neighbor
<1>4. n \in Tiles /\ n.face = c.face BY <1>3, AcrossReciprocal
<1> HIDE DEF n, c
<1>5. CASE t.face < c.face BY <1>1, <1>4, <1>5, FacesOrdered DEF FaceOwnsEdge, c, n
<1>6. CASE c.face < t.face
  <2>1. Key(n) < Key(t) /\ Key(n) \in Nat /\ Key(t) \in Nat BY <1>4, <1>6, FacesOrdered
  <2>2. ~(Key(t) < Key(n)) BY <2>1
  <2>3. ~(t.face < c.face) BY <1>1, <1>2, <1>6 DEF Faces
  <2> QED BY <2>2, <2>3 DEF FaceOwnsEdge, c, n
<1> QED BY <1>1, <1>2, <1>5, <1>6 DEF Faces

\* Of three tiles on different faces the one on the lowest face has the lowest key.
LEMMA LowestOfThree ==
  ASSUME NEW r \in Tiles, NEW s \in Tiles, NEW t \in Tiles,
         r.face # s.face, r.face # t.face, s.face # t.face
  PROVE  (CHOOSE f \in {r.face, s.face, t.face} : \A g \in {r.face, s.face, t.face} : f <= g)
           = (CHOOSE u \in {r, s, t} : \A o \in {r, s, t} : Key(u) <= Key(o)).face
<1> DEFINE f == CHOOSE f \in {r.face, s.face, t.face} : \A g \in {r.face, s.face, t.face} : f <= g
           u == CHOOSE u \in {r, s, t} : \A o \in {r, s, t} : Key(u) <= Key(o)
<1>1. r.face \in 0 .. 5 /\ s.face \in 0 .. 5 /\ t.face \in 0 .. 5 BY DEF Tiles, Faces
<1>2. \E h \in {r.face, s.face, t.face} : \A g \in {r.face, s.face, t.face} : h <= g BY <1>1
<1>3. f \in {r.face, s.face, t.face} /\ \A g \in {r.face, s.face, t.face} : f <= g BY <1>2
<1> HIDE DEF f
<1>4. PICK v \in {r, s, t} : v.face = f BY <1>3
<1>5. ASSUME NEW o \in {r, s, t}, o # v PROVE Key(v) < Key(o) /\ Key(v) \in Nat /\ Key(o) \in Nat
  <2>1. o.face # v.face /\ f <= o.face BY <1>3, <1>4, <1>5
  <2>2. v.face < o.face BY <1>1, <1>4, <2>1
  <2> QED BY <1>4, <2>2, FacesOrdered
<1>6. \E o \in {r, s, t} : o # v BY <1>4
<1>7. Key(v) \in Nat BY <1>5, <1>6
<1>8. \A o \in {r, s, t} : Key(v) <= Key(o)
  <2> TAKE o \in {r, s, t}
  <2>1. CASE o = v BY <1>7, <2>1
  <2>2. CASE o # v BY <1>5, <2>2
  <2> QED BY <2>1, <2>2
<1>9. u \in {r, s, t} /\ \A o \in {r, s, t} : Key(u) <= Key(o)
  <2>1. \E w \in {r, s, t} : \A o \in {r, s, t} : Key(w) <= Key(o) BY <1>4, <1>8
  <2> QED BY <2>1
<1> HIDE DEF u
<1>10. u = v
  <2> SUFFICES ASSUME u # v PROVE FALSE
    OBVIOUS
  <2>1. Key(v) < Key(u) /\ Key(v) \in Nat /\ Key(u) \in Nat BY <1>5, <1>9
  <2>2. Key(u) <= Key(v) BY <1>4, <1>9
  <2> QED BY <2>1, <2>2
<1> QED BY <1>4, <1>10 DEF f, u

LEMMA OwnersAnywhere == Standing => OwnersAgree
<1> SUFFICES ASSUME Standing PROVE OwnersAgree
  OBVIOUS
<1>1. tile \in Tiles /\ corner \in Corners BY DEF Standing
<1>2. \A edge \in Edges :
        AtBorder(tile, edge) => (FaceOwnsEdge(tile.face, edge) <=> Key(tile) < Key(Neighbor(tile, edge).key))
  BY <1>1, EdgesOwned
<1> DEFINE u == CHOOSE edge \in EdgesAt(corner) : Vertical(edge)
           v == CHOOSE edge \in EdgesAt(corner) : ~Vertical(edge)
           ring == {Ring(u)[i].tile : i \in 0 .. 2}
           lowest == CHOOSE t \in ring : \A o \in ring : Key(t) <= Key(o)
<1>3. ASSUME AtCubeCorner PROVE CornerOwner(tile.face, u, v) = lowest.face
  <2>1. PICK e \in Edges, h \in BOOLEAN :
          /\ Vertical(e) /\ ~Vertical(SideEdge(e, h)) /\ SideEdge(e, h) \in Edges
          /\ corner = EdgeCorner(e, h)
          /\ EdgesAt(corner) = {e, SideEdge(e, h)} /\ SideEdge(e, h) # e
    BY <1>1, CornerAsEnd, Zenon
  <2> DEFINE o == SideEdge(e, h)
             f == tile.face
  <2>2. u = e /\ v = o BY <2>1
  <2>3. AtBorder(tile, e) /\ AtBorder(tile, o) BY <1>3, <2>1 DEF AtCubeCorner
  <2>4. /\ Ring(e)[0].tile.face = Connection(f)[e].face
        /\ Ring(e)[1].tile.face = Connection(f)[o].face
        /\ Ring(e)[2].tile = tile
    BY <1>1, <2>1, <2>3, ThreePlaces, ZenonT(60)
  <2>5. f \in Faces BY <1>1 DEF Tiles
  <2>6. /\ Connection(f)[e].face # f /\ Connection(f)[o].face # f
        /\ Connection(f)[e].face # Connection(f)[o].face
    BY <2>1, <2>5, ConnectionType, ConnectionsDiffer
  <2>7. Ring(e)[0].tile \in Tiles /\ Ring(e)[1].tile \in Tiles
    BY <1>1, <2>1, <2>3, RingOnTiles, Zenon
  <2>8. ring = {Ring(e)[2].tile, Ring(e)[0].tile, Ring(e)[1].tile}
    <3>1. \A i : i \in 0 .. 2 <=> i = 0 \/ i = 1 \/ i = 2 OBVIOUS
    <3> HIDE DEF u
    <3> QED BY <2>2, <3>1
  <2>9. CornerOwner(f, u, v)
          = CHOOSE g \in {f, Connection(f)[e].face, Connection(f)[o].face} :
              \A k \in {f, Connection(f)[e].face, Connection(f)[o].face} : g <= k
    BY <2>2, Zenon DEF CornerOwner
  <2> HIDE DEF u, v, ring, o
  <2>10. (CHOOSE g \in {f, Connection(f)[e].face, Connection(f)[o].face} :
              \A k \in {f, Connection(f)[e].face, Connection(f)[o].face} : g <= k)
           = (CHOOSE t \in ring : \A k \in ring : Key(t) <= Key(k)).face
    <3> DEFINE r == Ring(e)[0].tile
               s == Ring(e)[1].tile
    <3>1. r \in Tiles /\ s \in Tiles /\ tile \in Tiles /\ tile.face # r.face /\ tile.face # s.face /\ r.face # s.face
      BY <1>1, <2>4, <2>6, <2>7
    <3>2. ring = {tile, r, s} /\ r.face = Connection(f)[e].face /\ s.face = Connection(f)[o].face
      BY <2>4, <2>8
    <3> HIDE DEF r, s
    <3>3. (CHOOSE g \in {tile.face, r.face, s.face} : \A k \in {tile.face, r.face, s.face} : g <= k)
            = (CHOOSE t \in {tile, r, s} : \A k \in {tile, r, s} : Key(t) <= Key(k)).face
      BY <3>1, LowestOfThree
    <3> QED BY <3>2, <3>3, ZenonT(60)
  <2> QED BY <2>9, <2>10, Zenon
<1> QED BY <1>2, <1>3, Zenon DEF OwnersAgree

-----------------------------------------------------------------------------
(* The corner of an apron *)

\* The point of a face beyond one of its edges, at a position along it.
PointAt(f, e, d, w) ==
  [face |-> f,
   u |-> CASE e = "west" -> -Span - d [] e = "east" -> Span + d [] OTHER -> w,
   v |-> CASE e = "south" -> -Span - d [] e = "north" -> Span + d [] OTHER -> w]

\* Where the corners of the apron and their diagonal opposites lie along an edge.
Outer(a, h) == 2 * (Cells * a + (IF h THEN Cells + 1 ELSE -1)) - Span
Inner(a, h) == 2 * (Cells * a + (IF h THEN Cells - 1 ELSE 1)) - Span
Reversed(r, w) == IF r THEN -w ELSE w
Far(h)  == IF h THEN Span + 2 ELSE -Span - 2
Near(h) == IF h THEN Span - 2 ELSE 2 - Span

LEMMA SpanPositive == Span \in Nat \ {0} /\ Cells \in Nat \ {0} /\ Side \in Nat \ {0}
BY SidePositive, CellsAssumption DEF Span

LEMMA Crossing ==
  ASSUME NEW f, NEW e \in Edges, NEW w \in Int, Vertical(e) \/ w \in -Span .. Span
  PROVE  LET c == Connection(f)[e]
         IN  /\ Crossed(PointAt(f, e, 2, w)) = e /\ e # "none"
             /\ Transition(PointAt(f, e, 2, w)) = PointAt(c.face, c.edge, -2, Reversed(c.reversed, w))
<1> DEFINE p == PointAt(f, e, 2, w)
           c == Connection(f)[e]
<1>1. Span \in Nat BY SpanPositive
<1>2. p.face = f BY DEF PointAt
<1>3. Crossed(p) = e /\ e # "none"
  <2>1. /\ e = "west" => p.u = -Span - 2
        /\ e = "east" => p.u = Span + 2
        /\ e = "south" => p.u = w /\ p.v = -Span - 2 /\ w \in -Span .. Span
        /\ e = "north" => p.u = w /\ p.v = Span + 2 /\ w \in -Span .. Span
    BY DEF PointAt, Vertical
  <2> HIDE DEF p
  <2>2. CASE e = "west" BY <1>1, <2>1, <2>2 DEF Crossed
  <2>3. CASE e = "east" BY <1>1, <2>1, <2>3 DEF Crossed
  <2>4. CASE e = "south" BY <1>1, <2>1, <2>4 DEF Crossed
  <2>5. CASE e = "north" BY <1>1, <2>1, <2>5 DEF Crossed
  <2> QED BY <2>2, <2>3, <2>4, <2>5 DEF Edges
<1>4. (IF Vertical(e) THEN p.v ELSE p.u) = w BY DEF PointAt, Edges, Vertical
<1>5. (CASE e = "west" -> -Span - p.u [] e = "east" -> p.u - Span
         [] e = "south" -> -Span - p.v [] OTHER -> p.v - Span) = 2
  BY <1>1 DEF PointAt, Edges
<1>6. -Span - (-2) = 2 - Span /\ Span + (-2) = Span - 2 BY <1>1
<1> HIDE DEF p, c
<1>7. Transition(p) =
        [face |-> c.face,
         u |-> CASE c.edge = "west" -> 2 - Span [] c.edge = "east" -> Span - 2
                 [] OTHER -> Reversed(c.reversed, w),
         v |-> CASE c.edge = "south" -> 2 - Span [] c.edge = "north" -> Span - 2
                 [] OTHER -> Reversed(c.reversed, w)]
  BY <1>2, <1>3, <1>4, <1>5, Zenon DEF Transition, Reversed, c
<1>8. Transition(p) = PointAt(c.face, c.edge, -2, Reversed(c.reversed, w))
  BY <1>6, <1>7 DEF PointAt
<1> QED BY <1>3, <1>8 DEF p, c

LEMMA NoCrossing ==
  ASSUME NEW f, NEW e \in Edges, NEW w \in -Span .. Span
  PROVE  Crossed(PointAt(f, e, -2, w)) = "none"
BY SpanPositive DEF Crossed, PointAt, Edges

Mapping(p) == IF Crossed(p) = "none" THEN p ELSE Transition(p)

LEMMA MapUnfolds ==
  ASSUME NEW p
  PROVE  MapExtended(p) = Mapping(Mapping(Mapping(p)))
<1> DEFINE one == Mapping(p)
           two == Mapping(one)
           three == Mapping(two)
           F == [i \in 0 .. 3 |-> IF i = 0 THEN p ELSE IF i = 1 THEN one ELSE IF i = 2 THEN two ELSE three]
           map == CHOOSE map : map =
                    [i \in 0 .. 3 |->
                       IF i = 0 THEN p
                       ELSE IF Crossed(map[i - 1]) = "none" THEN map[i - 1]
                       ELSE Transition(map[i - 1])]
<1>1. one = Mapping(p) /\ two = Mapping(one) /\ three = Mapping(two) OBVIOUS
<1> HIDE DEF one, two, three
<1>2. /\ F[0] = p /\ F[1] = one /\ F[2] = two /\ F[3] = three
      /\ F = [i \in 0 .. 3 |-> F[i]]
  OBVIOUS
<1> HIDE DEF F
<1>3. ASSUME NEW i \in 0 .. 3 PROVE F[i] = IF i = 0 THEN p ELSE Mapping(F[i - 1])
  <2>1. i = 0 \/ i = 1 \/ i = 2 \/ i = 3 OBVIOUS
  <2>2. 1 - 1 = 0 /\ 2 - 1 = 1 /\ 3 - 1 = 2 OBVIOUS
  <2> QED BY <1>1, <1>2, <2>1, <2>2
<1>4. F = [i \in 0 .. 3 |-> IF i = 0 THEN p ELSE Mapping(F[i - 1])] BY <1>2, <1>3
<1>5. F = [i \in 0 .. 3 |->
             IF i = 0 THEN p
             ELSE IF Crossed(F[i - 1]) = "none" THEN F[i - 1]
             ELSE Transition(F[i - 1])]
  BY <1>4, Zenon DEF Mapping
<1>6. map = [i \in 0 .. 3 |->
               IF i = 0 THEN p
               ELSE IF Crossed(map[i - 1]) = "none" THEN map[i - 1]
               ELSE Transition(map[i - 1])]
  BY <1>5, Zenon
<1>7. MapExtended(p) = map[3] BY Zenon DEF MapExtended
<1> HIDE DEF map
<1>8. map = [i \in 0 .. 3 |-> IF i = 0 THEN p ELSE Mapping(map[i - 1])] BY <1>6, Zenon DEF Mapping
<1>9. map[0] = p /\ map[1] = Mapping(map[0]) /\ map[2] = Mapping(map[1]) /\ map[3] = Mapping(map[2])
  BY <1>8
<1> QED BY <1>7, <1>9, Zenon

LEMMA OuterRange ==
  ASSUME NEW a \in 0 .. Side - 1, NEW h \in BOOLEAN
  PROVE  /\ a # End(h) => Outer(a, h) \in -Span .. Span
         /\ Outer(End(h), h) = Far(h) /\ Inner(End(h), h) = Near(h)
         /\ Outer(a, h) \in Int /\ Near(h) \in -Span .. Span /\ Far(h) \in Int
<1> DEFINE ca == Cells * a
<1>1. Cells \in Nat \ {0} /\ Side \in Nat \ {0} /\ Span \in Nat \ {0} BY SpanPositive
<1>2. ca \in Nat BY <1>1
<1>3. Cells * (Side - 1) = Span - Cells BY <1>1 DEF Span
<1>4. CASE h
  <2>1. Outer(End(h), h) = Far(h) /\ Inner(End(h), h) = Near(h)
    BY <1>1, <1>3, <1>4 DEF Outer, Inner, End, Far, Near
  <2>2. ASSUME a # End(h) PROVE Outer(a, h) \in -Span .. Span
    <3>1. a + 1 <= Side - 1 /\ a + 1 \in Nat /\ Side - 1 \in Nat BY <1>1, <1>4, <2>2 DEF End
    <3>2. (a + 1) * Cells <= (Side - 1) * Cells BY <1>1, <3>1, Monotone
    <3>3. (a + 1) * Cells = ca + Cells /\ (Side - 1) * Cells = Cells * (Side - 1) BY <1>1, <3>1
    <3>4. ca + Cells <= Span - Cells BY <1>3, <3>2, <3>3
    <3> HIDE DEF ca
    <3>5. Outer(a, h) = 2 * (ca + (Cells + 1)) - Span BY <1>4 DEF Outer, ca
    <3> QED BY <1>1, <1>2, <3>4, <3>5
  <2>3. Outer(a, h) \in Int /\ Near(h) \in -Span .. Span /\ Far(h) \in Int
    BY <1>1, <1>2, <1>4 DEF Outer, Near, Far
  <2> QED BY <2>1, <2>2, <2>3
<1>5. CASE ~h
  <2>1. Outer(End(h), h) = Far(h) /\ Inner(End(h), h) = Near(h)
    BY <1>1, <1>5 DEF Outer, Inner, End, Far, Near
  <2>2. ASSUME a # End(h) PROVE Outer(a, h) \in -Span .. Span
    <3>1. 1 <= a /\ a <= Side - 1 /\ a \in Nat /\ Side - 1 \in Nat BY <1>1, <1>5, <2>2 DEF End
    <3>2. 1 * Cells <= a * Cells /\ a * Cells <= (Side - 1) * Cells BY <1>1, <3>1, Monotone
    <3>3. a * Cells = ca /\ (Side - 1) * Cells = Cells * (Side - 1) /\ 1 * Cells = Cells BY <1>1, <3>1
    <3>4. Cells <= ca /\ ca <= Span - Cells BY <1>3, <3>2, <3>3
    <3> HIDE DEF ca
    <3>5. Outer(a, h) = 2 * (ca + (-1)) - Span BY <1>5 DEF Outer, ca
    <3> QED BY <1>1, <1>2, <3>4, <3>5
  <2>3. Outer(a, h) \in Int /\ Near(h) \in -Span .. Span /\ Far(h) \in Int
    BY <1>1, <1>2, <1>5 DEF Outer, Near, Far
  <2> QED BY <2>1, <2>2, <2>3
<1> QED BY <1>4, <1>5

\* One step back from the next corner along an edge is one step beyond this one.
LEMMA InnerOuter ==
  ASSUME NEW a \in 0 .. Side - 1, NEW h \in BOOLEAN, NEW r \in BOOLEAN, a # End(h)
  PROVE  Inner(Mirror(r, Toward(a, h)), ~(h # r)) = Reversed(r, Outer(a, h))
<1> DEFINE ca == Cells * a
<1>1. Cells \in Nat \ {0} /\ Side \in Nat \ {0} /\ Span \in Nat \ {0} BY SpanPositive
<1>2. ca \in Nat BY <1>1
<1>3. /\ Cells * (a + 1) = ca + Cells /\ Cells * (a - 1) = ca - Cells
      /\ Cells * (Side - 1 - (a + 1)) = Span - ca - 2 * Cells
      /\ Cells * (Side - 1 - (a - 1)) = Span - ca
  BY <1>1 DEF Span
<1>4. CASE h
  <2>1. Toward(a, h) = a + 1 /\ Outer(a, h) = 2 * (ca + (Cells + 1)) - Span
    BY <1>4 DEF Toward, Outer
  <2>2. CASE r
    <3>1. (~(h # r)) = TRUE BY <1>4, <2>2, Zenon
    <3>2. Mirror(r, a + 1) = Side - 1 - (a + 1) BY <2>2 DEF Mirror
    <3>3. Inner(Side - 1 - (a + 1), TRUE) = 2 * ((Span - ca - 2 * Cells) + (Cells - 1)) - Span
      BY <1>3 DEF Inner
    <3> DEFINE outer == Outer(a, h)
               inner == Inner(Side - 1 - (a + 1), TRUE)
    <3> HIDE DEF ca, outer, inner
    <3>4. Inner(Side - 1 - (a + 1), TRUE) = -Outer(a, h)
      <4>1. outer = 2 * (ca + (Cells + 1)) - Span BY <2>1 DEF outer
      <4>2. inner = 2 * ((Span - ca - 2 * Cells) + (Cells - 1)) - Span BY <3>3 DEF inner
      <4>3. inner = -outer BY <1>1, <1>2, <4>1, <4>2
      <4> QED BY <4>3 DEF inner, outer
    <3>5. Reversed(r, Outer(a, h)) = -Outer(a, h) BY <2>2 DEF Reversed
    <3> QED BY <2>1, <3>1, <3>2, <3>4, <3>5, Zenon
  <2>3. CASE ~r
    <3>1. (~(h # r)) = FALSE BY <1>4, <2>3, Zenon
    <3>2. Mirror(r, a + 1) = a + 1 BY <2>3 DEF Mirror
    <3>3. Inner(a + 1, FALSE) = 2 * ((ca + Cells) + 1) - Span BY <1>3 DEF Inner
    <3> DEFINE outer == Outer(a, h)
               inner == Inner(a + 1, FALSE)
    <3> HIDE DEF ca, outer, inner
    <3>4. Inner(a + 1, FALSE) = Outer(a, h)
      <4>1. outer = 2 * (ca + (Cells + 1)) - Span BY <2>1 DEF outer
      <4>2. inner = 2 * ((ca + Cells) + 1) - Span BY <3>3 DEF inner
      <4>3. inner = outer BY <1>1, <1>2, <4>1, <4>2
      <4> QED BY <4>3 DEF inner, outer
    <3>5. Reversed(r, Outer(a, h)) = Outer(a, h) BY <2>3 DEF Reversed
    <3> QED BY <2>1, <3>1, <3>2, <3>4, <3>5, Zenon
  <2> QED BY <2>2, <2>3
<1>5. CASE ~h
  <2>1. Toward(a, h) = a - 1 /\ Outer(a, h) = 2 * (ca + (-1)) - Span
    BY <1>5 DEF Toward, Outer
  <2>2. CASE r
    <3>1. (~(h # r)) = FALSE BY <1>5, <2>2, Zenon
    <3>2. Mirror(r, a - 1) = Side - 1 - (a - 1) BY <2>2 DEF Mirror
    <3>3. Inner(Side - 1 - (a - 1), FALSE) = 2 * ((Span - ca) + 1) - Span BY <1>3 DEF Inner
    <3> DEFINE outer == Outer(a, h)
               inner == Inner(Side - 1 - (a - 1), FALSE)
    <3> HIDE DEF ca, outer, inner
    <3>4. Inner(Side - 1 - (a - 1), FALSE) = -Outer(a, h)
      <4>1. outer = 2 * (ca + (-1)) - Span BY <2>1 DEF outer
      <4>2. inner = 2 * ((Span - ca) + 1) - Span BY <3>3 DEF inner
      <4>3. inner = -outer BY <1>1, <1>2, <4>1, <4>2
      <4> QED BY <4>3 DEF inner, outer
    <3>5. Reversed(r, Outer(a, h)) = -Outer(a, h) BY <2>2 DEF Reversed
    <3> QED BY <2>1, <3>1, <3>2, <3>4, <3>5, Zenon
  <2>3. CASE ~r
    <3>1. (~(h # r)) = TRUE BY <1>5, <2>3, Zenon
    <3>2. Mirror(r, a - 1) = a - 1 BY <2>3 DEF Mirror
    <3>3. Inner(a - 1, TRUE) = 2 * ((ca - Cells) + (Cells - 1)) - Span BY <1>3 DEF Inner
    <3> DEFINE outer == Outer(a, h)
               inner == Inner(a - 1, TRUE)
    <3> HIDE DEF ca, outer, inner
    <3>4. Inner(a - 1, TRUE) = Outer(a, h)
      <4>1. outer = 2 * (ca + (-1)) - Span BY <2>1 DEF outer
      <4>2. inner = 2 * ((ca - Cells) + (Cells - 1)) - Span BY <3>3 DEF inner
      <4>3. inner = outer BY <1>1, <1>2, <4>1, <4>2
      <4> QED BY <4>3 DEF inner, outer
    <3>5. Reversed(r, Outer(a, h)) = Outer(a, h) BY <2>3 DEF Reversed
    <3> QED BY <2>1, <3>1, <3>2, <3>4, <3>5, Zenon
  <2> QED BY <2>2, <2>3
<1> QED BY <1>4, <1>5

\* The corner of the apron, and the step inside a corner, of a tile at an edge.
LEMMA CornersAtEdge ==
  ASSUME NEW f, NEW e \in Edges, NEW a \in 0 .. Side - 1, NEW h \in BOOLEAN
  PROVE  /\ ApronCorner(AtEdge(f, e, a), EdgeCorner(e, h)) = PointAt(f, e, 2, Outer(a, h))
         /\ InnerDiagonal(AtEdge(f, e, a), EdgeCorner(e, h)) = PointAt(f, e, -2, Inner(a, h))
<1> DEFINE t == AtEdge(f, e, a)
           c == EdgeCorner(e, h)
<1>1. Cells \in Nat \ {0} /\ Side \in Nat \ {0} /\ Span \in Nat \ {0} BY SpanPositive
<1>2. /\ ApronCorner(t, c) = [face |-> f, u |-> Outer(t.x, c \in {"se", "ne"}), v |-> Outer(t.y, c \in {"nw", "ne"})]
      /\ InnerDiagonal(t, c) = [face |-> f, u |-> Inner(t.x, c \in {"se", "ne"}), v |-> Inner(t.y, c \in {"nw", "ne"})]
  BY DEF ApronCorner, InnerDiagonal, Outer, Inner, AtEdge
<1>3. /\ Outer(0, FALSE) = -Span - 2 /\ Outer(Side - 1, TRUE) = Span + 2
      /\ Inner(0, FALSE) = -Span - (-2) /\ Inner(Side - 1, TRUE) = Span + (-2)
  <2>1. Cells * (Side - 1) = Span - Cells /\ Cells * 0 = 0 BY <1>1 DEF Span
  <2> QED BY <1>1, <2>1 DEF Outer, Inner
<1>4. CASE h
  <2>1. h = TRUE BY <1>4
  <2>2. CASE e = "west"
    <3>1. /\ t.x = 0 /\ t.y = a /\ (c \in {"se", "ne"}) = FALSE /\ (c \in {"nw", "ne"}) = TRUE
      BY <2>1, <2>2 DEF AtEdge, EdgeCorner
    <3> QED BY <1>2, <1>3, <2>1, <2>2, <3>1 DEF PointAt
  <2>3. CASE e = "east"
    <3>1. /\ t.x = Side - 1 /\ t.y = a /\ (c \in {"se", "ne"}) = TRUE /\ (c \in {"nw", "ne"}) = TRUE
      BY <2>1, <2>3 DEF AtEdge, EdgeCorner
    <3> QED BY <1>2, <1>3, <2>1, <2>3, <3>1 DEF PointAt
  <2>4. CASE e = "south"
    <3>1. /\ t.x = a /\ t.y = 0 /\ (c \in {"se", "ne"}) = TRUE /\ (c \in {"nw", "ne"}) = FALSE
      BY <2>1, <2>4 DEF AtEdge, EdgeCorner
    <3> QED BY <1>2, <1>3, <2>1, <2>4, <3>1 DEF PointAt
  <2>5. CASE e = "north"
    <3>1. /\ t.x = a /\ t.y = Side - 1 /\ (c \in {"se", "ne"}) = TRUE /\ (c \in {"nw", "ne"}) = TRUE
      BY <2>1, <2>5 DEF AtEdge, EdgeCorner
    <3> QED BY <1>2, <1>3, <2>1, <2>5, <3>1 DEF PointAt
  <2> QED BY <2>2, <2>3, <2>4, <2>5 DEF Edges
<1>5. CASE ~h
  <2>1. h = FALSE BY <1>5
  <2>2. CASE e = "west"
    <3>1. /\ t.x = 0 /\ t.y = a /\ (c \in {"se", "ne"}) = FALSE /\ (c \in {"nw", "ne"}) = FALSE
      BY <2>1, <2>2 DEF AtEdge, EdgeCorner
    <3> QED BY <1>2, <1>3, <2>1, <2>2, <3>1 DEF PointAt
  <2>3. CASE e = "east"
    <3>1. /\ t.x = Side - 1 /\ t.y = a /\ (c \in {"se", "ne"}) = TRUE /\ (c \in {"nw", "ne"}) = FALSE
      BY <2>1, <2>3 DEF AtEdge, EdgeCorner
    <3> QED BY <1>2, <1>3, <2>1, <2>3, <3>1 DEF PointAt
  <2>4. CASE e = "south"
    <3>1. /\ t.x = a /\ t.y = 0 /\ (c \in {"se", "ne"}) = FALSE /\ (c \in {"nw", "ne"}) = FALSE
      BY <2>1, <2>4 DEF AtEdge, EdgeCorner
    <3> QED BY <1>2, <1>3, <2>1, <2>4, <3>1 DEF PointAt
  <2>5. CASE e = "north"
    <3>1. /\ t.x = a /\ t.y = Side - 1 /\ (c \in {"se", "ne"}) = FALSE /\ (c \in {"nw", "ne"}) = TRUE
      BY <2>1, <2>5 DEF AtEdge, EdgeCorner
    <3> QED BY <1>2, <1>3, <2>1, <2>5, <3>1 DEF PointAt
  <2> QED BY <2>2, <2>3, <2>4, <2>5 DEF Edges
<1> QED BY <1>4, <1>5

\* Within a face.
LEMMA ApronWithin ==
  ASSUME NEW t \in Tiles, NEW e \in Edges, NEW h \in BOOLEAN, Vertical(e),
         ~AtBorder(t, e), ~AtBorder(t, SideEdge(e, h))
  PROVE  MapExtended(ApronCorner(t, EdgeCorner(e, h)))
           = InnerDiagonal(Beside(Beside(t, SideEdge(e, h)), e), EdgeCorner(Opposite(e), ~h))
<1> DEFINE c == EdgeCorner(e, h)
           d == EdgeCorner(Opposite(e), ~h)
           s == Beside(Beside(t, SideEdge(e, h)), e)
           g == High(e)
<1>1. g \in BOOLEAN /\ (~g) \in BOOLEAN /\ (~h) \in BOOLEAN BY DEF High
<1>2. /\ t.face \in Faces /\ t.x \in 0 .. Side - 1 /\ t.y \in 0 .. Side - 1
      /\ t = [face |-> t.face, x |-> t.x, y |-> t.y]
  BY DEF Tiles
<1>3. e = "west" \/ e = "east" BY DEF Vertical
<1>4. /\ (c \in {"se", "ne"}) = g /\ (c \in {"nw", "ne"}) = h
      /\ (d \in {"se", "ne"}) = ~g /\ (d \in {"nw", "ne"}) = ~h
  <2>1. /\ (h /\ e = "west") => c = "nw" /\ d = "se" /\ ~g
        /\ (h /\ e = "east") => c = "ne" /\ d = "sw" /\ g
        /\ (~h /\ e = "west") => c = "sw" /\ d = "ne" /\ ~g
        /\ (~h /\ e = "east") => c = "se" /\ d = "nw" /\ g
    BY DEF EdgeCorner, Opposite, High
  <2> HIDE DEF c, d, g
  <2>2. (c \in {"se", "ne"}) <=> g BY <1>3, <2>1
  <2>3. (c \in {"nw", "ne"}) <=> h BY <1>3, <2>1
  <2>4. (d \in {"se", "ne"}) <=> ~g BY <1>3, <2>1
  <2>5. (d \in {"nw", "ne"}) <=> ~h BY <1>3, <2>1
  <2>6. (c \in {"se", "ne"}) = g BY <1>1, <2>2
  <2>7. (c \in {"nw", "ne"}) = h BY <2>3
  <2>8. (d \in {"se", "ne"}) = ~g BY <1>1, <2>4
  <2>9. (d \in {"nw", "ne"}) = ~h BY <2>5
  <2> QED BY <2>6, <2>7, <2>8, <2>9, Zenon
<1>40. /\ t.x # End(g) /\ t.y # End(h)
       /\ s = [face |-> t.face, x |-> Toward(t.x, g), y |-> Toward(t.y, h)]
  <2>1. CASE h
    <3>1. h = TRUE BY <2>1
    <3>2. CASE e = "west"
      <4>1. g = FALSE BY <3>2 DEF High
      <4> HIDE DEF g
      <4> QED BY <1>2, <3>1, <3>2, <4>1 DEF AtBorder, SideEdge, Vertical, End, High, Beside, Toward
    <3>3. CASE e = "east"
      <4>1. g = TRUE BY <3>3 DEF High
      <4> HIDE DEF g
      <4> QED BY <1>2, <3>1, <3>3, <4>1 DEF AtBorder, SideEdge, Vertical, End, High, Beside, Toward
    <3> QED BY <1>3, <3>2, <3>3
  <2>2. CASE ~h
    <3>1. h = FALSE BY <2>2
    <3>2. CASE e = "west"
      <4>1. g = FALSE BY <3>2 DEF High
      <4> HIDE DEF g
      <4> QED BY <1>2, <3>1, <3>2, <4>1 DEF AtBorder, SideEdge, Vertical, End, High, Beside, Toward
    <3>3. CASE e = "east"
      <4>1. g = TRUE BY <3>3 DEF High
      <4> HIDE DEF g
      <4> QED BY <1>2, <3>1, <3>3, <4>1 DEF AtBorder, SideEdge, Vertical, End, High, Beside, Toward
    <3> QED BY <1>3, <3>2, <3>3
  <2> QED BY <2>1, <2>2
<1> HIDE DEF c, d, s, g
<1>5. ApronCorner(t, c) = [face |-> t.face, u |-> Outer(t.x, g), v |-> Outer(t.y, h)]
  <2>1. ApronCorner(t, c) =
          [face |-> t.face, u |-> Outer(t.x, c \in {"se", "ne"}), v |-> Outer(t.y, c \in {"nw", "ne"})]
    BY DEF ApronCorner, Outer
  <2> QED BY <1>4, <2>1, Zenon
<1>6. InnerDiagonal(s, d) = [face |-> s.face, u |-> Inner(s.x, ~g), v |-> Inner(s.y, ~h)]
  <2>1. InnerDiagonal(s, d) =
          [face |-> s.face, u |-> Inner(s.x, d \in {"se", "ne"}), v |-> Inner(s.y, d \in {"nw", "ne"})]
    BY DEF InnerDiagonal, Inner
  <2> QED BY <1>4, <2>1, Zenon
<1>7. /\ Inner(Toward(t.x, g), ~g) = Outer(t.x, g) /\ Inner(Toward(t.y, h), ~h) = Outer(t.y, h)
  <2>1. \A a \in 0 .. Side - 1, k \in BOOLEAN : a # End(k) => Inner(Toward(a, k), ~k) = Outer(a, k)
    <3> SUFFICES ASSUME NEW a \in 0 .. Side - 1, NEW k \in BOOLEAN, a # End(k)
                 PROVE  Inner(Toward(a, k), ~k) = Outer(a, k)
      OBVIOUS
    <3>1. Inner(Mirror(FALSE, Toward(a, k)), ~(k # FALSE)) = Reversed(FALSE, Outer(a, k))
      BY InnerOuter
    <3>2. Mirror(FALSE, Toward(a, k)) = Toward(a, k) /\ Reversed(FALSE, Outer(a, k)) = Outer(a, k)
      BY DEF Mirror, Reversed
    <3>3. (k # FALSE) = k BY Zenon
    <3> QED BY <3>1, <3>2, <3>3, Zenon
  <2> QED BY <1>1, <1>2, <1>40, <2>1
<1>8. InnerDiagonal(s, d) = ApronCorner(t, c)
  <2>1. s.face = t.face /\ s.x = Toward(t.x, g) /\ s.y = Toward(t.y, h) BY <1>40
  <2> QED BY <1>5, <1>6, <1>7, <2>1, Zenon
<1>9. Crossed(ApronCorner(t, c)) = "none"
  <2>1. Outer(t.x, g) \in -Span .. Span /\ Outer(t.y, h) \in -Span .. Span
    BY <1>1, <1>2, <1>40, OuterRange
  <2> DEFINE p == ApronCorner(t, c)
  <2>2. p.u \in -Span .. Span /\ p.v \in -Span .. Span BY <1>5, <2>1
  <2> HIDE DEF p
  <2>3. Crossed(p) = "none" BY <2>2, SpanPositive DEF Crossed
  <2> QED BY <2>3 DEF p
<1>10. MapExtended(ApronCorner(t, c)) = ApronCorner(t, c)
  BY <1>9, MapUnfolds, Zenon DEF Mapping
<1> QED BY <1>8, <1>10, Zenon DEF c, d, s

\* Across the edge of a face.
LEMMA ApronAcross ==
  ASSUME NEW f \in Faces, NEW e \in Edges, NEW a \in 0 .. Side - 1, NEW h \in BOOLEAN, a # End(h)
  PROVE  LET c == Connection(f)[e]
         IN  MapExtended(ApronCorner(AtEdge(f, e, a), EdgeCorner(e, h)))
               = InnerDiagonal(AtEdge(c.face, c.edge, Mirror(c.reversed, Toward(a, h))),
                               EdgeCorner(c.edge, ~(h # c.reversed)))
<1> DEFINE c == Connection(f)[e]
           r == c.reversed
           k == h # r
           w == Outer(a, h)
           b == Mirror(r, Toward(a, h))
           p == ApronCorner(AtEdge(f, e, a), EdgeCorner(e, h))
           q == PointAt(c.face, c.edge, -2, Reversed(r, w))
<1>1. c.face \in Faces /\ c.edge \in Edges /\ r \in BOOLEAN BY ConnectionType, ConnectionReverses
<1>2. k \in BOOLEAN /\ (~k) \in BOOLEAN BY <1>1, Exchange
<1>3. w \in -Span .. Span /\ w \in Int BY OuterRange
<1>4. p = PointAt(f, e, 2, w) BY CornersAtEdge
<1>5. Toward(a, h) \in 0 .. Side - 1 BY AtEdgeBeside
<1> HIDE DEF w, p
<1>6. /\ Crossed(p) = e /\ e # "none" /\ Transition(p) = q BY <1>3, <1>4, Crossing, Zenon
<1>7. Reversed(r, w) \in -Span .. Span BY <1>3, SpanPositive DEF Reversed
<1> HIDE DEF c, r
<1>8. Crossed(q) = "none" BY <1>1, <1>7, NoCrossing
<1>9. MapExtended(p) = q BY <1>6, <1>8, MapUnfolds, Zenon DEF Mapping
<1>10. Inner(b, ~k) = Reversed(r, w) BY <1>1, InnerOuter DEF w
<1>11. b \in 0 .. Side - 1 BY <1>1, <1>5, SidePositive DEF Mirror
<1> HIDE DEF b, k
<1>12. InnerDiagonal(AtEdge(c.face, c.edge, b), EdgeCorner(c.edge, ~k)) = PointAt(c.face, c.edge, -2, Inner(b, ~k))
  BY <1>1, <1>2, <1>11, CornersAtEdge, Zenon
<1>13. MapExtended(p) = InnerDiagonal(AtEdge(c.face, c.edge, b), EdgeCorner(c.edge, ~k))
  BY <1>9, <1>10, <1>12, Zenon
<1> QED BY <1>13, Zenon DEF p, b, k, r, c

\* A point beyond a corner of the cube, seen from the other edge there.
LEMMA FarTurn ==
  ASSUME NEW f, NEW e \in Edges, NEW h \in BOOLEAN
  PROVE  PointAt(f, e, -2, Far(h)) = PointAt(f, SideEdge(e, h), 2, Near(High(e)))
<1>1. Span \in Nat BY SpanPositive
<1>2. -Span - (-2) = 2 - Span /\ Span + (-2) = Span - 2 BY <1>1
<1>3. CASE h
  <2>1. h = TRUE BY <1>3
  <2> QED BY <1>2, <2>1 DEF PointAt, Far, Near, SideEdge, High, Vertical, Edges
<1>4. CASE ~h
  <2>1. h = FALSE BY <1>4
  <2> QED BY <1>2, <2>1 DEF PointAt, Far, Near, SideEdge, High, Vertical, Edges
<1> QED BY <1>3, <1>4

LEMMA FarNearReversed ==
  ASSUME NEW h \in BOOLEAN, NEW r \in BOOLEAN
  PROVE  Reversed(r, Far(h)) = Far(h # r) /\ Reversed(r, Near(h)) = Near(h # r)
<1>1. Span \in Nat BY SpanPositive
<1>2. CASE r
  <2>1. (h # r) = ~h BY <1>2, Zenon
  <2>2. Reversed(r, Far(h)) = Far(~h) /\ Reversed(r, Near(h)) = Near(~h)
    BY <1>1, <1>2 DEF Reversed, Far, Near
  <2> QED BY <2>1, <2>2, Zenon
<1>3. CASE ~r
  <2>1. (h # r) = h BY <1>3, Zenon
  <2>2. Reversed(r, Far(h)) = Far(h) /\ Reversed(r, Near(h)) = Near(h) BY <1>3 DEF Reversed
  <2> QED BY <2>1, <2>2, Zenon
<1> QED BY <1>2, <1>3

\* Across two edges, at a corner of the cube.
LEMMA ApronAtCubeCorner ==
  ASSUME NEW f \in Faces, NEW e \in Edges, NEW h \in BOOLEAN, Vertical(e)
  PROVE  LET c  == Connection(f)[e]
             k  == h # c.reversed
             c1 == Connection(c.face)[SideEdge(c.edge, k)]
             k1 == High(c.edge) # c1.reversed
         IN  MapExtended(ApronCorner(AtEdge(f, e, End(h)), EdgeCorner(e, h)))
               = InnerDiagonal(AtEdge(c1.face, c1.edge, End(k1)), EdgeCorner(c1.edge, k1))
<1> DEFINE c  == Connection(f)[e]
           k  == h # c.reversed
           o  == SideEdge(c.edge, k)
           c1 == Connection(c.face)[o]
           g  == High(c.edge)
           k1 == g # c1.reversed
           p  == ApronCorner(AtEdge(f, e, End(h)), EdgeCorner(e, h))
           q  == PointAt(c.face, o, 2, Near(g))
           z  == PointAt(c1.face, c1.edge, -2, Near(k1))
<1>1. c.face \in Faces /\ c.edge \in Edges /\ c.reversed \in BOOLEAN
  BY ConnectionType, ConnectionReverses
<1>2. k \in BOOLEAN BY <1>1, Exchange
<1>3. o \in Edges /\ g \in BOOLEAN
  <2>1. g \in BOOLEAN BY DEF High
  <2> HIDE DEF c, k
  <2>2. o \in Edges BY <1>1, <1>2, SideEdges, Zenon
  <2> QED BY <2>1, <2>2
<1>4. p = PointAt(f, e, 2, Far(h)) /\ Far(h) \in Int
  <2>1. End(h) \in 0 .. Side - 1 BY EndInRange
  <2>2. p = PointAt(f, e, 2, Outer(End(h), h)) BY <2>1, CornersAtEdge
  <2>3. Outer(End(h), h) = Far(h) /\ Far(h) \in Int BY <2>1, OuterRange
  <2> QED BY <2>2, <2>3, Zenon
<1> HIDE DEF p
<1>5. Crossed(p) = e /\ e # "none" /\ Transition(p) = PointAt(c.face, c.edge, -2, Reversed(c.reversed, Far(h)))
  BY <1>4, Crossing, Zenon
<1>6. Transition(p) = q
  <2>1. Reversed(c.reversed, Far(h)) = Far(k) BY <1>1, FarNearReversed, Zenon
  <2>2. PointAt(c.face, c.edge, -2, Far(k)) = q BY <1>1, <1>2, FarTurn, Zenon
  <2> QED BY <1>5, <2>1, <2>2, Zenon
<1> HIDE DEF c, k, o, g
<1>7. c1.face \in Faces /\ c1.edge \in Edges /\ c1.reversed \in BOOLEAN
  BY <1>1, <1>3, ConnectionType, ConnectionReverses
<1>8. k1 \in BOOLEAN BY <1>3, <1>7, Exchange
<1>9. Near(g) \in -Span .. Span /\ Near(g) \in Int /\ Near(k1) \in -Span .. Span
  <2>1. 0 \in 0 .. Side - 1 BY SidePositive
  <2>2. \A b \in BOOLEAN : Near(b) \in -Span .. Span BY <2>1, OuterRange
  <2> HIDE DEF k1
  <2> QED BY <1>3, <1>8, <2>2, SpanPositive
<1>10. Crossed(q) = o /\ o # "none" /\ Transition(q) = PointAt(c1.face, c1.edge, -2, Reversed(c1.reversed, Near(g)))
  BY <1>3, <1>9, Crossing, Zenon
<1>11. Transition(q) = z
  <2>1. Reversed(c1.reversed, Near(g)) = Near(k1) BY <1>3, <1>7, FarNearReversed, Zenon
  <2> QED BY <1>10, <2>1, Zenon
<1> HIDE DEF c1, k1
<1>12. Crossed(z) = "none" BY <1>7, <1>9, NoCrossing
<1> HIDE DEF q, z
<1>13. MapExtended(p) = z BY <1>5, <1>6, <1>10, <1>11, <1>12, MapUnfolds, Zenon DEF Mapping
<1>14. InnerDiagonal(AtEdge(c1.face, c1.edge, End(k1)), EdgeCorner(c1.edge, k1)) = z
  <2>1. End(k1) \in 0 .. Side - 1 BY <1>8, EndInRange
  <2>2. InnerDiagonal(AtEdge(c1.face, c1.edge, End(k1)), EdgeCorner(c1.edge, k1))
          = PointAt(c1.face, c1.edge, -2, Inner(End(k1), k1))
    BY <1>7, <1>8, <2>1, CornersAtEdge, Zenon
  <2>3. Inner(End(k1), k1) = Near(k1) BY <1>8, <2>1, OuterRange
  <2> QED BY <2>2, <2>3, Zenon DEF z
<1>15. MapExtended(p) = InnerDiagonal(AtEdge(c1.face, c1.edge, End(k1)), EdgeCorner(c1.edge, k1))
  BY <1>13, <1>14, Zenon
<1> QED BY <1>15, Zenon DEF p, k1, g, c1, o, k, c

\* The ring of a corner leads where the apron leads: on one face,
LEMMA ApronOnFace ==
  ASSUME tile \in Tiles, NEW e \in Edges, NEW h \in BOOLEAN, corner = EdgeCorner(e, h),
         Vertical(e), ~AtBorder(tile, e), ~AtBorder(tile, SideEdge(e, h))
  PROVE  MapExtended(ApronCorner(tile, corner)) = InnerDiagonal(Ring(e)[1].tile, Ring(e)[1].corner)
<1> DEFINE b == Beside(tile, SideEdge(e, h))
           n == Neighbor(tile, e)
           m == Neighbor(b, e)
<1>1. Ring(e)[1].tile = m.key /\ Ring(e)[1].corner = EdgeCorner(n.edge, ~(h # n.reversed))
  BY FourPlaces, Zenon
<1>2. n.edge = Opposite(e) /\ n.reversed = FALSE BY DEF Neighbor
<1>3. ~AtBorder(b, e) BY DEF AtBorder, Beside, SideEdge, Vertical, Edges, Tiles
<1>4. m.key = Beside(b, e) BY <1>3 DEF Neighbor
<1>5. MapExtended(ApronCorner(tile, EdgeCorner(e, h)))
        = InnerDiagonal(Beside(b, e), EdgeCorner(Opposite(e), ~h))
  BY ApronWithin, Zenon
<1> HIDE DEF b, n, m
<1>6. (h # n.reversed) = h BY <1>2, Zenon
<1> QED BY <1>1, <1>2, <1>4, <1>5, <1>6, Zenon

\* and across one edge of it.
LEMMA ApronAtEdge ==
  ASSUME tile \in Tiles, NEW e \in Edges, NEW h \in BOOLEAN, corner = EdgeCorner(e, h),
         AtBorder(tile, e), ~AtBorder(tile, SideEdge(e, h))
  PROVE  MapExtended(ApronCorner(tile, corner)) = InnerDiagonal(Ring(e)[1].tile, Ring(e)[1].corner)
<1> DEFINE f == tile.face
           a == Along(tile, e)
           b == Beside(tile, SideEdge(e, h))
           n == Neighbor(tile, e)
           m == Neighbor(b, e)
           c == Connection(f)[e]
           g == Mirror(c.reversed, Toward(a, h))
<1>1. Ring(e)[1].tile = m.key /\ Ring(e)[1].corner = EdgeCorner(n.edge, ~(h # n.reversed))
  BY FourPlaces, Zenon
<1>2. n.edge = c.edge /\ n.reversed = c.reversed BY DEF Neighbor
<1>3. f \in Faces /\ a \in 0 .. Side - 1 /\ tile = AtEdge(f, e, a) BY AtEdgeOf DEF Tiles
<1>4. a # End(h) /\ Toward(a, h) \in 0 .. Side - 1 /\ b = AtEdge(f, e, Toward(a, h))
  BY <1>3, AtEdgeBeside
<1>5. AtBorder(b, e) /\ b.face = f BY <1>3, <1>4, AtEdgeType
<1>6. m.key = Across(b, e) BY <1>5 DEF Neighbor
<1>7. m.key = AtEdge(c.face, c.edge, g) BY <1>3, <1>4, <1>6, AtEdgeAcross
<1> HIDE DEF f, a, b, n, m
<1>8. MapExtended(ApronCorner(AtEdge(f, e, a), EdgeCorner(e, h)))
        = InnerDiagonal(AtEdge(c.face, c.edge, g), EdgeCorner(c.edge, ~(h # c.reversed)))
  BY <1>3, <1>4, ApronAcross, Zenon
<1> HIDE DEF c, g
<1> QED BY <1>1, <1>2, <1>3, <1>7, <1>8, Zenon

\* and at a corner of the cube.
LEMMA ApronAtThree ==
  ASSUME tile \in Tiles, NEW e \in Edges, NEW h \in BOOLEAN, corner = EdgeCorner(e, h),
         Vertical(e), AtBorder(tile, e), AtBorder(tile, SideEdge(e, h))
  PROVE  MapExtended(ApronCorner(tile, corner)) = InnerDiagonal(Ring(e)[1].tile, Ring(e)[1].corner)
<1> DEFINE f  == tile.face
           c  == Connection(f)[e]
           k  == h # c.reversed
           c1 == Connection(c.face)[SideEdge(c.edge, k)]
           k1 == High(c.edge) # c1.reversed
<1>1. tile = AtEdge(f, e, End(h)) /\ Ring(e)[1] = CubePlace(c1.face, c1.edge, k1)
  BY ThreePlaces, Zenon
<1>2. f \in Faces BY DEF Tiles
<1> HIDE DEF f
<1>3. MapExtended(ApronCorner(AtEdge(f, e, End(h)), EdgeCorner(e, h)))
        = InnerDiagonal(AtEdge(c1.face, c1.edge, End(k1)), EdgeCorner(c1.edge, k1))
  BY <1>2, ApronAtCubeCorner, Zenon
<1> HIDE DEF c1, k1
<1>4. /\ Ring(e)[1].tile = AtEdge(c1.face, c1.edge, End(k1))
      /\ Ring(e)[1].corner = EdgeCorner(c1.edge, k1)
  BY <1>1 DEF CubePlace, Place
<1> QED BY <1>1, <1>3, <1>4, Zenon

LEMMA ApronAnywhere == Standing => ApronCornerInside
<1> SUFFICES ASSUME Standing PROVE ApronCornerInside
  OBVIOUS
<1>1. tile \in Tiles /\ corner \in Corners BY DEF Standing
<1>2. PICK e \in Edges, h \in BOOLEAN :
        /\ Vertical(e) /\ SideEdge(e, h) \in Edges /\ High(e) \in BOOLEAN
        /\ corner = EdgeCorner(e, h) /\ corner = EdgeCorner(SideEdge(e, h), High(e))
        /\ SideEdge(SideEdge(e, h), High(e)) = e
        /\ EdgesAt(corner) = {e, SideEdge(e, h)}
  BY <1>1, CornerAsEnd, Zenon
<1> DEFINE o == SideEdge(e, h)
           Inside(d) == MapExtended(ApronCorner(tile, corner)) = InnerDiagonal(Ring(d)[1].tile, Ring(d)[1].corner)
<1>3. e \in EdgesAt(corner) /\ o \in EdgesAt(corner) BY <1>2
<1> HIDE DEF o
<1>4. CASE ~AtBorder(tile, e) /\ ~AtBorder(tile, o)
  <2>1. Inside(e) BY <1>1, <1>2, <1>4, ApronOnFace, Zenon DEF o
  <2> QED BY <1>3, <2>1, Zenon DEF ApronCornerInside
<1>5. CASE AtBorder(tile, e) /\ ~AtBorder(tile, o)
  <2>1. Inside(e) BY <1>1, <1>2, <1>5, ApronAtEdge, Zenon DEF o
  <2> QED BY <1>3, <2>1, Zenon DEF ApronCornerInside
<1>6. CASE ~AtBorder(tile, e) /\ AtBorder(tile, o)
  <2>1. Inside(o) BY <1>1, <1>2, <1>6, ApronAtEdge, Zenon DEF o
  <2> QED BY <1>3, <2>1, Zenon DEF ApronCornerInside
<1>7. CASE AtBorder(tile, e) /\ AtBorder(tile, o)
  <2>1. Inside(e) BY <1>1, <1>2, <1>7, ApronAtThree, Zenon DEF o
  <2> QED BY <1>3, <2>1, Zenon DEF ApronCornerInside
<1> QED BY <1>4, <1>5, <1>6, <1>7

\* At every level of the tiles and whatever the lattice, the tiles around a corner
\* close up, four of them or three at a corner of the cube, the topology names
\* their owner as the seams do, and the corner of an apron is sampled inside the
\* tile diagonally across (qsc_tile_neighbor and qsc_corner_owner,
\* qsc_topology.cpp:88-183; map_extended_coordinate, tile_staging.cpp).
THEOREM CornersAlwaysMeet == WalkSpec => []CornersMeet
<1>1. Standing => CornersMeet BY CloseAnywhere, OwnersAnywhere, ApronAnywhere DEF CornersMeet
<1> QED BY <1>1, WalkStays, PTL

-----------------------------------------------------------------------------
(* Seams. The samples of a tile: those inside an edge tell which edge it is  *)
(* and how far along, those at its corners which corner.                     *)

LEMMA LatticeAssumption == Cells \in Nat /\ Cells > 1 /\ Last = Cells
BY SeamAssumption, CellsAssumption DEF Last

LEMMA EdgeSamplesDiffer ==
  ASSUME NEW e \in Edges, NEW d \in Edges, NEW p \in 1 .. Last - 1, NEW q \in 1 .. Last - 1,
         EdgeSample(e, p) = EdgeSample(d, q)
  PROVE  e = d /\ p = q
<1>1. \A a, b, u, v : <<a, b>> = <<u, v>> => a = u /\ b = v OBVIOUS
<1>2. p # 0 /\ p # Last /\ q # 0 /\ q # Last /\ Last # 0 BY LatticeAssumption
<1> QED BY <1>1, <1>2 DEF EdgeSample, Edges

LEMMA CornerSamplesDiffer ==
  ASSUME NEW c \in Corners, NEW d \in Corners, CornerSample(c) = CornerSample(d)
  PROVE  c = d
<1>1. \A a, b, u, v : <<a, b>> = <<u, v>> => a = u /\ b = v OBVIOUS
<1>2. Last # 0 BY LatticeAssumption
<1> QED BY <1>1, <1>2 DEF CornerSample, Corners

LEMMA EdgesWithoutCorners ==
  ASSUME NEW e \in Edges, NEW p \in 1 .. Last - 1, NEW c \in Corners
  PROVE  EdgeSample(e, p) # CornerSample(c)
<1>1. \A a, b, u, v : <<a, b>> = <<u, v>> => a = u /\ b = v OBVIOUS
<1>2. p # 0 /\ p # Last /\ Last # 0 BY LatticeAssumption
<1> QED BY <1>1, <1>2 DEF EdgeSample, CornerSample, Edges, Corners

LEMMA MappedInside ==
  ASSUME NEW n, NEW p \in 1 .. Last - 1, NEW q \in 1 .. Last - 1
  PROVE  /\ Mapped(n, p) \in 1 .. Last - 1
         /\ Mapped(n, p) = Mapped(n, q) => p = q
         /\ \A m : (m.reversed <=> n.reversed) => Mapped(m, Mapped(n, p)) = p
BY LatticeAssumption DEF Mapped

-----------------------------------------------------------------------------
(* The patches of a level *)

\* The patch that carries a sample across an edge.
EdgePatch(t, e, p) ==
  LET n == Neighbor(t, e)
  IN  Patch(n.key, EdgeSample(n.edge, Mapped(n, p)), t, EdgeSample(e, p))

LEMMA EdgePatchOf ==
  ASSUME NEW T, NEW p
  PROVE  p \in EdgePatches(T) <=>
           \E t \in T, e \in Edges, i \in 1 .. Last - 1 :
             <<t, e>> \in Owned(T) /\ p = EdgePatch(t, e, i)
<1> DEFINE Of(o) == EdgePatch(o[1][1], o[1][2], o[2])
<1>1. EdgePatches(T) = {Of(o) : o \in Owned(T) \X (1 .. Last - 1)} BY DEF EdgePatches, EdgePatch
<1>2. ASSUME NEW o \in Owned(T) \X (1 .. Last - 1)
      PROVE  /\ o[1][1] \in T /\ o[1][2] \in Edges /\ o[2] \in 1 .. Last - 1
             /\ <<o[1][1], o[1][2]>> \in Owned(T)
  BY DEF Owned
<1>3. ASSUME NEW t \in T, NEW e \in Edges, NEW i \in 1 .. Last - 1, <<t, e>> \in Owned(T)
      PROVE  \E o \in Owned(T) \X (1 .. Last - 1) : o[1][1] = t /\ o[1][2] = e /\ o[2] = i
  <2>1. <<<<t, e>>, i>> \in Owned(T) \X (1 .. Last - 1) BY <1>3
  <2> QED BY <2>1
<1>4. \A o : Of(o) = EdgePatch(o[1][1], o[1][2], o[2]) OBVIOUS
<1> HIDE DEF Of
<1>5. ASSUME p \in EdgePatches(T)
      PROVE  \E t \in T, e \in Edges, i \in 1 .. Last - 1 : <<t, e>> \in Owned(T) /\ p = EdgePatch(t, e, i)
  <2>1. PICK o \in Owned(T) \X (1 .. Last - 1) : p = Of(o) BY <1>1, <1>5
  <2> QED BY <1>2, <1>4, <2>1, Zenon
<1>6. ASSUME NEW t \in T, NEW e \in Edges, NEW i \in 1 .. Last - 1, <<t, e>> \in Owned(T), p = EdgePatch(t, e, i)
      PROVE  p \in EdgePatches(T)
  <2>1. PICK o \in Owned(T) \X (1 .. Last - 1) : o[1][1] = t /\ o[1][2] = e /\ o[2] = i BY <1>3, <1>6
  <2>2. p = Of(o) BY <1>4, <1>6, <2>1, Zenon
  <2> QED BY <1>1, <2>2
<1> QED BY <1>5, <1>6

LEMMA OwnedMeans ==
  ASSUME NEW T \in SUBSET Tiles, NEW t \in T, NEW e \in Edges
  PROVE  <<t, e>> \in Owned(T) <=> Neighbor(t, e).key \in T /\ Key(t) < Key(Neighbor(t, e).key)
BY DEF Owned

LEMMA KeyType == \A t \in Tiles : Key(t) \in Nat
<1> SUFFICES ASSUME NEW t \in Tiles PROVE Key(t) \in Nat
  OBVIOUS
<1> DEFINE i == Interleave[<<t.x, t.y>>]
<1>1. Side \in Nat /\ Side * Side \in Nat BY SidePositive
<1>2. t.face \in Nat /\ t.x \in Nat /\ t.y \in Nat /\ t.x < Side /\ t.y < Side
  BY <1>1 DEF Tiles, Faces
<1>3. i \in Nat BY <1>2, LevelAssumption, InterleaveBound
<1>4. t.face * Side * Side = t.face * (Side * Side) /\ t.face * (Side * Side) \in Nat BY <1>1, <1>2
<1> QED BY <1>3, <1>4 DEF Key

LEMMA RankType == \A node \in Tiles \X Corners : Rank(node) \in Nat
BY KeyType DEF Rank, Corners

LEMMA TilesFinite == IsFiniteSet(Tiles)
<1> DEFINE P == Faces \X ((0 .. Side - 1) \X (0 .. Side - 1))
           f == [p \in P |-> [face |-> p[1], x |-> p[2][1], y |-> p[2][2]]]
<1>1. IsFiniteSet(Faces)
  <2>1. 0 \in Int /\ 5 \in Int OBVIOUS
  <2> QED BY <2>1, FS_Interval, Zenon DEF Faces
<1>2. IsFiniteSet(0 .. Side - 1) BY FS_Interval, SidePositive
<1>3. IsFiniteSet(P) BY <1>1, <1>2, FS_Product
<1>4. f \in Surjection(P, Tiles)
  <2>1. f \in [P -> Tiles] BY DEF Tiles
  <2>2. ASSUME NEW t \in Tiles PROVE \E p \in P : f[p] = t
    <3>1. <<t.face, <<t.x, t.y>>>> \in P BY DEF Tiles
    <3>2. f[<<t.face, <<t.x, t.y>>>>] = t BY <3>1 DEF Tiles
    <3> QED BY <3>1, <3>2
  <2> HIDE DEF f, P
  <2> QED BY <2>1, <2>2 DEF Surjection
<1> HIDE DEF f, P
<1> QED BY <1>3, <1>4, FS_Surjection

\* The nodes that are united have a lowest one.
LEMMA OwnerOfGroup ==
  ASSUME NEW T \in SUBSET Tiles, NEW root, DOMAIN root = T \X Corners, NEW node \in DOMAIN root
  PROVE  LET w == CornerOwners(root)[root[node]]
         IN  /\ w \in DOMAIN root /\ root[w] = root[node]
             /\ \A o \in DOMAIN root : root[o] = root[node] => Rank(w) <= Rank(o)
<1> DEFINE r == root[node]
           group == {m \in DOMAIN root : root[m] = r}
           ranks == {Rank(m) : m \in group}
<1>1. group \subseteq Tiles \X Corners /\ node \in group OBVIOUS
<1> HIDE DEF group
<1>2. ranks \in SUBSET Nat /\ ranks # {} BY <1>1, RankType
<1> HIDE DEF ranks
<1>3. PICK least \in ranks : \A n \in ranks : least <= n BY <1>2, LeastNatural
<1>4. PICK m \in group : least = Rank(m) BY <1>3 DEF ranks
<1>5. \A o \in group : Rank(m) <= Rank(o) BY <1>3, <1>4 DEF ranks
<1> DEFINE w == CHOOSE v \in group : \A o \in group : Rank(v) <= Rank(o)
<1>6. w \in group /\ \A o \in group : Rank(w) <= Rank(o) BY <1>5
<1>7. r \in Range(root) BY DEF Range
<1>8. CornerOwners(root)[r] = w BY <1>7 DEF CornerOwners, group
<1> HIDE DEF w
<1> QED BY <1>6, <1>8 DEF group

LEMMA ThereAndBack ==
  ASSUME NEW t \in Tiles, NEW e \in Edges
  PROVE  /\ Neighbor(t, e).key \in Tiles /\ Neighbor(t, e).edge \in Edges
         /\ Neighbor(Neighbor(t, e).key, Neighbor(t, e).edge).key = t
         /\ Neighbor(Neighbor(t, e).key, Neighbor(t, e).edge).edge = e
<1> DEFINE n == Neighbor(t, e)
           b == Neighbor(n.key, n.edge)
<1>1. n.key \in Tiles /\ n.edge \in Edges /\ b.key = t /\ b.edge = e BY NeighborReciprocal
<1> QED BY <1>1

\* Two patches across edges that write one sample are one patch.
LEMMA EdgePatchesDiffer ==
  ASSUME NEW t \in Tiles, NEW e \in Edges, NEW i \in 1 .. Last - 1,
         NEW u \in Tiles, NEW d \in Edges, NEW j \in 1 .. Last - 1,
         EdgePatch(t, e, i).receiver = EdgePatch(u, d, j).receiver,
         EdgePatch(t, e, i).sample = EdgePatch(u, d, j).sample
  PROVE  EdgePatch(t, e, i) = EdgePatch(u, d, j)
<1> DEFINE n == Neighbor(t, e)
           m == Neighbor(u, d)
<1>1. n.key \in Tiles /\ n.edge \in Edges /\ m.key \in Tiles /\ m.edge \in Edges BY NeighborReciprocal, Zenon
<1>2. Mapped(n, i) \in 1 .. Last - 1 /\ Mapped(m, j) \in 1 .. Last - 1 BY MappedInside
<1>3. n.key = m.key /\ EdgeSample(n.edge, Mapped(n, i)) = EdgeSample(m.edge, Mapped(m, j))
  BY DEF EdgePatch, Patch
<1>8. /\ Neighbor(n.key, n.edge).key = t /\ Neighbor(n.key, n.edge).edge = e
      /\ Neighbor(m.key, m.edge).key = u /\ Neighbor(m.key, m.edge).edge = d
  BY ThereAndBack
<1> HIDE DEF n, m
<1>4. n.edge = m.edge /\ Mapped(n, i) = Mapped(m, j) BY <1>1, <1>2, <1>3, EdgeSamplesDiffer
<1>5. t = u /\ e = d BY <1>3, <1>4, <1>8
<1>6. n = m BY <1>5 DEF n, m
<1>7. i = j BY <1>4, <1>6, MappedInside
<1> QED BY <1>5, <1>7

LEMMA CornerPatchOf ==
  ASSUME NEW T \in SUBSET Tiles, NEW p \in CornerPatches(T)
  PROVE  LET root == CornerRoots(T)
         IN  \E node \in T \X Corners, w \in T \X Corners :
               /\ w = CornerOwners(root)[root[node]] /\ w # node
               /\ CornerOwners(root)[root[w]] = w
               /\ p = Patch(node[1], CornerSample(node[2]), w[1], CornerSample(w[2]))
<1> DEFINE root == CornerRoots(T)
           owner == CornerOwners(root)
<1>1. DOMAIN root = T \X Corners BY DEF CornerRoots, CornerNodes
<1> HIDE DEF root
<1>2. p \in PatchesFrom(root, owner) BY DEF CornerPatches, root
<1>3. PICK node \in DOMAIN root :
        /\ owner[root[node]] # node
        /\ p = Patch(node[1], CornerSample(node[2]),
                     owner[root[node]][1], CornerSample(owner[root[node]][2]))
  BY <1>2 DEF PatchesFrom
<1> DEFINE w == owner[root[node]]
<1>4. w \in DOMAIN root /\ root[w] = root[node] 
  <2>1. \A f, n : DOMAIN f = T \X Corners /\ n \in DOMAIN f =>
          CornerOwners(f)[f[n]] \in DOMAIN f /\ f[CornerOwners(f)[f[n]]] = f[n]
    BY OwnerOfGroup, ZenonT(60)
  <2> QED BY <1>1, <2>1, Zenon
<1> HIDE DEF owner
<1>5. w \in T \X Corners /\ node \in T \X Corners /\ owner[root[w]] = w BY <1>1, <1>4
<1> QED BY <1>3, <1>5 DEF owner, root

\* Each patch of a batch writes a sample of its own, which no patch of it reads.
Independent(patches) ==
  /\ \A p, q \in patches : p.receiver = q.receiver /\ p.sample = q.sample => p = q
  /\ \A p, q \in patches : p.owner = q.receiver => p.from # q.sample

LEMMA PatchesApart ==
  ASSUME NEW T \in SUBSET Tiles
  PROVE  Independent(Patches(T))
<1> DEFINE E == EdgePatches(T)
           C == CornerPatches(T)
           root == CornerRoots(T)
           owner == CornerOwners(root)
<1>1. ASSUME NEW p \in E
      PROVE  \E t \in T, e \in Edges, i \in 1 .. Last - 1 :
               /\ <<t, e>> \in Owned(T) /\ p = EdgePatch(t, e, i)
               /\ p.owner = t /\ p.from = EdgeSample(e, i)
               /\ p.receiver = Neighbor(t, e).key
               /\ p.sample = EdgeSample(Neighbor(t, e).edge, Mapped(Neighbor(t, e), i))
               /\ Mapped(Neighbor(t, e), i) \in 1 .. Last - 1
               /\ Neighbor(t, e).edge \in Edges
  <2>1. PICK t \in T, e \in Edges, i \in 1 .. Last - 1 : <<t, e>> \in Owned(T) /\ p = EdgePatch(t, e, i)
    BY <1>1, EdgePatchOf
  <2>2. Mapped(Neighbor(t, e), i) \in 1 .. Last - 1 BY MappedInside
  <2>3. Neighbor(t, e).edge \in Edges BY NeighborReciprocal, Zenon
  <2> QED BY <2>1, <2>2, <2>3 DEF EdgePatch, Patch
<1>2. ASSUME NEW p \in C
      PROVE  \E node \in T \X Corners, w \in T \X Corners :
               /\ w = owner[root[node]] /\ w # node /\ owner[root[w]] = w
               /\ p = Patch(node[1], CornerSample(node[2]), w[1], CornerSample(w[2]))
               /\ p.owner = w[1] /\ p.from = CornerSample(w[2])
               /\ p.receiver = node[1] /\ p.sample = CornerSample(node[2])
               /\ w[2] \in Corners /\ node[2] \in Corners
  <2>1. PICK node \in T \X Corners, w \in T \X Corners :
               /\ w = owner[root[node]] /\ w # node /\ owner[root[w]] = w
               /\ p = Patch(node[1], CornerSample(node[2]), w[1], CornerSample(w[2]))
    BY CornerPatchOf
  <2> HIDE DEF owner, root
  <2> QED BY <2>1 DEF Patch
<1> HIDE DEF E, C, root, owner
<1>3. ASSUME NEW p \in E, NEW q \in C
      PROVE  p.sample # q.sample /\ p.from # q.sample /\ q.from # p.sample
  <2>1. PICK t \in T, e \in Edges, i \in 1 .. Last - 1 :
          /\ p.from = EdgeSample(e, i)
          /\ p.sample = EdgeSample(Neighbor(t, e).edge, Mapped(Neighbor(t, e), i))
          /\ Mapped(Neighbor(t, e), i) \in 1 .. Last - 1
          /\ Neighbor(t, e).edge \in Edges
    BY <1>1, Zenon
  <2>2. PICK c \in Corners, b \in Corners : q.from = CornerSample(c) /\ q.sample = CornerSample(b)
    BY <1>2
  <2> QED BY <2>1, <2>2, EdgesWithoutCorners
<1>4. ASSUME NEW p \in E, NEW q \in E
      PROVE  /\ p.receiver = q.receiver /\ p.sample = q.sample => p = q
             /\ p.owner = q.receiver => p.from # q.sample
  <2>1. PICK t \in T, e \in Edges, i \in 1 .. Last - 1 :
               /\ <<t, e>> \in Owned(T) /\ p = EdgePatch(t, e, i)
               /\ p.owner = t /\ p.from = EdgeSample(e, i)
    BY ZenonT(60), <1>1
  <2>2. PICK u \in T, d \in Edges, j \in 1 .. Last - 1 :
               /\ <<u, d>> \in Owned(T) /\ q = EdgePatch(u, d, j)
               /\ q.receiver = Neighbor(u, d).key
               /\ q.sample = EdgeSample(Neighbor(u, d).edge, Mapped(Neighbor(u, d), j))
               /\ Mapped(Neighbor(u, d), j) \in 1 .. Last - 1
               /\ Neighbor(u, d).edge \in Edges
    BY <1>1
  <2>3. ASSUME p.receiver = q.receiver, p.sample = q.sample PROVE p = q
    BY <2>1, <2>2, <2>3, EdgePatchesDiffer
  <2>4. ASSUME p.owner = q.receiver, p.from = q.sample PROVE FALSE
    <3>0. EdgeSample(e, i) = EdgeSample(Neighbor(u, d).edge, Mapped(Neighbor(u, d), j))
      BY <2>1, <2>2, <2>4, Zenon
    <3>1. t = Neighbor(u, d).key /\ e = Neighbor(u, d).edge
      <4>1. \A a, b \in Edges, x, y \in 1 .. Last - 1 : EdgeSample(a, x) = EdgeSample(b, y) => a = b
        BY EdgeSamplesDiffer, Zenon
      <4> QED BY <2>1, <2>2, <2>4, <3>0, <4>1, Zenon
    <3>2. Neighbor(t, e).key = u BY <3>1, NeighborReciprocal, ZenonT(60)
    <3>3. Key(t) < Key(u) /\ Key(u) < Key(t) BY <2>1, <2>2, <3>1, <3>2, OwnedMeans
    <3> QED BY <3>3, KeyType
  <2> QED BY <2>3, <2>4
<1>5. ASSUME NEW p \in C, NEW q \in C
      PROVE  /\ p.receiver = q.receiver /\ p.sample = q.sample => p = q
             /\ p.owner = q.receiver => p.from # q.sample
  <2>1. PICK node \in T \X Corners, w \in T \X Corners :
               /\ w = owner[root[node]] /\ w # node /\ owner[root[w]] = w
               /\ p = Patch(node[1], CornerSample(node[2]), w[1], CornerSample(w[2]))
               /\ p.owner = w[1] /\ p.from = CornerSample(w[2])
               /\ p.receiver = node[1] /\ p.sample = CornerSample(node[2])
               /\ w[2] \in Corners /\ node[2] \in Corners
    BY <1>2
  <2>2. PICK other \in T \X Corners, v \in T \X Corners :
               /\ v = owner[root[other]] /\ v # other /\ owner[root[v]] = v
               /\ q = Patch(other[1], CornerSample(other[2]), v[1], CornerSample(v[2]))
               /\ q.receiver = other[1] /\ q.sample = CornerSample(other[2])
               /\ v[2] \in Corners /\ other[2] \in Corners
    BY <1>2
  <2>3. \A a, b \in T \X Corners : a[1] = b[1] /\ a[2] = b[2] => a = b OBVIOUS
  <2>4. ASSUME p.receiver = q.receiver, p.sample = q.sample PROVE p = q
    <3>1. node[2] = other[2]
      <4>1. CornerSample(node[2]) = CornerSample(other[2]) BY <2>1, <2>2, <2>4, Zenon
      <4> QED BY <2>1, <2>2, <4>1, CornerSamplesDiffer, Zenon
    <3>2. node = other BY <2>1, <2>2, <2>3, <2>4, <3>1
    <3> QED BY <2>1, <2>2, <3>2, Zenon
  <2>5. ASSUME p.owner = q.receiver, p.from = q.sample PROVE FALSE
    <3>1. w[2] = other[2]
      <4>1. CornerSample(w[2]) = CornerSample(other[2]) BY <2>1, <2>2, <2>5, Zenon
      <4> QED BY <2>1, <2>2, <4>1, CornerSamplesDiffer, Zenon
    <3>2. w = other BY ZenonT(60), <2>1, <2>2, <2>3, <2>5, <3>1
    <3> QED BY <2>1, <2>2, <3>2, Zenon
  <2> QED BY <2>4, <2>5
<1>6. Patches(T) = E \cup C BY DEF Patches, E, C
<1> QED BY <1>3, <1>4, <1>5, <1>6 DEF Independent

LEMMA PatchesFinite ==
  ASSUME NEW T \in SUBSET Tiles
  PROVE  IsFiniteSet(Patches(T))
<1>1. IsFiniteSet(T) /\ IsFiniteSet(Edges) /\ IsFiniteSet(Corners) /\ IsFiniteSet(1 .. Last - 1)
  <2>1. IsFiniteSet(T) BY TilesFinite, FS_Subset
  <2>2. IsFiniteSet({"west"}) BY FS_Singleton
  <2>3. \A S, x : IsFiniteSet(S) => IsFiniteSet(S \cup {x}) BY FS_AddElement
  <2>4. Edges = (({"west"} \cup {"east"}) \cup {"south"}) \cup {"north"} BY DEF Edges
  <2>5. Corners = (({"sw"} \cup {"se"}) \cup {"nw"}) \cup {"ne"} BY DEF Corners
  <2>6. IsFiniteSet({"sw"}) BY FS_Singleton
  <2>7. 1 \in Int /\ Last - 1 \in Int BY LatticeAssumption
  <2>8. IsFiniteSet(1 .. Last - 1) BY <2>7, FS_Interval
  <2> QED BY <2>1, <2>2, <2>3, <2>4, <2>5, <2>6, <2>8
<1> DEFINE O == T \X (Edges \X (1 .. Last - 1))
           N == T \X Corners
<1>2. IsFiniteSet(O) /\ IsFiniteSet(N) BY <1>1, FS_Product
<1>3. IsFiniteSet(EdgePatches(T))
  <2> DEFINE I == {EdgePatch(o[1], o[2][1], o[2][2]) : o \in O}
             f == [o \in O |-> EdgePatch(o[1], o[2][1], o[2][2])]
  <2>1. f \in Surjection(O, I) BY DEF Surjection
  <2>2. IsFiniteSet(I)
    <3> HIDE DEF O, I, f
    <3> QED BY <1>2, <2>1, FS_Surjection
  <2>3. EdgePatches(T) \subseteq I
    <3> SUFFICES ASSUME NEW p \in EdgePatches(T) PROVE p \in I
      OBVIOUS
    <3>1. PICK t \in T, e \in Edges, i \in 1 .. Last - 1 : <<t, e>> \in Owned(T) /\ p = EdgePatch(t, e, i)
      BY EdgePatchOf
    <3>2. <<t, <<e, i>>>> \in O OBVIOUS
    <3> QED BY <3>1, <3>2
  <2> HIDE DEF I
  <2> QED BY <2>2, <2>3, FS_Subset
<1>4. IsFiniteSet(CornerPatches(T))
  <2> DEFINE root == CornerRoots(T)
             owner == CornerOwners(root)
             Of(node) == Patch(node[1], CornerSample(node[2]), owner[root[node]][1], CornerSample(owner[root[node]][2]))
             I == {Of(node) : node \in N}
             f == [node \in N |-> Of(node)]
  <2>1. f \in Surjection(N, I) BY DEF Surjection
  <2>2. IsFiniteSet(I)
    <3> HIDE DEF N, I, f
    <3> QED BY <1>2, <2>1, FS_Surjection
  <2>3. DOMAIN root = N BY DEF CornerRoots, CornerNodes
  <2> HIDE DEF root, owner
  <2>4. PatchesFrom(root, owner) \subseteq I BY <2>3 DEF PatchesFrom
  <2>5. CornerPatches(T) \subseteq I BY <2>4 DEF CornerPatches, root, owner
  <2> HIDE DEF I
  <2> QED BY <2>2, <2>5, FS_Subset
<1> QED BY <1>3, <1>4, FS_Union DEF Patches

LEMMA LevelOfTiles == SeamSpec => [](level \in Levels)
<1>1. SeamInit => level \in Levels BY DEF SeamInit
<1>2. level \in Levels /\ [SeamNext]_seamVars => (level \in Levels)'
  BY DEF SeamNext, seamVars, FinalizeTile, Release
<1> QED BY <1>1, <1>2, PTL DEF SeamSpec

\* On any set of tiles, of any level and any lattice, every sample receives one
\* patch at most, and none that another patch reads (resolve_elevation_boundaries,
\* tile_staging.cpp:692-799): applying them in place, in any order, is right.
THEOREM PatchesAlwaysIndependent == SeamSpec => []PatchesIndependent
<1>1. level \in Levels => PatchesIndependent
  <2> SUFFICES ASSUME level \in Levels PROVE PatchesIndependent
    OBVIOUS
  <2> DEFINE patches == Patches(level)
             received == {<<p.receiver, p.sample>> : p \in patches}
             f == [p \in patches |-> <<p.receiver, p.sample>>]
  <2>1. level \in SUBSET Tiles BY SeamAssumption
  <2>2. Independent(patches) /\ IsFiniteSet(patches) BY <2>1, PatchesApart, PatchesFinite
  <2> HIDE DEF patches
  <2>3. f \in Surjection(patches, received) BY DEF Surjection
  <2>4. f \in Injection(patches, received)
    <3>1. \A a, b, c, d : <<a, b>> = <<c, d>> => a = c /\ b = d OBVIOUS
    <3>2. \A p, q \in patches : f[p] = f[q] => p = q BY <2>2, <3>1 DEF Independent
    <3>3. f \in [patches -> received] OBVIOUS
    <3> HIDE DEF f, received
    <3> QED BY <3>2, <3>3 DEF Injection, IsInjective
  <2>5. \A p \in patches : <<p.owner, p.from>> \notin received BY <2>2 DEF Independent
  <2> HIDE DEF f, received
  <2>6. Cardinality(received) = Cardinality(patches) BY <2>2, <2>3, <2>4, FS_Surjection
  <2> QED BY <2>5, <2>6 DEF PatchesIndependent, patches, received
<1> QED BY <1>1, LevelOfTiles, PTL

-----------------------------------------------------------------------------
(* Uniting. The corners of a batch are united along its edges, one pair      *)
(* after the other. A function gives the root of every node; it is unique,   *)
(* because ranks fall on the way to a root.                                  *)

\* What is made of every set of pairs.
Uniting(base, S) ==
  LET iter[s \in SUBSET S] ==
        IF s = {} THEN base
        ELSE LET x == CHOOSE x \in s : TRUE IN Unite(x, iter[s \ {x}])
  IN  iter

Pick(s) == CHOOSE x \in s : TRUE

UniteOne(base, g, s) == IF s = {} THEN base ELSE Unite(Pick(s), g[s \ {Pick(s)}])

Small(S, n) == {s \in SUBSET S : Cardinality(s) <= n}

LEMMA PickSmaller ==
  ASSUME NEW S, IsFiniteSet(S), NEW n \in Nat, NEW s \in Small(S, n + 1), s # {}
  PROVE  Pick(s) \in s /\ s \ {Pick(s)} \in Small(S, n)
<1>1. Pick(s) \in s BY DEF Pick
<1>2. IsFiniteSet(s) BY FS_Subset DEF Small
<1>3. Cardinality(s) \in Nat /\ Cardinality(s) <= n + 1 BY <1>2, FS_CardinalityType DEF Small
<1>4. Cardinality(s \ {Pick(s)}) = Cardinality(s) - 1 BY <1>1, <1>2, FS_RemoveElement
<1>5. s \ {Pick(s)} \in SUBSET S BY DEF Small
<1> QED BY <1>1, <1>3, <1>4, <1>5 DEF Small

LEMMA UnitingExists ==
  ASSUME NEW base, NEW S, IsFiniteSet(S)
  PROVE  \E g : g = [s \in SUBSET S |-> UniteOne(base, g, s)]
<1> DEFINE Known == {n \in Nat : \E g : g = [s \in Small(S, n) |-> UniteOne(base, g, s)]}
<1>1. 0 \in Known
  <2> DEFINE g == [s \in Small(S, 0) |-> base]
  <2>1. \A s \in Small(S, 0) : s = {}
    <3> SUFFICES ASSUME NEW s \in Small(S, 0) PROVE s = {}
      OBVIOUS
    <3>1. IsFiniteSet(s) BY FS_Subset DEF Small
    <3>2. Cardinality(s) \in Nat /\ Cardinality(s) <= 0 BY <3>1, FS_CardinalityType DEF Small
    <3>3. Cardinality(s) = 0 BY <3>2
    <3> QED BY <3>1, <3>3, FS_EmptySet
  <2>2. \A s \in Small(S, 0) : UniteOne(base, g, s) = base BY <2>1 DEF UniteOne
  <2>3. g = [s \in Small(S, 0) |-> UniteOne(base, g, s)] BY <2>2
  <2> HIDE DEF g
  <2> QED BY <2>3
<1>2. ASSUME NEW n \in Known PROVE n + 1 \in Known
  <2>1. n \in Nat OBVIOUS
  <2>2. PICK g : g = [s \in Small(S, n) |-> UniteOne(base, g, s)] OBVIOUS
  <2> DEFINE h == [s \in Small(S, n + 1) |-> UniteOne(base, g, s)]
  <2>3. \A s \in Small(S, n) : s \in Small(S, n + 1) /\ h[s] = g[s]
    <3>1. \A s \in Small(S, n) : s \in Small(S, n + 1)
      <4> SUFFICES ASSUME NEW s \in Small(S, n) PROVE s \in Small(S, n + 1)
        OBVIOUS
      <4>1. IsFiniteSet(s) BY FS_Subset DEF Small
      <4>2. Cardinality(s) \in Nat BY <4>1, FS_CardinalityType
      <4> QED BY <2>1, <4>2 DEF Small
    <3>2. \A s \in Small(S, n) : g[s] = UniteOne(base, g, s) BY <2>2
    <3> QED BY <3>1, <3>2
  <2>4. ASSUME NEW s \in Small(S, n + 1) PROVE UniteOne(base, g, s) = UniteOne(base, h, s)
    <3>1. CASE s = {} BY <3>1 DEF UniteOne
    <3>2. CASE s # {}
      <4>1. s \ {Pick(s)} \in Small(S, n) BY <2>1, <3>2, PickSmaller
      <4>2. h[s \ {Pick(s)}] = g[s \ {Pick(s)}] BY <2>3, <4>1
      <4> HIDE DEF h
      <4> QED BY <3>2, <4>2 DEF UniteOne
    <3> QED BY <3>1, <3>2
  <2>5. h = [s \in Small(S, n + 1) |-> UniteOne(base, h, s)] BY <2>4
  <2> HIDE DEF h
  <2> QED BY <2>1, <2>5
<1> HIDE DEF Known
<1>3. Known = Nat
  <2>1. Known \in SUBSET Nat BY DEF Known
  <2> QED BY <1>1, <1>2, <2>1, Induction
<1>4. Cardinality(S) \in Nat BY FS_CardinalityType
<1>5. Small(S, Cardinality(S)) = SUBSET S
  <2>1. \A s \in SUBSET S : Cardinality(s) <= Cardinality(S) BY FS_Subset
  <2> QED BY <2>1 DEF Small
<1>6. \E g : g = [s \in Small(S, Cardinality(S)) |-> UniteOne(base, g, s)]
  <2>1. Cardinality(S) \in Known BY <1>3, <1>4
  <2> QED BY <2>1 DEF Known
<1> QED BY <1>5, <1>6

LEMMA UnitingUnfolds ==
  ASSUME NEW base, NEW S, IsFiniteSet(S)
  PROVE  \A s \in SUBSET S : Uniting(base, S)[s] = UniteOne(base, Uniting(base, S), s)
<1> DEFINE U == Uniting(base, S)
<1>1. \E g : g = [s \in SUBSET S |-> UniteOne(base, g, s)] BY UnitingExists
<1>2. U = CHOOSE g : g = [s \in SUBSET S |-> UniteOne(base, g, s)]
  BY Zenon DEF Uniting, UniteOne, Pick
<1> HIDE DEF U
<1>3. U = [s \in SUBSET S |-> UniteOne(base, U, s)] BY <1>1, <1>2, Zenon
<1>4. \A s \in SUBSET S : U[s] = UniteOne(base, U, s) BY <1>3
<1> QED BY <1>4 DEF U

\* Parents lead to lower ranks; R is the function of their roots.
Falls(parents, N) ==
  /\ parents \in [N -> N]
  /\ \A n \in N : parents[n] # n => Rank(parents[n]) < Rank(n)

RootsAre(parents, N, R) == R = [n \in N |-> IF parents[n] = n THEN n ELSE R[parents[n]]]

\* Nodes whose ranks are numbers, each its own.
Ranked(N) ==
  /\ \A n \in N : Rank(n) \in Nat
  /\ \A m, n \in N : Rank(m) = Rank(n) => m = n

\* Of the nodes with some property there is a lowest one.
LEMMA LowestNode ==
  ASSUME NEW N, Ranked(N), NEW B \in SUBSET N, B # {}
  PROVE  \E m \in B : \A n \in B : Rank(m) <= Rank(n)
<1> DEFINE ranks == {Rank(n) : n \in B}
<1>1. ranks \in SUBSET Nat /\ ranks # {} BY DEF Ranked
<1> HIDE DEF ranks
<1>2. PICK least \in ranks : \A r \in ranks : least <= r BY <1>1, LeastNatural
<1> QED BY <1>2 DEF ranks

LEMMA RootsUnique ==
  ASSUME NEW N, Ranked(N), NEW parents, Falls(parents, N),
         NEW R, RootsAre(parents, N, R), NEW Q, RootsAre(parents, N, Q)
  PROVE  R = Q
<1> DEFINE B == {n \in N : R[n] # Q[n]}
<1>1. /\ \A n \in N : R[n] = IF parents[n] = n THEN n ELSE R[parents[n]]
      /\ \A n \in N : Q[n] = IF parents[n] = n THEN n ELSE Q[parents[n]]
  BY DEF RootsAre
<1>2. B = {}
  <2> SUFFICES ASSUME B # {} PROVE FALSE
    OBVIOUS
  <2>1. PICK m \in B : \A n \in B : Rank(m) <= Rank(n) BY LowestNode
  <2>2. parents[m] # m BY <1>1, <2>1
  <2>3. parents[m] \in B BY <1>1, <2>1, <2>2 DEF Falls
  <2>4. Rank(m) \in Nat /\ Rank(parents[m]) \in Nat BY <2>3 DEF Ranked
  <2> QED BY <2>1, <2>2, <2>3, <2>4 DEF Falls
<1>3. R = [n \in N |-> R[n]] /\ Q = [n \in N |-> Q[n]] BY <1>1 DEF RootsAre
<1>4. \A n \in N : R[n] = Q[n] BY <1>2
<1> HIDE DEF B
<1> QED BY <1>3, <1>4

LEMMA RootsAreRoots ==
  ASSUME NEW N, Ranked(N), NEW parents, Falls(parents, N), NEW R, RootsAre(parents, N, R)
  PROVE  \A n \in N : R[n] \in N /\ parents[R[n]] = R[n] /\ R[R[n]] = R[n]
<1> DEFINE B == {n \in N : ~(R[n] \in N /\ parents[R[n]] = R[n] /\ R[R[n]] = R[n])}
<1>1. \A n \in N : R[n] = IF parents[n] = n THEN n ELSE R[parents[n]] BY DEF RootsAre
<1>2. B = {}
  <2> SUFFICES ASSUME B # {} PROVE FALSE
    OBVIOUS
  <2>1. PICK m \in B : \A n \in B : Rank(m) <= Rank(n) BY LowestNode
  <2>2. parents[m] # m BY <1>1, <2>1
  <2>3. R[m] = R[parents[m]] BY <1>1, <2>1, <2>2
  <2>4. parents[m] \in B BY <2>1, <2>3 DEF Falls
  <2>5. Rank(m) \in Nat /\ Rank(parents[m]) \in Nat BY <2>4 DEF Ranked
  <2> QED BY <2>1, <2>2, <2>4, <2>5 DEF Falls
<1> QED BY <1>2

LEMMA FindRootIs ==
  ASSUME NEW N, Ranked(N), NEW parents, Falls(parents, N), NEW R, RootsAre(parents, N, R), NEW node \in N
  PROVE  FindRoot(parents, node) = R[node]
<1> DEFINE F == CHOOSE f : RootsAre(parents, N, f)
<1>1. DOMAIN parents = N BY DEF Falls
<1>2. FindRoot(parents, node) = F[node] BY <1>1, Zenon DEF FindRoot, RootsAre
<1>3. RootsAre(parents, N, F) BY Zenon
<1> HIDE DEF F
<1> QED BY <1>2, <1>3, RootsUnique, Zenon

\* Uniting two nodes makes the lower of their roots the root of both trees.
LEMMA UniteRoots ==
  ASSUME NEW N, Ranked(N), NEW parents, Falls(parents, N), NEW R, RootsAre(parents, N, R),
         NEW pair \in N \X N
  PROVE  LET a == R[pair[1]]
             b == R[pair[2]]
             Q == [n \in N |-> IF R[n] = HigherNode(a, b) THEN LowerNode(a, b) ELSE R[n]]
         IN  Falls(Unite(pair, parents), N) /\ RootsAre(Unite(pair, parents), N, Q)
<1> DEFINE a == R[pair[1]]
           b == R[pair[2]]
           high == HigherNode(a, b)
           low == LowerNode(a, b)
           Q == [n \in N |-> IF R[n] = high THEN low ELSE R[n]]
           q == [parents EXCEPT ![high] = low]
<1>1. pair[1] \in N /\ pair[2] \in N OBVIOUS
<1>2. FindRoot(parents, pair[1]) = a /\ FindRoot(parents, pair[2]) = b
  <2>1. \A node \in N : FindRoot(parents, node) = R[node] BY FindRootIs
  <2> QED BY <1>1, <2>1
<1>3. Unite(pair, parents) = q BY <1>2, Zenon DEF Unite
<1>4. /\ a \in N /\ parents[a] = a /\ R[a] = a
      /\ b \in N /\ parents[b] = b /\ R[b] = b
  BY <1>1, RootsAreRoots
<1> HIDE DEF a, b
<1>5. /\ high \in N /\ parents[high] = high /\ R[high] = high
      /\ low \in N /\ parents[low] = low /\ R[low] = low
  BY <1>4 DEF HigherNode, LowerNode
<1>6. high # low => Rank(low) < Rank(high)
  <2>1. Rank(a) \in Nat /\ Rank(b) \in Nat /\ (Rank(a) = Rank(b) => a = b) BY <1>4 DEF Ranked
  <2> QED BY <2>1 DEF HigherNode, LowerNode
<1> HIDE DEF high, low
<1>7. parents \in [N -> N] /\ \A n \in N : parents[n] # n => Rank(parents[n]) < Rank(n) BY DEF Falls
<1>8. q \in [N -> N] /\ q[high] = low /\ \A n \in N : n # high => q[n] = parents[n] BY <1>5, <1>7
<1>9. \A n \in N : R[n] = IF parents[n] = n THEN n ELSE R[parents[n]] BY DEF RootsAre
<1>10. \A n \in N : Q[n] = IF R[n] = high THEN low ELSE R[n] OBVIOUS
<1>11. Q = [n \in N |-> Q[n]] OBVIOUS
<1> HIDE DEF Q, q
<1>12. Falls(q, N) BY <1>6, <1>7, <1>8 DEF Falls
<1>13. ASSUME NEW n \in N PROVE Q[n] = IF q[n] = n THEN n ELSE Q[q[n]]
  <2>1. CASE n = high
    <3>1. Q[n] = low /\ q[n] = low /\ Q[low] = low BY <1>5, <1>8, <1>10, <2>1
    <3> QED BY <2>1, <3>1
  <2>2. CASE n # high
    <3>1. q[n] = parents[n] /\ parents[n] \in N BY <1>7, <1>8, <2>2
    <3>2. CASE parents[n] = n BY <1>9, <1>10, <2>2, <3>1, <3>2
    <3>3. CASE parents[n] # n BY <1>9, <1>10, <2>2, <3>1, <3>3
    <3> QED BY <3>2, <3>3
  <2> QED BY <2>1, <2>2
<1>14. RootsAre(q, N, Q) BY <1>11, <1>13 DEF RootsAre
<1> QED BY <1>3, <1>12, <1>14, Zenon DEF Q, high, low, a, b

\* The pairs have common roots, and no root lies outside what the pairs reach.
Reaches(C, s) == \A pair \in s : pair[1] \in C <=> pair[2] \in C

Joins(R, N, s) ==
  /\ \A pair \in s : R[pair[1]] = R[pair[2]]
  /\ \A C \in SUBSET N : Reaches(C, s) => \A n \in C : R[n] \in C

United(parents, N, s) == Falls(parents, N) /\ \E R : RootsAre(parents, N, R) /\ Joins(R, N, s)

LEMMA UniteJoins ==
  ASSUME NEW N, Ranked(N), NEW s \in SUBSET (N \X N), NEW parents, United(parents, N, s),
         NEW pair \in N \X N
  PROVE  United(Unite(pair, parents), N, s \cup {pair})
<1>1. Falls(parents, N) BY DEF United
<1>2. PICK R : RootsAre(parents, N, R) /\ Joins(R, N, s) BY DEF United
<1> DEFINE a == R[pair[1]]
           b == R[pair[2]]
           high == HigherNode(a, b)
           low == LowerNode(a, b)
           Q == [n \in N |-> IF R[n] = high THEN low ELSE R[n]]
           p == Unite(pair, parents)
<1>3. Falls(p, N) /\ RootsAre(p, N, Q) BY <1>1, <1>2, UniteRoots
<1>4. a \in N /\ b \in N /\ R[a] = a /\ R[b] = b BY <1>1, <1>2, RootsAreRoots
<1>5. pair[1] \in N /\ pair[2] \in N OBVIOUS
<1>6. \A n \in N : Q[n] = IF R[n] = high THEN low ELSE R[n] OBVIOUS
<1>7. (high = a /\ low = b) \/ (high = b /\ low = a) BY DEF HigherNode, LowerNode
<1> HIDE DEF high, low, Q, p
<1>8. \A o \in s \cup {pair} : Q[o[1]] = Q[o[2]]
  <2> SUFFICES ASSUME NEW o \in s \cup {pair} PROVE Q[o[1]] = Q[o[2]]
    OBVIOUS
  <2>1. o[1] \in N /\ o[2] \in N OBVIOUS
  <2>2. CASE o \in s
    <3>1. R[o[1]] = R[o[2]] BY <1>2, <2>2 DEF Joins
    <3> QED BY <1>6, <2>1, <3>1
  <2>3. CASE o = pair
    <3>1. Q[o[1]] = low /\ Q[o[2]] = low BY <1>6, <1>7, <2>1, <2>3
    <3> QED BY <3>1
  <2> QED BY <2>2, <2>3
<1>9. ASSUME NEW C \in SUBSET N, Reaches(C, s \cup {pair}), NEW n \in C
      PROVE  Q[n] \in C
  <2>1. Reaches(C, s) /\ (pair[1] \in C <=> pair[2] \in C) BY <1>9 DEF Reaches
  <2>2. Reaches(N \ C, s) BY <2>1 DEF Reaches
  <2>3. R[n] \in C BY <1>2, <2>1 DEF Joins
  <2>4. ASSUME NEW x \in {pair[1], pair[2]}, R[x] \in C PROVE x \in C
    <3> SUFFICES ASSUME x \notin C PROVE FALSE
      OBVIOUS
    <3>1. x \in N \ C BY <1>5
    <3>2. R[x] \in N \ C BY <1>2, <2>2, <3>1 DEF Joins
    <3> QED BY <2>4, <3>2
  <2>5. ASSUME NEW x \in {pair[1], pair[2]}, x \in C PROVE R[x] \in C
    BY <1>2, <2>1, <2>5 DEF Joins
  <2>6. R[n] = high => low \in C
    <3> SUFFICES ASSUME R[n] = high PROVE low \in C
      OBVIOUS
    <3>1. a \in C \/ b \in C BY <1>7, <2>3
    <3>2. pair[1] \in C /\ pair[2] \in C BY <2>1, <2>4, <3>1
    <3>3. a \in C /\ b \in C BY <2>5, <3>2
    <3> QED BY <1>7, <3>3
  <2>7. n \in N OBVIOUS
  <2>8. Q[n] = IF R[n] = high THEN low ELSE R[n] BY <1>6, <2>7
  <2> QED BY <2>3, <2>6, <2>8
<1>10. Joins(Q, N, s \cup {pair}) BY <1>8, <1>9, Zenon DEF Joins
<1> QED BY <1>3, <1>10, Zenon DEF United, p

LEMMA NothingUnited ==
  ASSUME NEW N
  PROVE  United([n \in N |-> n], N, {})
<1> DEFINE base == [n \in N |-> n]
<1>1. Falls(base, N) BY DEF Falls
<1>2. RootsAre(base, N, base)
  <2>1. \A n \in N : base[n] = IF base[n] = n THEN n ELSE base[base[n]] OBVIOUS
  <2>2. base = [n \in N |-> base[n]] OBVIOUS
  <2> HIDE DEF base
  <2> QED BY <2>1, <2>2 DEF RootsAre
<1>3. Joins(base, N, {}) BY DEF Joins
<1> QED BY <1>1, <1>2, <1>3, Zenon DEF United

LEMMA AllUnited ==
  ASSUME NEW N, Ranked(N), NEW S \in SUBSET (N \X N), IsFiniteSet(S)
  PROVE  United(Uniting([n \in N |-> n], S)[S], N, S)
<1> DEFINE base == [n \in N |-> n]
           U == Uniting(base, S)
           Known == {n \in Nat : \A s \in Small(S, n) : United(U[s], N, s)}
<1>1. \A s \in SUBSET S : U[s] = UniteOne(base, U, s) BY UnitingUnfolds
<1>2. United(base, N, {}) BY NothingUnited
<1> HIDE DEF U, base
<1>3. U[{}] = base BY <1>1 DEF UniteOne
<1>4. 0 \in Known
  <2> SUFFICES ASSUME NEW s \in Small(S, 0) PROVE United(U[s], N, s)
    OBVIOUS
  <2>1. IsFiniteSet(s) BY FS_Subset DEF Small
  <2>2. Cardinality(s) \in Nat /\ Cardinality(s) <= 0 BY <2>1, FS_CardinalityType DEF Small
  <2>3. Cardinality(s) = 0 BY <2>2
  <2>4. s = {} BY <2>1, <2>3, FS_EmptySet
  <2> QED BY <1>2, <1>3, <2>4
<1>5. ASSUME NEW n \in Known PROVE n + 1 \in Known
  <2> SUFFICES ASSUME NEW s \in Small(S, n + 1) PROVE United(U[s], N, s)
    OBVIOUS
  <2>1. CASE s = {} BY <1>2, <1>3, <2>1
  <2>2. CASE s # {}
    <3> DEFINE pair == Pick(s)
               rest == s \ {pair}
    <3>1. n \in Nat OBVIOUS
    <3>2. pair \in s /\ rest \in Small(S, n) BY <2>2, <3>1, PickSmaller
    <3>3. United(U[rest], N, rest) BY <3>2
    <3>4. s \in SUBSET S BY DEF Small
    <3>5. U[s] = Unite(pair, U[rest]) BY <1>1, <2>2, <3>4 DEF UniteOne
    <3>6. pair \in N \X N /\ rest \in SUBSET (N \X N) BY <3>2, <3>4
    <3> HIDE DEF pair
    <3>7. s = rest \cup {pair} BY <3>2
    <3> HIDE DEF rest
    <3>8. United(Unite(pair, U[rest]), N, rest \cup {pair}) BY <3>3, <3>6, UniteJoins
    <3> QED BY <3>5, <3>7, <3>8
  <2> QED BY <2>1, <2>2
<1> HIDE DEF Known
<1>6. Known = Nat
  <2>1. Known \in SUBSET Nat BY DEF Known
  <2> QED BY <1>4, <1>5, <2>1, Induction
<1>7. Cardinality(S) \in Known BY <1>6, FS_CardinalityType
<1>8. S \in Small(S, Cardinality(S)) BY FS_CardinalityType DEF Small
<1> QED BY <1>7, <1>8 DEF Known, U, base

-----------------------------------------------------------------------------
(* The corners that are united *)

LEMMA InterleaveHalves ==
  ASSUME NEW x \in Nat, NEW y \in Nat
  PROVE  Interleave[<<x, y>>] = Digits(x, y) + 4 * Interleave[<<x \div 2, y \div 2>>]
<1>1. CASE x = 0 /\ y = 0
  <2>1. Interleave[<<0, 0>>] = 0 BY Interleaved
  <2>2. Digits(0, 0) = 0 /\ 0 \div 2 = 0 BY DEF Digits
  <2> QED BY <1>1, <2>1, <2>2
<1>2. CASE ~(x = 0 /\ y = 0)
  <2>1. <<x, y>> # <<0, 0>> BY <1>2
  <2> QED BY <2>1, Interleaved
<1> QED BY <1>1, <1>2

LEMMA LowDigit ==
  ASSUME NEW i \in Nat, NEW j \in Nat, NEW p \in 0 .. 3, NEW q \in 0 .. 3, p + 4 * i = q + 4 * j
  PROVE  i = j /\ p = q
OBVIOUS

LEMMA SameBase ==
  ASSUME NEW i \in Nat, NEW j \in Nat, NEW base \in Nat, base + i = base + j
  PROVE  i = j
OBVIOUS

\* No two positions of a face have the same number.
LEMMA InterleaveApart ==
  ASSUME NEW top \in Nat, NEW x \in Nat, NEW y \in Nat, NEW u \in Nat, NEW v \in Nat,
         x < TilesPerAxis[top], y < TilesPerAxis[top], u < TilesPerAxis[top], v < TilesPerAxis[top],
         Interleave[<<x, y>>] = Interleave[<<u, v>>]
  PROVE  x = u /\ y = v
<1> DEFINE Apart(n) == \A a, b, c, d \in Nat :
             /\ a < TilesPerAxis[n] /\ b < TilesPerAxis[n] /\ c < TilesPerAxis[n] /\ d < TilesPerAxis[n]
             /\ Interleave[<<a, b>>] = Interleave[<<c, d>>]
             => a = c /\ b = d
           S == {n \in Nat : Apart(n)}
<1>1. 0 \in S
  <2>1. TilesPerAxis[0] = 1 BY Powers
  <2> QED BY <2>1
<1>2. ASSUME NEW n \in S PROVE n + 1 \in S
  <2> DEFINE T == TilesPerAxis[n]
  <2>1. T \in Nat \ {0} /\ TilesPerAxis[n + 1] = 2 * T BY Powers
  <2> SUFFICES ASSUME NEW a \in Nat, NEW b \in Nat, NEW c \in Nat, NEW d \in Nat,
                      a < 2 * T, b < 2 * T, c < 2 * T, d < 2 * T,
                      Interleave[<<a, b>>] = Interleave[<<c, d>>]
               PROVE  a = c /\ b = d
    BY <2>1
  <2> DEFINE i == Interleave[<<a \div 2, b \div 2>>]
             j == Interleave[<<c \div 2, d \div 2>>]
  <2>2. /\ a \div 2 \in Nat /\ b \div 2 \in Nat /\ a \div 2 < T /\ b \div 2 < T
        /\ c \div 2 \in Nat /\ d \div 2 \in Nat /\ c \div 2 < T /\ d \div 2 < T
    BY <2>1
  <2>3. i \in Nat /\ j \in Nat BY <2>2, InterleaveBound
  <2>4. Interleave[<<a, b>>] = Digits(a, b) + 4 * i /\ Interleave[<<c, d>>] = Digits(c, d) + 4 * j
    BY InterleaveHalves
  <2>5. Digits(a, b) \in 0 .. 3 /\ Digits(c, d) \in 0 .. 3 BY DigitsRange
  <2>6. i = j => a \div 2 = c \div 2 /\ b \div 2 = d \div 2 BY <2>2
  <2> HIDE DEF i, j, S, T
  <2>7. i = j /\ Digits(a, b) = Digits(c, d)
    <3>1. Digits(a, b) + 4 * i = Digits(c, d) + 4 * j BY <2>4, Zenon
    <3> QED BY <2>3, <2>5, <3>1, LowDigit, Zenon
  <2>8. a \div 2 = c \div 2 /\ b \div 2 = d \div 2 BY <2>6, <2>7
  <2>9. a % 2 = c % 2 /\ b % 2 = d % 2 BY <2>7 DEF Digits
  <2> QED BY <2>8, <2>9
<1>3. S \in SUBSET Nat OBVIOUS
<1> HIDE DEF S
<1>4. S = Nat BY <1>1, <1>2, <1>3, Induction
<1> QED BY <1>4 DEF S

LEMMA KeysApart ==
  ASSUME NEW t \in Tiles, NEW u \in Tiles, Key(t) = Key(u)
  PROVE  t = u
<1> DEFINE i == Interleave[<<t.x, t.y>>]
           j == Interleave[<<u.x, u.y>>]
<1>1. t.face = u.face
  <2>1. t.face \in Nat /\ u.face \in Nat BY DEF Tiles, Faces
  <2>2. CASE t.face < u.face BY <2>2, FacesOrdered
  <2>3. CASE u.face < t.face BY <2>3, FacesOrdered
  <2> QED BY <2>1, <2>2, <2>3
<1>2. Side \in Nat BY SidePositive
<1>3. /\ t.x \in Nat /\ t.y \in Nat /\ u.x \in Nat /\ u.y \in Nat
      /\ t.x < Side /\ t.y < Side /\ u.x < Side /\ u.y < Side
  BY <1>2 DEF Tiles
<1>4. i \in Nat /\ j \in Nat BY <1>3, LevelAssumption, InterleaveBound
<1>5. i = j
  <2> DEFINE base == t.face * Side * Side
  <2>1. base \in Nat BY <1>2 DEF Tiles, Faces
  <2>2. Key(t) = base + i /\ Key(u) = base + j BY <1>1 DEF Key
  <2> HIDE DEF base, i, j
  <2>3. base + i = base + j BY <2>2, Zenon
  <2> QED BY <1>4, <2>1, <2>3, SameBase, Zenon
<1>6. t.x = u.x /\ t.y = u.y BY <1>3, <1>5, LevelAssumption, InterleaveApart
<1> QED BY <1>1, <1>6 DEF Tiles

LEMMA RanksApart ==
  ASSUME NEW T \in SUBSET Tiles
  PROVE  Ranked(T \X Corners)
<1>1. \A n \in T \X Corners : Rank(n) \in Nat BY RankType
<1> SUFFICES ASSUME NEW m \in T \X Corners, NEW n \in T \X Corners, Rank(m) = Rank(n)
             PROVE  m = n
  BY <1>1 DEF Ranked
<1> DEFINE Digit(c) == CASE c = "sw" -> 0 [] c = "se" -> 1 [] c = "nw" -> 2 [] OTHER -> 3
<1>2. m[1] \in Tiles /\ m[2] \in Corners /\ n[1] \in Tiles /\ n[2] \in Corners OBVIOUS
<1>3. \A c, d \in Corners : Digit(c) \in 0 .. 3 /\ (Digit(c) = Digit(d) => c = d) BY DEF Corners
<1>4. Rank(m) = 4 * Key(m[1]) + Digit(m[2]) /\ Rank(n) = 4 * Key(n[1]) + Digit(n[2]) BY DEF Rank
<1> HIDE DEF Digit
<1>5. Key(m[1]) \in Nat /\ Key(n[1]) \in Nat BY <1>2, KeyType
<1>6. Key(m[1]) = Key(n[1]) /\ Digit(m[2]) = Digit(n[2])
  <2>1. Digit(m[2]) \in 0 .. 3 /\ Digit(n[2]) \in 0 .. 3 BY <1>2, <1>3
  <2>2. 4 * Key(m[1]) + Digit(m[2]) = 4 * Key(n[1]) + Digit(n[2]) BY <1>4, Zenon
  <2>3. Digit(m[2]) + 4 * Key(m[1]) = Digit(n[2]) + 4 * Key(n[1])
    BY <1>5, <2>1, <2>2
  <2> DEFINE i == Key(m[1])
             j == Key(n[1])
             p == Digit(m[2])
             q == Digit(n[2])
  <2> HIDE DEF i, j, p, q
  <2>4. i \in Nat /\ j \in Nat /\ p \in 0 .. 3 /\ q \in 0 .. 3 /\ p + 4 * i = q + 4 * j
    BY <1>5, <2>1, <2>3 DEF i, j, p, q
  <2>5. i = j /\ p = q BY <2>4, LowDigit
  <2> QED BY <2>5 DEF i, j, p, q
<1>7. m[1] = n[1] /\ m[2] = n[2] BY <1>2, <1>3, <1>6, KeysApart
<1> QED BY <1>7

\* The corners that fall on each other across the owned edges.
Pairs(T) ==
  {<<<<o[1][1], EdgeCorner(o[1][2], o[2])>>,
     <<Neighbor(o[1][1], o[1][2]).key, FacingCorner(o[1][1], o[1][2], o[2])>>>> :
    o \in Owned(T) \X BOOLEAN}

CornerAcross(t, e, h) == <<Neighbor(t, e).key, FacingCorner(t, e, h)>>

LEMMA PairOf ==
  ASSUME NEW T \in SUBSET Tiles
  PROVE  /\ \A o \in Owned(T), h \in BOOLEAN :
              /\ o[1] \in T /\ o[2] \in Edges /\ Neighbor(o[1], o[2]).key \in T
              /\ <<<<o[1], EdgeCorner(o[2], h)>>, CornerAcross(o[1], o[2], h)>> \in Pairs(T)
         /\ \A pair \in Pairs(T) : \E o \in Owned(T), h \in BOOLEAN :
              pair = <<<<o[1], EdgeCorner(o[2], h)>>, CornerAcross(o[1], o[2], h)>>
<1> DEFINE Of(o, h) == <<<<o[1], EdgeCorner(o[2], h)>>, CornerAcross(o[1], o[2], h)>>
<1>1. Pairs(T) = {Of(p[1], p[2]) : p \in Owned(T) \X BOOLEAN} BY DEF Pairs, CornerAcross
<1> HIDE DEF Of
<1>2. \A o \in Owned(T), h \in BOOLEAN : Of(o, h) \in Pairs(T)
  <2> TAKE o \in Owned(T), h \in BOOLEAN
  <2>1. <<o, h>> \in Owned(T) \X BOOLEAN /\ <<o, h>>[1] = o /\ <<o, h>>[2] = h OBVIOUS
  <2> QED BY <1>1, <2>1
<1>3. \A pair \in Pairs(T) : \E o \in Owned(T), h \in BOOLEAN : pair = Of(o, h)
  <2> TAKE pair \in Pairs(T)
  <2>1. PICK p \in Owned(T) \X BOOLEAN : pair = Of(p[1], p[2]) BY <1>1
  <2>2. p[1] \in Owned(T) /\ p[2] \in BOOLEAN OBVIOUS
  <2> QED BY <2>1, <2>2
<1>4. \A o \in Owned(T) : o[1] \in T /\ o[2] \in Edges /\ Neighbor(o[1], o[2]).key \in T BY DEF Owned
<1> QED BY <1>2, <1>3, <1>4, Zenon DEF Of

LEMMA PairsFinite ==
  ASSUME NEW T \in SUBSET Tiles
  PROVE  IsFiniteSet(Pairs(T)) /\ Pairs(T) \in SUBSET ((T \X Corners) \X (T \X Corners))
<1> DEFINE O == T \X (Edges \X BOOLEAN)
           Of(o) == <<<<o[1], EdgeCorner(o[2][1], o[2][2])>>, CornerAcross(o[1], o[2][1], o[2][2])>>
           I == {Of(o) : o \in O}
           f == [o \in O |-> Of(o)]
<1>1. IsFiniteSet(T) /\ IsFiniteSet(Edges) /\ IsFiniteSet(BOOLEAN)
  <2>1. IsFiniteSet(T) BY TilesFinite, FS_Subset
  <2>2. IsFiniteSet({"west"}) /\ IsFiniteSet({TRUE}) BY FS_Singleton
  <2>3. \A S, x : IsFiniteSet(S) => IsFiniteSet(S \cup {x}) BY FS_AddElement
  <2>4. Edges = (({"west"} \cup {"east"}) \cup {"south"}) \cup {"north"} BY DEF Edges
  <2>5. BOOLEAN = {TRUE} \cup {FALSE} OBVIOUS
  <2>6. IsFiniteSet(Edges)
    <3>1. IsFiniteSet({"west"} \cup {"east"}) BY <2>2, <2>3, Zenon
    <3>2. IsFiniteSet(({"west"} \cup {"east"}) \cup {"south"}) BY <2>3, <3>1, Zenon
    <3> QED BY <2>3, <2>4, <3>2, Zenon
  <2>7. IsFiniteSet(BOOLEAN)
    <3>1. IsFiniteSet({TRUE} \cup {FALSE}) BY <2>2, <2>3
    <3> QED BY <2>5, <3>1
  <2> QED BY <2>1, <2>6, <2>7
<1>2. IsFiniteSet(O) BY <1>1, FS_Product
<1>3. f \in Surjection(O, I) BY DEF Surjection
<1>4. IsFiniteSet(I)
  <2> HIDE DEF O, I, f
  <2> QED BY <1>2, <1>3, FS_Surjection
<1>5. ASSUME NEW pair \in Pairs(T)
      PROVE  pair \in I /\ pair \in (T \X Corners) \X (T \X Corners)
  <2>1. PICK o \in Owned(T), h \in BOOLEAN :
          pair = <<<<o[1], EdgeCorner(o[2], h)>>, CornerAcross(o[1], o[2], h)>>
    BY PairOf
  <2>2. o[1] \in T /\ o[2] \in Edges /\ Neighbor(o[1], o[2]).key \in T BY PairOf
  <2>3. <<o[1], <<o[2], h>>>> \in O BY <2>2
  <2>4. EdgeCorner(o[2], h) \in Corners BY <2>2, SideEdges
  <2>5. Neighbor(o[1], o[2]).edge \in Edges /\ Neighbor(o[1], o[2]).reversed \in BOOLEAN
    BY <2>2, ThereAndBack, NeighborReverses
  <2>6. FacingCorner(o[1], o[2], h) \in Corners BY <2>5, SideEdges, Exchange DEF FacingCorner
  <2>7. CornerAcross(o[1], o[2], h) \in T \X Corners BY <2>2, <2>6 DEF CornerAcross
  <2>8. <<o[1], EdgeCorner(o[2], h)>> \in T \X Corners BY <2>2, <2>4
  <2>9. pair \in I
    <3>1. Of(<<o[1], <<o[2], h>>>>) = pair BY <2>1
    <3> HIDE DEF Of, O
    <3> QED BY <2>3, <3>1
  <2> QED BY <2>1, <2>7, <2>8, <2>9
<1> HIDE DEF I
<1>6. Pairs(T) \subseteq I BY <1>5
<1>7. IsFiniteSet(Pairs(T)) BY <1>4, <1>6, FS_Subset
<1> QED BY <1>5, <1>7

\* The roots of the corners are common to those that fall on each other, and lie
\* within whatever a corner can be led to.
LEMMA CornersJoined ==
  ASSUME NEW T \in SUBSET Tiles
  PROVE  /\ DOMAIN CornerRoots(T) = T \X Corners
         /\ Joins(CornerRoots(T), T \X Corners, Pairs(T))
<1> DEFINE N == T \X Corners
           S == Pairs(T)
           parents == CornerParents(T)
           base == [n \in N |-> n]
<1>1. parents = Uniting(base, S)[S]
  <2>1. CornerParents(T) = Uniting([node \in CornerNodes(T) |-> node], Pairs(T))[Pairs(T)]
    BY Zenon DEF CornerParents, FoldSet, MapThenFoldSet, Uniting, Pairs
  <2> QED BY <2>1, Zenon DEF CornerNodes
<1>2. Ranked(N) BY RanksApart
<1>3. United(parents, N, S)
  <2>1. IsFiniteSet(S) /\ S \in SUBSET (N \X N) BY PairsFinite
  <2> HIDE DEF N, S, parents
  <2> QED BY <1>1, <1>2, <2>1, AllUnited
<1> HIDE DEF parents
<1>4. CornerRoots(T) = [node \in N |-> FindRoot(parents, node)]
  BY Zenon DEF CornerRoots, CornerNodes, parents
<1> HIDE DEF N, S
<1>5. Falls(parents, N) BY <1>3 DEF United
<1>6. PICK R : RootsAre(parents, N, R) /\ Joins(R, N, S) BY <1>3 DEF United
<1>7. \A node \in N : FindRoot(parents, node) = R[node] BY <1>2, <1>5, <1>6, FindRootIs
<1>8. DOMAIN CornerRoots(T) = N /\ \A node \in N : CornerRoots(T)[node] = R[node] BY <1>4, <1>7
<1>9. S \in SUBSET (N \X N) BY PairsFinite DEF N, S
<1>10. Joins(CornerRoots(T), N, S) BY <1>6, <1>8, <1>9 DEF Joins
<1> QED BY <1>8, <1>10 DEF N, S

\* A step across an edge, and the step back.
LEMMA CornerAcrossBack ==
  ASSUME NEW t \in Tiles, NEW e \in Edges, NEW h \in BOOLEAN
  PROVE  \E k \in BOOLEAN :
           /\ CornerAcross(t, e, h) = <<Neighbor(t, e).key, EdgeCorner(Neighbor(t, e).edge, k)>>
           /\ CornerAcross(Neighbor(t, e).key, Neighbor(t, e).edge, k) = <<t, EdgeCorner(e, h)>>
           /\ CornerAcross(t, e, h) \in Tiles \X Corners
<1> DEFINE n == Neighbor(t, e)
           b == Neighbor(n.key, n.edge)
           k == h # n.reversed
<1>1. /\ n.key \in Tiles /\ n.edge \in Edges /\ b.key = t /\ b.edge = e
      /\ (b.reversed <=> n.reversed)
  BY NeighborReciprocal
<1>2. n.reversed \in BOOLEAN /\ b.reversed \in BOOLEAN BY <1>1, NeighborReverses
<1> HIDE DEF n
<1>3. k \in BOOLEAN /\ (k # n.reversed) = h BY <1>2, Exchange
<1>4. b.reversed = n.reversed
  <2> HIDE DEF b
  <2>1. /\ b.reversed <=> n.reversed
        /\ n.reversed \in BOOLEAN /\ b.reversed \in BOOLEAN
    BY <1>1, <1>2
  <2>2. CASE n.reversed BY <2>1, <2>2, Zenon
  <2>3. CASE ~n.reversed BY <2>1, <2>3, Zenon
  <2> QED BY <2>2, <2>3
<1> HIDE DEF k, b
<1>5. CornerAcross(t, e, h) = <<n.key, EdgeCorner(n.edge, k)>>
  BY Zenon DEF CornerAcross, FacingCorner, n, k
<1>6. CornerAcross(n.key, n.edge, k) = <<b.key, EdgeCorner(b.edge, k # b.reversed)>>
  BY Zenon DEF CornerAcross, FacingCorner, b
<1>7. (k # b.reversed) = h BY <1>3, <1>4, Zenon
<1>8. CornerAcross(n.key, n.edge, k) = <<t, EdgeCorner(e, h)>> BY <1>1, <1>6, <1>7, Zenon
<1>9. EdgeCorner(n.edge, k) \in Corners BY <1>1, <1>3, SideEdges
<1> QED BY <1>1, <1>3, <1>5, <1>8, <1>9 DEF n

\* Corners of the batch that fall on each other have the same root, whichever of
\* the two tiles owns the edge.
LEMMA StepsJoin ==
  ASSUME NEW T \in SUBSET Tiles, NEW t \in T, NEW e \in Edges, NEW h \in BOOLEAN,
         Neighbor(t, e).key \in T
  PROVE  CornerRoots(T)[<<t, EdgeCorner(e, h)>>] = CornerRoots(T)[CornerAcross(t, e, h)]
<1> DEFINE R == CornerRoots(T)
           u == Neighbor(t, e).key
           d == Neighbor(t, e).edge
<1>1. Joins(R, T \X Corners, Pairs(T)) BY CornersJoined
<1> HIDE DEF R
<1>2. ASSUME NEW o \in Owned(T), NEW k \in BOOLEAN
      PROVE  R[<<o[1], EdgeCorner(o[2], k)>>] = R[CornerAcross(o[1], o[2], k)]
  <2>1. <<<<o[1], EdgeCorner(o[2], k)>>, CornerAcross(o[1], o[2], k)>> \in Pairs(T) BY PairOf
  <2> QED BY <1>1, <2>1 DEF Joins
<1>3. u \in Tiles /\ d \in Edges /\ Neighbor(u, d).key = t /\ u # t
  BY ThereAndBack, NeighborReciprocal
<1>4. PICK k \in BOOLEAN : /\ CornerAcross(t, e, h) = <<u, EdgeCorner(d, k)>>
                           /\ CornerAcross(u, d, k) = <<t, EdgeCorner(e, h)>>
  BY CornerAcrossBack
<1> HIDE DEF u, d
<1>5. CASE Key(t) < Key(u)
  <2>1. <<t, e>> \in Owned(T) BY <1>5, OwnedMeans DEF u
  <2>2. <<t, e>>[1] = t /\ <<t, e>>[2] = e OBVIOUS
  <2> QED BY <1>2, <2>1, <2>2 DEF R
<1>6. CASE Key(u) < Key(t)
  <2>1. <<u, d>> \in Owned(T) BY <1>3, <1>6, OwnedMeans DEF u
  <2>2. <<u, d>>[1] = u /\ <<u, d>>[2] = d OBVIOUS
  <2>3. R[<<u, EdgeCorner(d, k)>>] = R[CornerAcross(u, d, k)] BY <1>2, <2>1, <2>2
  <2> QED BY <1>4, <2>3 DEF R
<1>7. Key(t) \in Nat /\ Key(u) \in Nat /\ Key(t) # Key(u) BY <1>3, KeyType, KeysApart
<1> QED BY <1>5, <1>6, <1>7

\* What holds of a corner and of every corner it leads to holds of its root.
LEMMA RootWithin ==
  ASSUME NEW T \in SUBSET Tiles, NEW C \in SUBSET (T \X Corners),
         \A t \in T, e \in Edges, h \in BOOLEAN :
           Neighbor(t, e).key \in T /\ <<t, EdgeCorner(e, h)>> \in C => CornerAcross(t, e, h) \in C,
         NEW n \in T \X Corners
  PROVE  CornerRoots(T)[n] \in C <=> n \in C
<1> DEFINE R == CornerRoots(T)
           N == T \X Corners
<1>1. Joins(R, N, Pairs(T)) BY CornersJoined
<1>2. Reaches(C, Pairs(T))
  <2> SUFFICES ASSUME NEW pair \in Pairs(T) PROVE pair[1] \in C <=> pair[2] \in C
    BY DEF Reaches
  <2>1. PICK o \in Owned(T), h \in BOOLEAN :
          pair = <<<<o[1], EdgeCorner(o[2], h)>>, CornerAcross(o[1], o[2], h)>>
    BY PairOf
  <2> DEFINE t == o[1]
             e == o[2]
             u == Neighbor(t, e).key
             d == Neighbor(t, e).edge
  <2>2. t \in T /\ e \in Edges /\ u \in T BY PairOf
  <2>3. d \in Edges /\ Neighbor(u, d).key = t BY <2>2, ThereAndBack
  <2>4. PICK k \in BOOLEAN : /\ CornerAcross(t, e, h) = <<u, EdgeCorner(d, k)>>
                             /\ CornerAcross(u, d, k) = <<t, EdgeCorner(e, h)>>
    BY <2>2, CornerAcrossBack
  <2>5. pair[1] = <<t, EdgeCorner(e, h)>> /\ pair[2] = CornerAcross(t, e, h) BY <2>1
  <2> HIDE DEF t, e, u, d
  <2>6. ASSUME pair[1] \in C PROVE pair[2] \in C BY <2>2, <2>5, <2>6 DEF u
  <2>7. ASSUME pair[2] \in C PROVE pair[1] \in C
    <3>1. <<u, EdgeCorner(d, k)>> \in C BY <2>4, <2>5, <2>7
    <3>2. CornerAcross(u, d, k) \in C BY <2>2, <2>3, <3>1
    <3> QED BY <2>4, <2>5, <3>2
  <2> QED BY <2>6, <2>7
<1>3. Reaches(N \ C, Pairs(T))
  <2>1. Pairs(T) \in SUBSET (N \X N) BY PairsFinite
  <2>2. \A pair \in Pairs(T) : pair[1] \in N /\ pair[2] \in N BY <2>1
  <2> QED BY <1>2, <2>2 DEF Reaches
<1> HIDE DEF R
<1>4. n \in C => R[n] \in C BY <1>1, <1>2 DEF Joins
<1>5. n \notin C => R[n] \in N \ C BY <1>1, <1>3 DEF Joins
<1> QED BY <1>4, <1>5 DEF R

-----------------------------------------------------------------------------
(* The star of a corner: where it leads, and where that leads *)

Node(s) == <<s.tile, s.corner>>

Leads(n) == {Node(Around(n[1], n[2], e)) : e \in EdgesAt(n[2])}

OnPath(s) == s.tile \in Tiles /\ s.corner \in Corners /\ s.from \in EdgesAt(s.corner)

\* Whoever crossed an edge gets back across the edge touched.
LEMMA AroundBack ==
  ASSUME NEW t \in Tiles, NEW c \in Corners, NEW e \in EdgesAt(c)
  PROVE  /\ OnPath(Around(t, c, e)) /\ Around(t, c, e).tile = Neighbor(t, e).key /\ e \in Edges
         /\ Around(Around(t, c, e).tile, Around(t, c, e).corner, Around(t, c, e).from) = Place(t, c, e)
<1>1. PICK h \in BOOLEAN : e \in Edges /\ EdgeCorner(e, h) = c BY DEF EdgesAt
<1> DEFINE n == Neighbor(t, e)
           b == Neighbor(n.key, n.edge)
           k == h # n.reversed
<1>2. /\ n.key \in Tiles /\ n.edge \in Edges /\ b.key = t /\ b.edge = e
      /\ (b.reversed <=> n.reversed)
  BY <1>1, NeighborReciprocal
<1>3. n.reversed \in BOOLEAN /\ b.reversed \in BOOLEAN BY <1>1, <1>2, NeighborReverses
<1>4. Around(t, c, e) = Place(n.key, EdgeCorner(n.edge, k), n.edge) BY <1>1, StepAcross, Zenon
<1> HIDE DEF n
<1>5. k \in BOOLEAN /\ (k # n.reversed) = h BY <1>3, Exchange
<1> HIDE DEF k
<1>6. Around(n.key, EdgeCorner(n.edge, k), n.edge)
        = Place(b.key, EdgeCorner(b.edge, k # b.reversed), b.edge)
  BY <1>2, <1>5, StepAcross, Zenon
<1> HIDE DEF b
<1>7. (k # b.reversed) = h
  <2>1. /\ b.reversed <=> n.reversed
        /\ n.reversed \in BOOLEAN /\ b.reversed \in BOOLEAN
    BY <1>2, <1>3
  <2>2. b.reversed = n.reversed
    <3>1. CASE n.reversed BY <2>1, <3>1, Zenon
    <3>2. CASE ~n.reversed BY <2>1, <3>2, Zenon
    <3> QED BY <3>1, <3>2
  <2> QED BY <1>5, <2>2, Zenon
<1>8. Around(n.key, EdgeCorner(n.edge, k), n.edge) = Place(t, c, e)
  BY <1>1, <1>2, <1>6, <1>7, Zenon
<1>9. EdgeCorner(n.edge, k) \in Corners /\ n.edge \in EdgesAt(EdgeCorner(n.edge, k))
  BY ZenonT(60), <1>2, <1>5, SideEdges
<1> DEFINE s == Around(t, c, e)
<1>10. s.tile = n.key /\ s.corner = EdgeCorner(n.edge, k) /\ s.from = n.edge BY <1>4 DEF Place
<1> HIDE DEF s
<1>11. OnPath(s) BY <1>2, <1>9, <1>10 DEF OnPath
<1> QED BY <1>1, <1>8, <1>10, <1>11, Zenon DEF s, n

LEMMA LeadsOfPlace ==
  ASSUME NEW s, OnPath(s)
  PROVE  /\ Onward(s) \in EdgesAt(s.corner)
         /\ Leads(Node(s)) = {Node(Around(s.tile, s.corner, s.from)), Node(GoOn(s))}
<1>1. s.tile \in Tiles /\ s.corner \in Corners /\ s.from \in EdgesAt(s.corner) BY DEF OnPath
<1>2. PICK e \in Edges, h \in BOOLEAN : EdgesAt(s.corner) = {e, SideEdge(e, h)} /\ SideEdge(e, h) # e
  BY <1>1, CornerAsEnd, Zenon
<1>3. \E edge \in EdgesAt(s.corner) : edge # s.from BY <1>1, <1>2
<1>4. Onward(s) \in EdgesAt(s.corner) /\ Onward(s) # s.from BY <1>3 DEF Onward
<1>5. EdgesAt(s.corner) = {s.from, Onward(s)} BY <1>1, <1>2, <1>4
<1>6. Node(s)[1] = s.tile /\ Node(s)[2] = s.corner BY DEF Node
<1>7. Leads(Node(s)) = {Node(Around(s.tile, s.corner, e1)) : e1 \in {s.from, Onward(s)}}
  <2> DEFINE n == Node(s)
  <2> HIDE DEF n
  <2>1. Leads(n) = {Node(Around(n[1], n[2], e1)) : e1 \in EdgesAt(n[2])} BY DEF Leads
  <2>2. n[1] = s.tile /\ n[2] = s.corner BY <1>6 DEF n
  <2> QED BY <1>5, <2>1, <2>2 DEF n
<1>8. GoOn(s) = Around(s.tile, s.corner, Onward(s)) BY DEF GoOn
<1> QED BY <1>4, <1>7, <1>8

\* From one place to the next.
LEMMA NextPlace ==
  ASSUME NEW s, OnPath(s)
  PROVE  /\ OnPath(GoOn(s))
         /\ Leads(Node(GoOn(s))) = {Node(s), Node(GoOn(GoOn(s)))}
         /\ Around(GoOn(s).tile, GoOn(s).corner, GoOn(s).from) = Place(s.tile, s.corner, Onward(s))
<1>1. s.tile \in Tiles /\ s.corner \in Corners BY DEF OnPath
<1>2. Onward(s) \in EdgesAt(s.corner) BY LeadsOfPlace
<1> DEFINE g == GoOn(s)
<1>3. g = Around(s.tile, s.corner, Onward(s)) BY DEF GoOn
<1>4. /\ OnPath(g)
      /\ Around(g.tile, g.corner, g.from) = Place(s.tile, s.corner, Onward(s))
  BY <1>1, <1>2, <1>3, AroundBack
<1> HIDE DEF g
<1>5. Leads(Node(g)) = {Node(Around(g.tile, g.corner, g.from)), Node(GoOn(g))} BY <1>4, LeadsOfPlace
<1>6. Node(Place(s.tile, s.corner, Onward(s))) = Node(s) BY DEF Node, Place
<1> QED BY <1>4, <1>5, <1>6 DEF g

IsStar(x, n1, n2, d) ==
  /\ \E e \in Edges : n1[1] = Neighbor(x[1], e).key
  /\ \E e \in Edges : n2[1] = Neighbor(x[1], e).key
  /\ Leads(x) \subseteq {n1, n2}
  /\ Leads(n1) \subseteq {x, n2, d}
  /\ Leads(n2) \subseteq {x, n1, d}
  /\ Leads(d) \subseteq {x, n1, n2}

\* A walk from a corner across one edge that comes back across the other.
LEMMA StarOfWalk ==
  ASSUME NEW t \in Tiles, NEW c \in Corners, NEW e, NEW o, EdgesAt(c) = {e, o}
  PROVE  LET s0 == Around(t, c, e)
             s1 == GoOn(s0)
             s2 == GoOn(s1)
             s3 == GoOn(s2)
         IN  /\ s3 = Place(t, c, o) => IsStar(<<t, c>>, Node(s0), Node(s2), Node(s1))
             /\ s2 = Place(t, c, o) => IsStar(<<t, c>>, Node(s0), Node(s1), Node(s1))
<1> DEFINE x == <<t, c>>
           s0 == Around(t, c, e)
           s1 == GoOn(s0)
           s2 == GoOn(s1)
           s3 == GoOn(s2)
           back == Around(t, c, o)
<1>1. e \in EdgesAt(c) /\ o \in EdgesAt(c) OBVIOUS
<1>2. /\ OnPath(s0) /\ s0.tile = Neighbor(t, e).key /\ e \in Edges
      /\ Around(s0.tile, s0.corner, s0.from) = Place(t, c, e)
  BY <1>1, AroundBack
<1>3. OnPath(back) /\ back.tile = Neighbor(t, o).key /\ o \in Edges BY <1>1, AroundBack
<1>4. Leads(x) = {Node(s0), Node(back)}
  <2>1. x[1] = t /\ x[2] = c OBVIOUS
  <2> HIDE DEF x
  <2>2. Leads(x) = {Node(Around(t, c, e1)) : e1 \in {e, o}} BY <2>1, Zenon DEF Leads
  <2> QED BY <2>2
<1>5. \A f : Node(Place(t, c, f)) = x BY DEF Node, Place
<1>6. \A s : Node(s)[1] = s.tile BY DEF Node
<1> HIDE DEF s0, back
<1>7. Leads(Node(s0)) = {x, Node(s1)}
  <2>1. Leads(Node(s0)) = {Node(Place(t, c, e)), Node(GoOn(s0))} BY <1>2, LeadsOfPlace
  <2> QED BY <1>5, <2>1
<1>8. /\ OnPath(s1) /\ Leads(Node(s1)) = {Node(s0), Node(s2)}
  BY <1>2, NextPlace
<1> HIDE DEF s1
<1>9. /\ OnPath(s2) /\ Leads(Node(s2)) = {Node(s1), Node(s3)}
      /\ Around(s2.tile, s2.corner, s2.from) = Place(s1.tile, s1.corner, Onward(s1))
  BY <1>8, NextPlace
<1> HIDE DEF s2
<1>10. /\ Around(s3.tile, s3.corner, s3.from) = Place(s2.tile, s2.corner, Onward(s2))
  BY <1>9, NextPlace
<1> HIDE DEF s3
<1>11. \A s : Node(Place(s.tile, s.corner, Onward(s))) = Node(s) BY DEF Node, Place
<1>12. /\ Place(t, c, o).tile = t /\ Place(t, c, o).corner = c /\ Place(t, c, o).from = o
  BY DEF Place
<1>13. ASSUME s3 = Place(t, c, o)
       PROVE  IsStar(x, Node(s0), Node(s2), Node(s1))
  <2>1. back = Place(s2.tile, s2.corner, Onward(s2)) BY <1>10, <1>12, <1>13 DEF back
  <2>2. Node(back) = Node(s2) /\ Node(s3) = x BY <1>5, <1>11, <1>13, <2>1
  <2>3. Node(s2)[1] = Neighbor(t, o).key
    <3>1. Node(s2)[1] = back.tile BY <1>6, <2>2
    <3> QED BY <1>3, <3>1
  <2>4. Node(s0)[1] = Neighbor(t, e).key BY <1>2, <1>6
  <2>5. x[1] = t OBVIOUS
  <2> HIDE DEF x
  <2> QED BY <1>2, <1>3, <1>4, <1>7, <1>8, <1>9, <2>2, <2>3, <2>4, <2>5 DEF IsStar
<1>14. ASSUME s2 = Place(t, c, o)
       PROVE  IsStar(x, Node(s0), Node(s1), Node(s1))
  <2>1. back = Place(s1.tile, s1.corner, Onward(s1)) BY <1>9, <1>12, <1>14 DEF back
  <2>2. Node(back) = Node(s1) /\ Node(s2) = x BY <1>5, <1>11, <1>14, <2>1
  <2>3. Node(s1)[1] = Neighbor(t, o).key
    <3>1. Node(s1)[1] = back.tile BY <1>6, <2>2
    <3> QED BY <1>3, <3>1
  <2>4. Node(s0)[1] = Neighbor(t, e).key BY <1>2, <1>6
  <2>5. x[1] = t OBVIOUS
  <2> HIDE DEF x
  <2> QED BY <1>2, <1>3, <1>4, <1>7, <1>8, <2>2, <2>3, <2>4, <2>5 DEF IsStar
<1> QED BY <1>13, <1>14, Zenon DEF s0, s1, s2, s3, x

LEMMA ThreeReturn ==
  ASSUME NEW t \in Tiles, NEW e \in Edges, NEW h \in BOOLEAN,
         AtBorder(t, e), AtBorder(t, SideEdge(e, h))
  PROVE  GoOn(GoOn(Around(t, EdgeCorner(e, h), e))) = Place(t, EdgeCorner(e, h), SideEdge(e, h))
<1> DEFINE c  == Connection(t.face)[e]
           k  == h # c.reversed
           c1 == Connection(c.face)[SideEdge(c.edge, k)]
           k1 == High(c.edge) # c1.reversed
<1>1. /\ Around(t, EdgeCorner(e, h), e) = CubePlace(c.face, c.edge, k)
      /\ GoOn(CubePlace(c.face, c.edge, k)) = CubePlace(c1.face, c1.edge, k1)
      /\ GoOn(CubePlace(c1.face, c1.edge, k1)) = Place(t, EdgeCorner(e, h), SideEdge(e, h))
  BY ThreeSteps, ZenonT(60)
<1> HIDE DEF c, k, c1, k1
<1> QED BY <1>1, Zenon

LEMMA FourReturn ==
  ASSUME NEW t \in Tiles, NEW e \in Edges, NEW h \in BOOLEAN, ~AtBorder(t, SideEdge(e, h))
  PROVE  GoOn(GoOn(GoOn(Around(t, EdgeCorner(e, h), e)))) = Place(t, EdgeCorner(e, h), SideEdge(e, h))
<1> DEFINE b == Beside(t, SideEdge(e, h))
           n == Neighbor(t, e)
           m == Neighbor(b, e)
           k == h # n.reversed
           d == EdgeCorner(n.edge, k)
           d1 == EdgeCorner(n.edge, ~k)
           q == SideEdge(n.edge, ~k)
<1>1. /\ Around(t, EdgeCorner(e, h), e) = Place(n.key, d, n.edge)
      /\ GoOn(Place(n.key, d, n.edge)) = Place(m.key, d1, q)
      /\ GoOn(Place(m.key, d1, q)) = Place(b, EdgeCorner(e, ~h), e)
      /\ GoOn(Place(b, EdgeCorner(e, ~h), e)) = Place(t, EdgeCorner(e, h), SideEdge(e, h))
  BY FourSteps, Zenon
<1> HIDE DEF b, n, m, k, d, d1, q
<1> QED BY <1>1, Zenon

\* At every corner of every tile, at a corner of the cube or not.
LEMMA Stars ==
  ASSUME NEW t \in Tiles, NEW c \in Corners
  PROVE  \E n1, n2, d : IsStar(<<t, c>>, n1, n2, d)
<1>1. PICK e \in Edges, h \in BOOLEAN :
        /\ SideEdge(e, h) \in Edges /\ High(e) \in BOOLEAN
        /\ c = EdgeCorner(e, h) /\ c = EdgeCorner(SideEdge(e, h), High(e))
        /\ SideEdge(SideEdge(e, h), High(e)) = e
        /\ EdgesAt(c) = {e, SideEdge(e, h)}
  BY CornerAsEnd, Zenon
<1> DEFINE o == SideEdge(e, h)
<1>2. EdgesAt(c) = {e, o} /\ EdgesAt(c) = {o, e} BY <1>1
<1>3. \A d, b \in Edges : EdgesAt(c) = {d, b} =>
        /\ GoOn(GoOn(Around(t, c, d))) = Place(t, c, b) => \E n1, n2, m : IsStar(<<t, c>>, n1, n2, m)
        /\ GoOn(GoOn(GoOn(Around(t, c, d)))) = Place(t, c, b) => \E n1, n2, m : IsStar(<<t, c>>, n1, n2, m)
  BY StarOfWalk, Zenon
<1> HIDE DEF o
<1>5. CASE AtBorder(t, e) /\ AtBorder(t, o)
  <2>1. GoOn(GoOn(Around(t, c, e))) = Place(t, c, o) BY <1>1, <1>5, ThreeReturn DEF o
  <2> QED BY <1>1, <1>2, <1>3, <2>1 DEF o
<1>6. CASE ~AtBorder(t, o)
  <2>1. GoOn(GoOn(GoOn(Around(t, c, e)))) = Place(t, c, o) BY <1>1, <1>6, FourReturn DEF o
  <2> QED BY <1>1, <1>2, <1>3, <2>1 DEF o
<1>7. CASE ~AtBorder(t, e)
  <2>1. ~AtBorder(t, SideEdge(o, High(e))) /\ SideEdge(o, High(e)) = e BY <1>1, <1>7 DEF o
  <2>2. GoOn(GoOn(GoOn(Around(t, c, o)))) = Place(t, c, e) BY <1>1, <2>1, FourReturn DEF o
  <2> QED BY <1>1, <1>2, <1>3, <2>2 DEF o
<1> QED BY <1>5, <1>6, <1>7

LEMMA LeadsAcross ==
  ASSUME NEW t \in Tiles, NEW e \in Edges, NEW h \in BOOLEAN
  PROVE  CornerAcross(t, e, h) \in Leads(<<t, EdgeCorner(e, h)>>)
<1> DEFINE c == EdgeCorner(e, h)
           x == <<t, c>>
<1>1. EndAt(e, c) = h BY CornerEnds
<1>2. e \in EdgesAt(c) BY SideEdges
<1>3. x[1] = t /\ x[2] = c OBVIOUS
<1>4. Around(t, c, e).tile = Neighbor(t, e).key /\ Around(t, c, e).corner = FacingCorner(t, e, EndAt(e, c))
  BY DEF Around
<1> HIDE DEF c
<1>5. CornerAcross(t, e, h) = Node(Around(t, c, e)) BY <1>1, <1>4, Zenon DEF CornerAcross, Node
<1> HIDE DEF x
<1>6. Leads(x) = {Node(Around(t, c, e1)) : e1 \in EdgesAt(c)} BY <1>3, Zenon DEF Leads
<1>7. CornerAcross(t, e, h) \in Leads(x) BY <1>2, <1>5, <1>6
<1> QED BY <1>7 DEF x, c

-----------------------------------------------------------------------------
(* Two rings around a tile show all that its seams depend on. *)

TwoRings(T, N, t) ==
  /\ T \in SUBSET Tiles /\ N \in SUBSET T /\ t \in N
  /\ \A e \in Edges : LET u == Neighbor(t, e).key
                      IN  u \in T => /\ u \in N
                                     /\ \A d \in Edges : Neighbor(u, d).key \in T => Neighbor(u, d).key \in N

Fiber(T, x) == {m \in T \X Corners : CornerRoots(T)[m] = CornerRoots(T)[x]}

LEMMA FiberInStar ==
  ASSUME NEW N \in SUBSET Tiles, NEW x \in N \X Corners, NEW n1, NEW n2, NEW d, IsStar(x, n1, n2, d)
  PROVE  Fiber(N, x) \subseteq {x, n1, n2, d}
<1> DEFINE C == {x, n1, n2, d} \cap (N \X Corners)
<1>1. C \in SUBSET (N \X Corners) /\ x \in C OBVIOUS
<1>2. ASSUME NEW t \in N, NEW e \in Edges, NEW h \in BOOLEAN, Neighbor(t, e).key \in N,
             <<t, EdgeCorner(e, h)>> \in C
      PROVE  CornerAcross(t, e, h) \in C
  <2>1. CornerAcross(t, e, h) \in Leads(<<t, EdgeCorner(e, h)>>) BY LeadsAcross
  <2>2. CornerAcross(t, e, h) \in Tiles \X Corners BY CornerAcrossBack
  <2>3. CornerAcross(t, e, h)[1] = Neighbor(t, e).key BY DEF CornerAcross
  <2>4. CornerAcross(t, e, h) \in N \X Corners BY <1>2, <2>2, <2>3
  <2> DEFINE y == CornerAcross(t, e, h)
             m == <<t, EdgeCorner(e, h)>>
  <2>5. m \in {x, n1, n2, d} BY <1>2
  <2>6. y \in Leads(m) BY <2>1
  <2> HIDE DEF y, m
  <2>7. y \in {x, n1, n2, d} BY <2>5, <2>6 DEF IsStar
  <2> QED BY <2>4, <2>7 DEF y
<1>3. \A n \in N \X Corners : CornerRoots(N)[n] \in C <=> n \in C
  <2> HIDE DEF C
  <2> QED BY <1>1, <1>2, RootWithin
<1> HIDE DEF C
<1>4. Fiber(N, x) \subseteq C
  <2> SUFFICES ASSUME NEW m \in Fiber(N, x) PROVE m \in C
    OBVIOUS
  <2>1. m \in N \X Corners /\ CornerRoots(N)[m] = CornerRoots(N)[x] BY DEF Fiber
  <2>2. CornerRoots(N)[x] \in C BY <1>1, <1>3
  <2> QED BY <1>3, <2>1, <2>2
<1> QED BY <1>4 DEF C

\* What is united in a part of the level is united in the level,
LEMMA FiberGrows ==
  ASSUME NEW T \in SUBSET Tiles, NEW N \in SUBSET T, NEW x \in N \X Corners
  PROVE  Fiber(N, x) \subseteq Fiber(T, x)
<1> DEFINE C == Fiber(T, x) \cap (N \X Corners)
<1>1. C \in SUBSET (N \X Corners) /\ x \in C BY DEF Fiber
<1>2. ASSUME NEW t \in N, NEW e \in Edges, NEW h \in BOOLEAN, Neighbor(t, e).key \in N,
             <<t, EdgeCorner(e, h)>> \in C
      PROVE  CornerAcross(t, e, h) \in C
  <2>1. CornerRoots(T)[<<t, EdgeCorner(e, h)>>] = CornerRoots(T)[CornerAcross(t, e, h)]
    BY <1>2, StepsJoin
  <2>2. CornerAcross(t, e, h) \in Tiles \X Corners BY CornerAcrossBack
  <2>3. CornerAcross(t, e, h)[1] = Neighbor(t, e).key BY DEF CornerAcross
  <2>4. CornerAcross(t, e, h) \in N \X Corners BY <1>2, <2>2, <2>3
  <2>5. CornerRoots(T)[<<t, EdgeCorner(e, h)>>] = CornerRoots(T)[x] BY <1>2 DEF Fiber
  <2>6. CornerAcross(t, e, h) \in T \X Corners BY <2>4
  <2> QED BY <2>1, <2>4, <2>5, <2>6 DEF Fiber
<1>3. \A n \in N \X Corners : CornerRoots(N)[n] \in C <=> n \in C
  <2>1. N \in SUBSET Tiles OBVIOUS
  <2> HIDE DEF C
  <2> QED BY <1>1, <1>2, <2>1, RootWithin
<1> HIDE DEF C
<1>4. Fiber(N, x) \subseteq C
  <2> SUFFICES ASSUME NEW m \in Fiber(N, x) PROVE m \in C
    OBVIOUS
  <2>1. m \in N \X Corners /\ CornerRoots(N)[m] = CornerRoots(N)[x] BY DEF Fiber
  <2>2. CornerRoots(N)[x] \in C BY <1>1, <1>3
  <2> QED BY <1>3, <2>1, <2>2
<1> QED BY <1>4 DEF C

\* and what is united with a corner of a tile in the level is united with it in two
\* rings around the tile.
LEMMA FiberInRings ==
  ASSUME NEW T, NEW N, NEW t, TwoRings(T, N, t), NEW c \in Corners
  PROVE  Fiber(T, <<t, c>>) = Fiber(N, <<t, c>>)
<1> DEFINE x == <<t, c>>
           C == Fiber(N, x)
<1>1. T \in SUBSET Tiles /\ N \in SUBSET T /\ t \in N /\ N \in SUBSET Tiles /\ t \in Tiles
  BY DEF TwoRings
<1>2. x \in N \X Corners /\ x[1] = t BY <1>1
<1>3. PICK n1, n2, d : IsStar(x, n1, n2, d) BY <1>1, Stars
<1> HIDE DEF x
<1>4. C \subseteq {x, n1, n2, d} /\ C \in SUBSET (N \X Corners) /\ x \in C
  BY <1>1, <1>2, <1>3, FiberInStar DEF Fiber
<1>5. \A e \in Edges : Neighbor(t, e).key \in T =>
        /\ Neighbor(t, e).key \in N
        /\ \A b \in Edges : Neighbor(Neighbor(t, e).key, b).key \in T => Neighbor(Neighbor(t, e).key, b).key \in N
  BY DEF TwoRings
<1>6. PICK e1 \in Edges : n1[1] = Neighbor(t, e1).key BY <1>2, <1>3 DEF IsStar
<1>7. PICK e2 \in Edges : n2[1] = Neighbor(t, e2).key BY <1>2, <1>3 DEF IsStar
<1>8. ASSUME NEW u \in T, NEW e \in Edges, NEW h \in BOOLEAN, Neighbor(u, e).key \in T,
             <<u, EdgeCorner(e, h)>> \in C
      PROVE  CornerAcross(u, e, h) \in C
  <2> DEFINE y == CornerAcross(u, e, h)
             m == <<u, EdgeCorner(e, h)>>
  <2>1. u \in N /\ u \in Tiles
    <3>1. m \in N \X Corners /\ m[1] = u BY <1>4, <1>8
    <3> QED BY <1>1, <3>1
  <2>2. y \in Leads(m) /\ y \in Tiles \X Corners BY <2>1, LeadsAcross, CornerAcrossBack
  <2>3. y[1] = Neighbor(u, e).key /\ m[1] = u BY DEF CornerAcross
  <2>4. m \in C BY <1>8
  <2> HIDE DEF y, m
  <2>5. y[1] \in N
    <3>1. m = x \/ m = n1 \/ m = n2 \/ m = d BY <1>4, <1>8, <2>4
    <3>2. y[1] \in T BY <1>8, <2>3
    <3>3. CASE m = n1 BY <1>5, <1>6, <1>8, <2>3, <3>2, <3>3
    <3>4. CASE m = n2 BY <1>5, <1>7, <1>8, <2>3, <3>2, <3>4
    <3>5. CASE m = x
      <4>1. u = t BY <1>2, <2>3, <3>5
      <4> QED BY <1>5, <1>8, <2>3, <3>2, <4>1
    <3>6. CASE m = d
      <4>1. y = x \/ y = n1 \/ y = n2 BY <1>3, <2>2, <3>6 DEF IsStar
      <4>2. CASE y = x BY <1>1, <1>2, <4>2
      <4>3. CASE y = n1 BY <1>5, <1>6, <3>2, <4>3
      <4>4. CASE y = n2 BY <1>5, <1>7, <3>2, <4>4
      <4> QED BY <4>1, <4>2, <4>3, <4>4
    <3> QED BY <3>1, <3>3, <3>4, <3>5, <3>6
  <2>6. y \in N \X Corners BY <2>2, <2>5
  <2>7. CornerRoots(N)[m] = CornerRoots(N)[y]
    <3>1. Neighbor(u, e).key \in N BY <2>3, <2>5
    <3> QED BY <1>1, <2>1, <3>1, StepsJoin DEF m, y
  <2>8. CornerRoots(N)[m] = CornerRoots(N)[x] BY <2>4 DEF Fiber
  <2> QED BY <2>6, <2>7, <2>8 DEF Fiber, y
<1>9. Fiber(T, x) \subseteq C
  <2>1. C \in SUBSET (T \X Corners) BY <1>1, <1>4
  <2> HIDE DEF C
  <2>2. \A n \in T \X Corners : CornerRoots(T)[n] \in C <=> n \in C
    BY <1>1, <1>8, <2>1, RootWithin
  <2> SUFFICES ASSUME NEW m \in Fiber(T, x) PROVE m \in C
    OBVIOUS
  <2>3. m \in T \X Corners /\ CornerRoots(T)[m] = CornerRoots(T)[x] BY DEF Fiber
  <2>4. x \in T \X Corners BY <1>1, <1>2
  <2>5. CornerRoots(T)[x] \in C BY <1>4, <2>2, <2>4
  <2> QED BY <2>2, <2>3, <2>5
<1>10. C \subseteq Fiber(T, x) BY <1>1, <1>2, FiberGrows
<1>11. Fiber(T, x) = C BY <1>9, <1>10
<1> QED BY <1>11 DEF x

OwnerOf(T, x) == CornerOwners(CornerRoots(T))[CornerRoots(T)[x]]

LEMMA OwnerLowest ==
  ASSUME NEW T \in SUBSET Tiles, NEW x \in T \X Corners
  PROVE  /\ OwnerOf(T, x) \in Fiber(T, x) /\ OwnerOf(T, x) \in T \X Corners
         /\ \A o \in Fiber(T, x) : Rank(OwnerOf(T, x)) <= Rank(o)
<1> DEFINE root == CornerRoots(T)
<1>1. DOMAIN root = T \X Corners BY CornersJoined
<1> HIDE DEF root
<1>2. \A f, n : DOMAIN f = T \X Corners /\ n \in DOMAIN f =>
          /\ CornerOwners(f)[f[n]] \in DOMAIN f /\ f[CornerOwners(f)[f[n]]] = f[n]
          /\ \A o \in DOMAIN f : f[o] = f[n] => Rank(CornerOwners(f)[f[n]]) <= Rank(o)
    BY OwnerOfGroup, Zenon
<1> DEFINE w == CornerOwners(root)[root[x]]
<1>3. /\ w \in T \X Corners /\ root[w] = root[x]
      /\ \A o \in T \X Corners : root[o] = root[x] => Rank(w) <= Rank(o)
  BY <1>1, <1>2, Zenon
<1> HIDE DEF w
<1>4. w = OwnerOf(T, x) BY DEF w, OwnerOf, root
<1>5. Fiber(T, x) = {m \in T \X Corners : root[m] = root[x]} BY DEF Fiber, root
<1> QED BY <1>3, <1>4, <1>5

\* Corners that are united have one owner.
LEMMA OwnerSame ==
  ASSUME NEW T \in SUBSET Tiles, NEW N \in SUBSET Tiles, NEW x \in T \X Corners, NEW y \in N \X Corners,
         Fiber(T, x) = Fiber(N, y)
  PROVE  OwnerOf(T, x) = OwnerOf(N, y)
<1> DEFINE v == OwnerOf(T, x)
           w == OwnerOf(N, y)
<1>1. /\ v \in Fiber(T, x) /\ v \in Tiles \X Corners /\ w \in Fiber(N, y) /\ w \in Tiles \X Corners
      /\ Rank(v) <= Rank(w) /\ Rank(w) <= Rank(v)
  BY OwnerLowest
<1> HIDE DEF v, w
<1>2. Ranked(Tiles \X Corners)
  <2>1. Tiles \in SUBSET Tiles OBVIOUS
  <2> QED BY <2>1, RanksApart
<1>3. Rank(v) \in Nat /\ Rank(w) \in Nat BY <1>1, <1>2 DEF Ranked
<1>4. Rank(v) = Rank(w) BY <1>1, <1>3
<1>5. v = w BY <1>1, <1>2, <1>4 DEF Ranked
<1> QED BY <1>5 DEF v, w

-----------------------------------------------------------------------------
(* Where the sample that a batch leaves in a place was taken *)

Receives(T, t, s) == \E p \in Patches(T) : p.receiver = t /\ p.sample = s

Origin(T, t, s) ==
  IF Receives(T, t, s)
  THEN LET p == CHOOSE q \in Patches(T) : q.receiver = t /\ q.sample = s IN <<p.owner, p.from>>
  ELSE <<t, s>>

LEMMA OriginOfPatch ==
  ASSUME NEW T \in SUBSET Tiles, NEW p \in Patches(T)
  PROVE  Origin(T, p.receiver, p.sample) = <<p.owner, p.from>>
<1>1. Independent(Patches(T)) BY PatchesApart
<1> DEFINE q == CHOOSE q \in Patches(T) : q.receiver = p.receiver /\ q.sample = p.sample
<1>2. q \in Patches(T) /\ q.receiver = p.receiver /\ q.sample = p.sample OBVIOUS
<1>3. Receives(T, p.receiver, p.sample) BY DEF Receives
<1>4. Origin(T, p.receiver, p.sample) = <<q.owner, q.from>> BY <1>3, Zenon DEF Origin
<1> HIDE DEF q
<1>5. q = p BY <1>1, <1>2 DEF Independent
<1> QED BY <1>4, <1>5

LEMMA EdgePatchFields ==
  ASSUME NEW T \in SUBSET Tiles, NEW p \in EdgePatches(T)
  PROVE  \E t \in T, e \in Edges, i \in 1 .. Last - 1 :
           /\ Neighbor(t, e).key \in T /\ Key(t) < Key(Neighbor(t, e).key)
           /\ p.owner = t /\ p.from = EdgeSample(e, i)
           /\ p.receiver = Neighbor(t, e).key /\ Neighbor(t, e).edge \in Edges
           /\ p.sample = EdgeSample(Neighbor(t, e).edge, Mapped(Neighbor(t, e), i))
           /\ Mapped(Neighbor(t, e), i) \in 1 .. Last - 1
<1>1. PICK t \in T, e \in Edges, i \in 1 .. Last - 1 : <<t, e>> \in Owned(T) /\ p = EdgePatch(t, e, i)
  BY EdgePatchOf
<1>2. Neighbor(t, e).key \in T /\ Key(t) < Key(Neighbor(t, e).key) BY <1>1, OwnedMeans
<1>3. Mapped(Neighbor(t, e), i) \in 1 .. Last - 1 BY MappedInside
<1>4. Neighbor(t, e).edge \in Edges BY ThereAndBack
<1> QED BY <1>1, <1>2, <1>3, <1>4 DEF EdgePatch, Patch

LEMMA CornerPatchFields ==
  ASSUME NEW T \in SUBSET Tiles, NEW p \in CornerPatches(T)
  PROVE  \E x \in T \X Corners :
           /\ OwnerOf(T, x) # x /\ OwnerOf(T, x) \in T \X Corners
           /\ p.receiver = x[1] /\ p.sample = CornerSample(x[2])
           /\ p.owner = OwnerOf(T, x)[1] /\ p.from = CornerSample(OwnerOf(T, x)[2])
<1> DEFINE root == CornerRoots(T)
<1>1. PICK x \in T \X Corners, w \in T \X Corners :
        /\ w = CornerOwners(root)[root[x]] /\ w # x
        /\ p = Patch(x[1], CornerSample(x[2]), w[1], CornerSample(w[2]))
  BY CornerPatchOf
<1>2. w = OwnerOf(T, x) BY <1>1, Zenon DEF OwnerOf
<1>3. /\ p.receiver = x[1] /\ p.sample = CornerSample(x[2])
      /\ p.owner = w[1] /\ p.from = CornerSample(w[2])
  BY <1>1 DEF Patch
<1> QED BY <1>1, <1>2, <1>3

LEMMA CornerPatchExists ==
  ASSUME NEW T \in SUBSET Tiles, NEW x \in T \X Corners, OwnerOf(T, x) # x
  PROVE  \E p \in CornerPatches(T) :
           /\ p.receiver = x[1] /\ p.sample = CornerSample(x[2])
           /\ p.owner = OwnerOf(T, x)[1] /\ p.from = CornerSample(OwnerOf(T, x)[2])
<1> DEFINE root == CornerRoots(T)
           owner == CornerOwners(root)
           w == owner[root[x]]
           p == Patch(x[1], CornerSample(x[2]), w[1], CornerSample(w[2]))
<1>1. DOMAIN root = T \X Corners BY CornersJoined
<1>2. w = OwnerOf(T, x) BY Zenon DEF OwnerOf
<1>3. CornerPatches(T) = PatchesFrom(root, owner) BY Zenon DEF CornerPatches
<1> HIDE DEF root, owner
<1>4. p \in PatchesFrom(root, owner) BY <1>1, <1>2 DEF PatchesFrom
<1>5. /\ p.receiver = x[1] /\ p.sample = CornerSample(x[2])
      /\ p.owner = w[1] /\ p.from = CornerSample(w[2])
  BY DEF Patch
<1> HIDE DEF p, w
<1> QED BY <1>2, <1>3, <1>4, <1>5

\* Inside an edge: the lower of the two tiles, if both are in the batch.
Across1(t, e, i) == LET n == Neighbor(t, e) IN <<n.key, EdgeSample(n.edge, Mapped(n, i))>>

Lower1(T, t, e) == Neighbor(t, e).key \in T /\ Key(Neighbor(t, e).key) < Key(t)

LEMMA OriginInEdge ==
  ASSUME NEW T \in SUBSET Tiles, NEW t \in T, NEW e \in Edges, NEW i \in 1 .. Last - 1
  PROVE  Origin(T, t, EdgeSample(e, i)) =
           IF Lower1(T, t, e) THEN Across1(t, e, i) ELSE <<t, EdgeSample(e, i)>>
<1> DEFINE n == Neighbor(t, e)
           b == Neighbor(n.key, n.edge)
           j == Mapped(n, i)
           s == EdgeSample(e, i)
<1>1. /\ n.key \in Tiles /\ n.edge \in Edges /\ b.key = t /\ b.edge = e
      /\ (b.reversed <=> n.reversed)
  BY NeighborReciprocal
<1>2. j \in 1 .. Last - 1 /\ Mapped(b, j) = i BY <1>1, MappedInside
<1> HIDE DEF b, j, s
<1>3. CASE Lower1(T, t, e)
  <2>1. n.key \in T /\ <<n.key, n.edge>> \in Owned(T) BY <1>1, <1>3, OwnedMeans DEF Lower1, b
  <2> DEFINE p == EdgePatch(n.key, n.edge, j)
  <2>2. p \in EdgePatches(T) BY <1>1, <1>2, <2>1, EdgePatchOf
  <2>3. p = Patch(t, s, n.key, EdgeSample(n.edge, j)) BY <1>1, <1>2, Zenon DEF EdgePatch, s, b
  <2>4. /\ p.receiver = t /\ p.sample = s /\ p.owner = n.key /\ p.from = EdgeSample(n.edge, j)
    BY <2>3 DEF Patch
  <2> HIDE DEF p, n
  <2>5. p \in Patches(T) BY <2>2 DEF Patches
  <2>6. Origin(T, t, s) = <<n.key, EdgeSample(n.edge, j)>> BY <2>4, <2>5, OriginOfPatch
  <2> QED BY <1>3, <2>6 DEF Across1, n, j, s
<1>4. CASE ~Lower1(T, t, e)
  <2>1. ~Receives(T, t, s)
    <3> SUFFICES ASSUME NEW p \in Patches(T), p.receiver = t, p.sample = s PROVE FALSE
      BY DEF Receives
    <3>1. CASE p \in EdgePatches(T)
      <4>1. PICK u \in T, d \in Edges, k \in 1 .. Last - 1 :
              /\ Neighbor(u, d).key \in T /\ Key(u) < Key(Neighbor(u, d).key)
              /\ p.receiver = Neighbor(u, d).key /\ Neighbor(u, d).edge \in Edges
              /\ p.sample = EdgeSample(Neighbor(u, d).edge, Mapped(Neighbor(u, d), k))
              /\ Mapped(Neighbor(u, d), k) \in 1 .. Last - 1
        BY <3>1, EdgePatchFields
      <4>2. Neighbor(u, d).key = t /\ Neighbor(u, d).edge = e
        <5>1. EdgeSample(e, i) = EdgeSample(Neighbor(u, d).edge, Mapped(Neighbor(u, d), k)) BY <4>1 DEF s
        <5>2. e = Neighbor(u, d).edge BY <4>1, <5>1, EdgeSamplesDiffer
        <5> QED BY <4>1, <5>2
      <4>3. n.key = u BY <4>2, ThereAndBack
      <4> QED BY <1>4, <4>1, <4>2, <4>3 DEF Lower1
    <3>2. CASE p \in CornerPatches(T)
      <4>1. PICK x \in T \X Corners : p.sample = CornerSample(x[2]) BY <3>2, CornerPatchFields
      <4>2. x[2] \in Corners OBVIOUS
      <4> QED BY <4>1, <4>2, EdgesWithoutCorners DEF s
    <3> QED BY <3>1, <3>2 DEF Patches
  <2> QED BY <1>4, <2>1 DEF Origin, s
<1> QED BY <1>3, <1>4

\* At a corner: the owner of what is united there.
LEMMA OriginAtCorner ==
  ASSUME NEW T \in SUBSET Tiles, NEW t \in T, NEW c \in Corners
  PROVE  Origin(T, t, CornerSample(c)) =
           <<OwnerOf(T, <<t, c>>)[1], CornerSample(OwnerOf(T, <<t, c>>)[2])>>
<1> DEFINE x == <<t, c>>
           w == OwnerOf(T, x)
           s == CornerSample(c)
<1>1. x \in T \X Corners /\ x[1] = t /\ x[2] = c OBVIOUS
<1> HIDE DEF x, s
<1>2. CASE w # x
  <2>1. PICK p \in CornerPatches(T) :
           /\ p.receiver = x[1] /\ p.sample = CornerSample(x[2])
           /\ p.owner = w[1] /\ p.from = CornerSample(w[2])
    BY <1>1, <1>2, CornerPatchExists
  <2>2. p \in Patches(T) BY DEF Patches
  <2>3. Origin(T, p.receiver, p.sample) = <<p.owner, p.from>> BY <2>2, OriginOfPatch
  <2>4. p.receiver = t /\ p.sample = s BY <1>1, <2>1 DEF s
  <2>5. Origin(T, t, s) = <<w[1], CornerSample(w[2])>> BY <2>1, <2>3, <2>4
  <2> QED BY <2>5 DEF x, s
<1>3. CASE w = x
  <2>1. ~Receives(T, t, s)
    <3> SUFFICES ASSUME NEW p \in Patches(T), p.receiver = t, p.sample = s PROVE FALSE
      BY DEF Receives
    <3>1. CASE p \in EdgePatches(T)
      <4>1. PICK u \in T, d \in Edges, k \in 1 .. Last - 1 :
              /\ Neighbor(u, d).edge \in Edges
              /\ p.sample = EdgeSample(Neighbor(u, d).edge, Mapped(Neighbor(u, d), k))
              /\ Mapped(Neighbor(u, d), k) \in 1 .. Last - 1
        BY <3>1, EdgePatchFields
      <4> QED BY <4>1, EdgesWithoutCorners DEF s
    <3>2. CASE p \in CornerPatches(T)
      <4>1. PICK y \in T \X Corners : /\ OwnerOf(T, y) # y
                                      /\ p.receiver = y[1] /\ p.sample = CornerSample(y[2])
        BY <3>2, CornerPatchFields
      <4>2. y[2] \in Corners OBVIOUS
      <4>3. y[2] = c BY <4>1, <4>2, CornerSamplesDiffer DEF s
      <4>4. y = x BY <1>1, <4>1, <4>3
      <4> QED BY <1>3, <4>1, <4>4
    <3> QED BY <3>1, <3>2 DEF Patches
  <2>2. Origin(T, t, s) = <<t, s>> BY <2>1 DEF Origin
  <2>3. s = CornerSample(x[2]) BY <1>1 DEF s
  <2> QED BY <1>1, <1>3, <2>2, <2>3 DEF x, s
<1> QED BY <1>2, <1>3

AtCorner(s) == \E c \in Corners : s = CornerSample(c)
InEdge(s) == \E e \in Edges, i \in 1 .. Last - 1 : s = EdgeSample(e, i)

LEMMA OriginInside ==
  ASSUME NEW T \in SUBSET Tiles, NEW t, NEW s, ~AtCorner(s), ~InEdge(s)
  PROVE  Origin(T, t, s) = <<t, s>>
<1>1. ~Receives(T, t, s)
  <2> SUFFICES ASSUME NEW p \in Patches(T), p.sample = s PROVE FALSE
    BY DEF Receives
  <2>1. CASE p \in EdgePatches(T)
    <3>1. PICK u \in T, d \in Edges, k \in 1 .. Last - 1 :
              /\ Neighbor(u, d).edge \in Edges
              /\ p.sample = EdgeSample(Neighbor(u, d).edge, Mapped(Neighbor(u, d), k))
              /\ Mapped(Neighbor(u, d), k) \in 1 .. Last - 1
      BY <2>1, EdgePatchFields
    <3> QED BY <3>1 DEF InEdge
  <2>2. CASE p \in CornerPatches(T)
    <3>1. PICK y \in T \X Corners : p.sample = CornerSample(y[2]) BY <2>2, CornerPatchFields
    <3>2. y[2] \in Corners OBVIOUS
    <3> QED BY <3>1, <3>2 DEF AtCorner
  <2> QED BY <2>1, <2>2 DEF Patches
<1> QED BY <1>1 DEF Origin

\* What a sample is taken from is not itself replaced.
LEMMA OriginFixed ==
  ASSUME NEW T \in SUBSET Tiles, NEW t \in T, NEW s \in Samples
  PROVE  LET o == Origin(T, t, s)
         IN  /\ o[1] \in T /\ o[2] \in Samples /\ o = <<o[1], o[2]>>
             /\ Origin(T, o[1], o[2]) = o
<1> DEFINE o == Origin(T, t, s)
<1>1. CASE Receives(T, t, s)
  <2>1. PICK p \in Patches(T) : p.receiver = t /\ p.sample = s BY <1>1 DEF Receives
  <2>2. o = <<p.owner, p.from>> BY <2>1, OriginOfPatch
  <2>3. p.owner \in T /\ p.from \in Samples
    <3>1. CASE p \in EdgePatches(T)
      <4>1. PICK u \in T, e \in Edges, i \in 1 .. Last - 1 : p.owner = u /\ p.from = EdgeSample(e, i)
        BY <3>1, EdgePatchFields
      <4>2. EdgeSample(e, i) \in Samples BY LatticeAssumption DEF EdgeSample, Samples, Parameters
      <4> QED BY <4>1, <4>2
    <3>2. CASE p \in CornerPatches(T)
      <4>1. PICK w \in T \X Corners : p.owner = w[1] /\ p.from = CornerSample(w[2])
        BY <3>2, CornerPatchFields
      <4>2. CornerSample(w[2]) \in Samples BY LatticeAssumption DEF CornerSample, Samples, Parameters
      <4> QED BY <4>1, <4>2
    <3> QED BY <3>1, <3>2 DEF Patches
  <2>4. ~Receives(T, p.owner, p.from)
    <3>1. Independent(Patches(T)) BY PatchesApart
    <3> QED BY <3>1 DEF Independent, Receives
  <2>5. Origin(T, p.owner, p.from) = <<p.owner, p.from>> BY <2>4 DEF Origin
  <2> HIDE DEF o
  <2>6. o[1] = p.owner /\ o[2] = p.from BY <2>2
  <2>7. /\ o[1] \in T /\ o[2] \in Samples /\ o = <<o[1], o[2]>>
        /\ Origin(T, o[1], o[2]) = o
    BY <2>2, <2>3, <2>5, <2>6
  <2> QED BY <2>7 DEF o
<1>2. CASE ~Receives(T, t, s)
  <2>1. o = <<t, s>> BY <1>2 DEF Origin
  <2> QED BY <2>1
<1> QED BY <1>1, <1>2

LEMMA OriginAgrees ==
  ASSUME NEW T \in SUBSET Tiles, NEW N \in SUBSET T, NEW u \in N,
         \A e \in Edges : Neighbor(u, e).key \in T => Neighbor(u, e).key \in N,
         NEW s \in Samples, ~AtCorner(s)
  PROVE  Origin(N, u, s) = Origin(T, u, s)
<1>1. N \in SUBSET Tiles /\ u \in T OBVIOUS
<1>2. CASE InEdge(s)
  <2>1. PICK e \in Edges, i \in 1 .. Last - 1 : s = EdgeSample(e, i) BY <1>2 DEF InEdge
  <2>2. Lower1(T, u, e) <=> Lower1(N, u, e) BY DEF Lower1
  <2>3. Origin(N, u, s) = IF Lower1(N, u, e) THEN Across1(u, e, i) ELSE <<u, s>>
    BY <1>1, <2>1, OriginInEdge
  <2>4. Origin(T, u, s) = IF Lower1(T, u, e) THEN Across1(u, e, i) ELSE <<u, s>>
    BY <1>1, <2>1, OriginInEdge
  <2> QED BY <2>2, <2>3, <2>4
<1>3. CASE ~InEdge(s)
  <2>1. Origin(N, u, s) = <<u, s>> BY <1>1, <1>3, OriginInside
  <2>2. Origin(T, u, s) = <<u, s>> BY <1>1, <1>3, OriginInside
  <2> QED BY <2>1, <2>2
<1> QED BY <1>2, <1>3

\* The samples of a tile, and the rows of its neighbors next to it, come from where
\* they would come from in the whole level.
LEMMA OriginInRings ==
  ASSUME NEW T, NEW N, NEW t, TwoRings(T, N, t)
  PROVE  /\ \A s \in Samples : Origin(N, t, s) = Origin(T, t, s)
         /\ \A e \in Edges, s \in Samples :
              Neighbor(t, e).key \in T /\ ~AtCorner(s) =>
                Origin(N, Neighbor(t, e).key, s) = Origin(T, Neighbor(t, e).key, s)
<1>1. T \in SUBSET Tiles /\ N \in SUBSET T /\ t \in N /\ N \in SUBSET Tiles /\ t \in T
  BY DEF TwoRings
<1>2. ASSUME NEW s \in Samples PROVE Origin(N, t, s) = Origin(T, t, s)
  <2>1. CASE ~AtCorner(s)
    <3>1. \A e \in Edges : Neighbor(t, e).key \in T => Neighbor(t, e).key \in N BY DEF TwoRings
    <3> QED BY <1>1, <2>1, <3>1, OriginAgrees
  <2>2. CASE AtCorner(s)
    <3>1. PICK c \in Corners : s = CornerSample(c) BY <2>2 DEF AtCorner
    <3>2. <<t, c>> \in T \X Corners /\ <<t, c>> \in N \X Corners BY <1>1
    <3>3. Fiber(T, <<t, c>>) = Fiber(N, <<t, c>>) BY FiberInRings
    <3>4. OwnerOf(T, <<t, c>>) = OwnerOf(N, <<t, c>>) BY <1>1, <3>2, <3>3, OwnerSame
    <3>5. Origin(T, t, s) = <<OwnerOf(T, <<t, c>>)[1], CornerSample(OwnerOf(T, <<t, c>>)[2])>>
      BY <1>1, <3>1, OriginAtCorner
    <3>6. Origin(N, t, s) = <<OwnerOf(N, <<t, c>>)[1], CornerSample(OwnerOf(N, <<t, c>>)[2])>>
      BY <1>1, <3>1, OriginAtCorner
    <3> QED BY <3>4, <3>5, <3>6
  <2> QED BY <2>1, <2>2
<1>3. ASSUME NEW e \in Edges, NEW s \in Samples, Neighbor(t, e).key \in T, ~AtCorner(s)
      PROVE  Origin(N, Neighbor(t, e).key, s) = Origin(T, Neighbor(t, e).key, s)
  <2> DEFINE u == Neighbor(t, e).key
  <2>1. u \in N /\ \A d \in Edges : Neighbor(u, d).key \in T => Neighbor(u, d).key \in N
    BY <1>3 DEF TwoRings
  <2> HIDE DEF u
  <2>2. Origin(N, u, s) = Origin(T, u, s) BY <1>1, <1>3, <2>1, OriginAgrees
  <2> QED BY <2>2 DEF u
<1> QED BY <1>2, <1>3

Left(patches, cores, t, s) ==
  LET mine == {p \in patches : p.receiver = t}
  IN  IF \E p \in mine : p.sample = s
      THEN LET p == CHOOSE q \in mine : q.sample = s IN cores[p.owner][p.from]
      ELSE cores[t][s]

LEMMA ResolveIs ==
  ASSUME NEW T \in SUBSET Tiles, NEW cores, DOMAIN cores = T
  PROVE  /\ DOMAIN Resolve(cores) = T
         /\ \A t \in T : Resolve(cores)[t]
              = [s \in Samples |-> cores[Origin(T, t, s)[1]][Origin(T, t, s)[2]]]
<1> DEFINE patches == Patches(T)
<1>1. Independent(patches) BY PatchesApart
<1>2. Resolve(cores) = Apply(patches, cores) BY DEF Resolve
<1>3. ASSUME NEW t \in T, NEW s \in Samples
      PROVE  Left(patches, cores, t, s) = cores[Origin(T, t, s)[1]][Origin(T, t, s)[2]]
  <2> DEFINE mine == {p \in patches : p.receiver = t}
             q == CHOOSE q \in mine : q.sample = s
  <2>1. Left(patches, cores, t, s)
          = IF \E p \in mine : p.sample = s THEN cores[q.owner][q.from] ELSE cores[t][s]
    BY Zenon DEF Left
  <2>2. CASE \E p \in mine : p.sample = s
    <3>1. q \in mine /\ q.sample = s BY <2>2
    <3> HIDE DEF q
    <3>2. q \in patches /\ q.receiver = t BY <3>1
    <3>3. Origin(T, t, s) = <<q.owner, q.from>> BY <3>1, <3>2, OriginOfPatch
    <3>4. cores[q.owner][q.from] = cores[Origin(T, t, s)[1]][Origin(T, t, s)[2]] BY <3>3
    <3> HIDE DEF mine
    <3> QED BY <2>1, <2>2, <3>4
  <2>3. CASE ~\E p \in mine : p.sample = s
    <3>1. ~Receives(T, t, s) BY <2>3 DEF Receives
    <3>2. Origin(T, t, s) = <<t, s>> BY <3>1 DEF Origin
    <3>3. cores[t][s] = cores[Origin(T, t, s)[1]][Origin(T, t, s)[2]] BY <3>2
    <3> HIDE DEF mine, q
    <3> QED BY <2>1, <2>3, <3>3
  <2> QED BY <2>2, <2>3
<1> HIDE DEF patches
<1>4. Apply(patches, cores) = [t \in T |-> [s \in Samples |-> Left(patches, cores, t, s)]]
  BY Zenon DEF Apply, Left
<1>5. Apply(patches, cores) =
        [t \in T |-> [s \in Samples |-> cores[Origin(T, t, s)[1]][Origin(T, t, s)[2]]]]
  BY <1>3, <1>4
<1> QED BY <1>2, <1>5

LEMMA NextToEdge ==
  ASSUME NEW e \in Edges, NEW p \in Parameters
  PROVE  InteriorEdgeSample(e, p) \in Samples /\ ~AtCorner(InteriorEdgeSample(e, p))
<1>1. \A a, b, c, d : <<a, b>> = <<c, d>> => a = c /\ b = d OBVIOUS
<1>2. InteriorEdgeSample(e, p) \in Samples
  BY LatticeAssumption DEF InteriorEdgeSample, Samples, Parameters, Edges
<1>3. 1 # 0 /\ 1 # Last /\ Last - 1 # 0 /\ Last - 1 # Last BY LatticeAssumption
<1>4. ASSUME NEW c \in Corners, InteriorEdgeSample(e, p) = CornerSample(c)
      PROVE  FALSE
  <2>1. PICK a \in {0, Last}, b \in {0, Last} : CornerSample(c) = <<a, b>> BY DEF CornerSample, Corners
  <2>2. PICK u, v : /\ InteriorEdgeSample(e, p) = <<u, v>>
                    /\ u \in {1, Last - 1} \/ v \in {1, Last - 1}
    BY DEF InteriorEdgeSample, Edges
  <2>3. a = u /\ b = v BY <1>1, <1>4, <2>1, <2>2
  <2> QED BY <1>3, <2>2, <2>3
<1> QED BY <1>2, <1>4 DEF AtCorner

LEMMA MappedIn ==
  ASSUME NEW n, NEW p \in Parameters
  PROVE  Mapped(n, p) \in Parameters
BY LatticeAssumption DEF Mapped, Parameters

\* What is left of a tile, with its apron, when a batch is resolved as a whole.
ApronOrigin(T, t, e, p) ==
  LET n == Neighbor(t, e)
      sample == InteriorEdgeSample(n.edge, Mapped(n, p))
  IN  IF n.key \in T THEN Origin(T, n.key, sample) ELSE <<n.key, sample>>

Final(T, t) ==
  [core |-> [s \in Samples |-> Origin(T, t, s)],
   apron |-> [e \in Edges |-> [p \in Parameters |-> ApronOrigin(T, t, e, p)]]]

LEMMA ApronIs ==
  ASSUME NEW T, NEW N, NEW t, TwoRings(T, N, t), NEW resolved, DOMAIN resolved = N,
         resolved[t] = [s \in Samples |-> Origin(T, t, s)],
         \A e \in Edges, s \in Samples : Neighbor(t, e).key \in N /\ ~AtCorner(s) =>
           resolved[Neighbor(t, e).key][s] = Origin(T, Neighbor(t, e).key, s)
  PROVE  WithApron(t, resolved) = Final(T, t)
<1> DEFINE Shown(e, p) == LET n == Neighbor(t, e)
                              sample == InteriorEdgeSample(n.edge, Mapped(n, p))
                          IN  IF n.key \in N THEN resolved[n.key][sample] ELSE <<n.key, sample>>
<1>1. ASSUME NEW e \in Edges, NEW p \in Parameters PROVE Shown(e, p) = ApronOrigin(T, t, e, p)
  <2> DEFINE n == Neighbor(t, e)
             sample == InteriorEdgeSample(n.edge, Mapped(n, p))
  <2>1. n.key \in T <=> n.key \in N BY DEF TwoRings
  <2>2. n.edge \in Edges /\ Mapped(n, p) \in Parameters
    <3>1. t \in Tiles BY DEF TwoRings
    <3> QED BY <3>1, ThereAndBack, MappedIn
  <2>3. sample \in Samples /\ ~AtCorner(sample) BY <2>2, NextToEdge
  <2> HIDE DEF sample
  <2>4. n.key \in N => resolved[n.key][sample] = Origin(T, n.key, sample) BY <2>3
  <2>5. Shown(e, p) = IF n.key \in N THEN resolved[n.key][sample] ELSE <<n.key, sample>>
    BY Zenon DEF sample
  <2>6. ApronOrigin(T, t, e, p) = IF n.key \in T THEN Origin(T, n.key, sample) ELSE <<n.key, sample>>
    BY Zenon DEF ApronOrigin, sample
  <2> HIDE DEF n, Shown
  <2> QED BY <2>1, <2>4, <2>5, <2>6
<1>2. WithApron(t, resolved) =
        [core |-> resolved[t], apron |-> [e \in Edges |-> [p \in Parameters |-> Shown(e, p)]]]
  BY Zenon DEF WithApron
<1> HIDE DEF Shown
<1>3. [e \in Edges |-> [p \in Parameters |-> Shown(e, p)]]
        = [e \in Edges |-> [p \in Parameters |-> ApronOrigin(T, t, e, p)]]
  BY <1>1
<1> QED BY <1>2, <1>3, Zenon DEF Final

LEMMA BatchIs ==
  ASSUME NEW T \in SUBSET Tiles, NEW t \in T
  PROVE  Finalize([u \in T |-> Sampled(u)])[t] = Final(T, t)
<1> DEFINE cores == [u \in T |-> Sampled(u)]
           resolved == Resolve(cores)
<1>1. DOMAIN cores = T OBVIOUS
<1>2. \A u \in T, s \in Samples : cores[u][s] = <<u, s>> BY DEF Sampled
<1> HIDE DEF cores
<1>3. /\ DOMAIN resolved = T
      /\ \A u \in T : resolved[u] = [s \in Samples |-> cores[Origin(T, u, s)[1]][Origin(T, u, s)[2]]]
  BY <1>1, ResolveIs
<1>4. Finalize(cores) = [u \in T |-> WithApron(u, resolved)] BY <1>1, Zenon DEF Finalize
<1> HIDE DEF resolved
<1>5. \A u \in T, s \in Samples : cores[Origin(T, u, s)[1]][Origin(T, u, s)[2]] = Origin(T, u, s)
  BY <1>2, OriginFixed
<1>6. \A u \in T : resolved[u] = [s \in Samples |-> Origin(T, u, s)] BY <1>3, <1>5
<1>7. TwoRings(T, T, t) BY DEF TwoRings
<1>8. WithApron(t, resolved) = Final(T, t) BY <1>3, <1>6, <1>7, ApronIs
<1> QED BY <1>4, <1>8 DEF cores

LEMMA RingsOfTile ==
  ASSUME level \in Levels, NEW t \in level
  PROVE  TwoRings(level, Neighborhood(t), t)
<1> DEFINE B == Beyond1({t})
           N == Beyond1(B)
<1>1. level \in SUBSET Tiles BY SeamAssumption
<1>2. \A S \in SUBSET level : /\ S \subseteq Beyond1(S) /\ Beyond1(S) \subseteq level
                              /\ \A u \in S, e \in Edges : Neighbor(u, e).key \in level => Neighbor(u, e).key \in Beyond1(S)
  <2> TAKE S \in SUBSET level
  <2>1. \A u \in S, e \in Edges : Neighbor(u, e).key \in level => Neighbor(u, e).key \in Beyond1(S)
    <3> TAKE u \in S, e \in Edges
    <3>1. <<u, e>> \in S \X Edges /\ <<u, e>>[1] = u /\ <<u, e>>[2] = e OBVIOUS
    <3>2. Neighbor(u, e).key \in {Neighbor(o[1], o[2]).key : o \in S \X Edges} BY <3>1
    <3> QED BY <3>2 DEF Beyond1
  <2> QED BY <2>1 DEF Beyond1
<1>3. {t} \in SUBSET level OBVIOUS
<1>4. /\ t \in B /\ B \subseteq level
      /\ \A e \in Edges : Neighbor(t, e).key \in level => Neighbor(t, e).key \in B
  BY <1>2, <1>3
<1> HIDE DEF B
<1>5. /\ B \subseteq N /\ N \subseteq level
      /\ \A u \in B, e \in Edges : Neighbor(u, e).key \in level => Neighbor(u, e).key \in N
  BY <1>2, <1>4
<1>6. N = Neighborhood(t) BY DEF Neighborhood, B
<1> HIDE DEF N
<1>7. TwoRings(level, N, t) BY <1>1, <1>4, <1>5 DEF TwoRings
<1> QED BY <1>6, <1>7

\* What is finalized from two rings is what the level as a whole gives, because the
\* tiles loaded are as they were sampled, or as the level gives them.
SeamInv ==
  /\ level \in Levels
  /\ released \subseteq DOMAIN done
  /\ DOMAIN done \subseteq level
  /\ \A t \in DOMAIN done : done[t] = Final(level, t)

LEMMA FinalizedIs ==
  ASSUME SeamInv, NEW t \in level
  PROVE  Finalize([u \in Neighborhood(t) |-> Load(u)])[t] = Final(level, t)
<1> DEFINE T == level
           N == Neighborhood(t)
           cores == [u \in N |-> Load(u)]
           resolved == Resolve(cores)
<1>1. T \in SUBSET Tiles /\ level \in Levels BY SeamAssumption DEF SeamInv
<1>2. TwoRings(T, N, t) BY <1>1, RingsOfTile
<1>3. N \in SUBSET Tiles /\ N \in SUBSET T /\ t \in N BY <1>2 DEF TwoRings
<1>4. DOMAIN cores = N OBVIOUS
<1>5. \A u \in N, s \in Samples : cores[u][s] = <<u, s>> \/ cores[u][s] = Origin(T, u, s)
  <2> SUFFICES ASSUME NEW u \in N, NEW s \in Samples
               PROVE  cores[u][s] = <<u, s>> \/ cores[u][s] = Origin(T, u, s)
    OBVIOUS
  <2>1. cores[u] = Load(u) OBVIOUS
  <2>2. CASE u \in released
    <3>1. u \in DOMAIN done /\ done[u] = Final(T, u) BY <2>2 DEF SeamInv
    <3>2. Load(u) = [x \in Samples |-> Origin(T, u, x)] BY <2>2, <3>1 DEF Load, Final
    <3> QED BY <2>1, <3>2
  <2>3. CASE u \notin released
    <3>1. Load(u) = [x \in Samples |-> <<u, x>>] BY <2>3 DEF Load, Sampled
    <3> QED BY <2>1, <3>1
  <2> QED BY <2>2, <2>3
<1> HIDE DEF T, N, cores
<1>6. /\ DOMAIN resolved = N
      /\ \A u \in N : resolved[u] = [s \in Samples |-> cores[Origin(N, u, s)[1]][Origin(N, u, s)[2]]]
  BY <1>3, <1>4, ResolveIs
<1>7. Finalize(cores) = [u \in N |-> WithApron(u, resolved)] BY <1>4, Zenon DEF Finalize
<1> HIDE DEF resolved
<1>8. ASSUME NEW u \in N, NEW s \in Samples, Origin(N, u, s) = Origin(T, u, s)
      PROVE  resolved[u][s] = Origin(T, u, s)
  <2> DEFINE o == Origin(N, u, s)
  <2>1. o[1] \in N /\ o[2] \in Samples /\ o = <<o[1], o[2]>> BY <1>3, OriginFixed
  <2>2. u \in T BY <1>3
  <2>3. Origin(T, o[1], o[2]) = o BY <1>1, <1>8, <2>2, OriginFixed
  <2>4. resolved[u][s] = cores[o[1]][o[2]] BY <1>6
  <2> HIDE DEF o
  <2>5. cores[o[1]][o[2]] = o BY <1>5, <2>1, <2>3
  <2> QED BY <1>8, <2>4, <2>5 DEF o
<1>9. /\ \A s \in Samples : Origin(N, t, s) = Origin(T, t, s)
      /\ \A e \in Edges, s \in Samples :
              Neighbor(t, e).key \in T /\ ~AtCorner(s) =>
                Origin(N, Neighbor(t, e).key, s) = Origin(T, Neighbor(t, e).key, s)
  BY <1>2, OriginInRings
<1>10. resolved[t] = [s \in Samples |-> Origin(T, t, s)]
  <2>1. \A s \in Samples : resolved[t][s] = Origin(T, t, s) BY <1>3, <1>8, <1>9
  <2>2. resolved[t] = [s \in Samples |-> resolved[t][s]] BY <1>3, <1>6
  <2> QED BY <2>1, <2>2
<1>11. \A e \in Edges, s \in Samples : Neighbor(t, e).key \in N /\ ~AtCorner(s) =>
           resolved[Neighbor(t, e).key][s] = Origin(T, Neighbor(t, e).key, s)
  <2> TAKE e \in Edges, s \in Samples
  <2> HAVE Neighbor(t, e).key \in N /\ ~AtCorner(s)
  <2>1. Neighbor(t, e).key \in T BY <1>3
  <2>2. Origin(N, Neighbor(t, e).key, s) = Origin(T, Neighbor(t, e).key, s) BY <1>9, <2>1
  <2> QED BY <1>8, <2>2
<1>12. WithApron(t, resolved) = Final(T, t) BY <1>2, <1>6, <1>10, <1>11, ApronIs
<1>13. Finalize(cores)[t] = Final(T, t) BY <1>3, <1>7, <1>12
<1> QED BY <1>13 DEF cores, N, T

LEMMA SeamInvariance == SeamSpec => []SeamInv
<1>1. SeamInit => SeamInv
  <2> SUFFICES ASSUME SeamInit PROVE SeamInv
    OBVIOUS
  <2>1. DOMAIN done = {} BY DEF SeamInit
  <2> QED BY <2>1 DEF SeamInit, SeamInv
<1>2. SeamInv /\ [SeamNext]_seamVars => SeamInv'
  <2> SUFFICES ASSUME SeamInv, [SeamNext]_seamVars PROVE SeamInv'
    OBVIOUS
  <2>1. ASSUME NEW t \in level, FinalizeTile(t) PROVE SeamInv'
    <3> DEFINE final == Finalize([u \in Neighborhood(t) |-> Load(u)])[t]
    <3>1. final = Final(level, t) BY FinalizedIs
    <3>2. /\ t \in level \ DOMAIN done
          /\ done' = [u \in DOMAIN done \cup {t} |-> IF u = t THEN final ELSE done[u]]
          /\ level' = level /\ released' = released
      BY <2>1, Zenon DEF FinalizeTile
    <3> HIDE DEF final
    <3>3. DOMAIN done' = DOMAIN done \cup {t} BY <3>2
    <3>4. \A u \in DOMAIN done' : done'[u] = Final(level, u) BY <3>1, <3>2, <3>3 DEF SeamInv
    <3> QED BY <3>2, <3>3, <3>4 DEF SeamInv
  <2>2. CASE Release BY <2>2 DEF SeamInv, Release
  <2>3. CASE UNCHANGED seamVars BY <2>3 DEF SeamInv, seamVars
  <2> QED BY <2>1, <2>2, <2>3 DEF SeamNext
<1> QED BY <1>1, <1>2, PTL DEF SeamSpec

\* Of any level, in whatever order and attempts its tiles are finalized, each from
\* two rings and some of them from the codes of an earlier attempt, the core and
\* the apron of a tile are those of the batch build
\* (finalize_streaming_raster_tile, container_writer.cpp; finalize_elevation_tiles,
\* tile_staging.cpp).
THEOREM StreamingAlwaysEqualsBatch == SeamSpec => []StreamingEqualsBatch
<1>1. SeamInv => StreamingEqualsBatch
  <2> SUFFICES ASSUME SeamInv, NEW t \in DOMAIN done
               PROVE  done[t] = Finalize([u \in level |-> Sampled(u)])[t]
    BY DEF StreamingEqualsBatch
  <2>1. level \in SUBSET Tiles /\ t \in level BY SeamAssumption DEF SeamInv
  <2>2. done[t] = Final(level, t) BY DEF SeamInv
  <2> QED BY <2>1, <2>2, BatchIs
<1> QED BY <1>1, SeamInvariance, PTL

LEMMA EdgeEnds ==
  ASSUME NEW e \in Edges, NEW h \in BOOLEAN
  PROVE  EdgeSample(e, IF h THEN Last ELSE 0) = CornerSample(EdgeCorner(e, h))
<1>1. CASE h = TRUE BY <1>1 DEF EdgeSample, CornerSample, EdgeCorner, Edges
<1>2. CASE h = FALSE BY <1>2 DEF EdgeSample, CornerSample, EdgeCorner, Edges
<1> QED BY <1>1, <1>2

\* Tiles that lie beside each other take the samples of their edge from one place.
LEMMA EdgeOrigins ==
  ASSUME NEW T \in SUBSET Tiles, NEW t \in T, NEW e \in Edges, Neighbor(t, e).key \in T,
         Key(t) < Key(Neighbor(t, e).key), NEW p \in Parameters
  PROVE  Origin(T, t, EdgeSample(e, p))
           = Origin(T, Neighbor(t, e).key, EdgeSample(Neighbor(t, e).edge, Mapped(Neighbor(t, e), p)))
<1> DEFINE n == Neighbor(t, e)
           u == n.key
<1>1. n.edge \in Edges /\ u \in Tiles /\ Neighbor(u, n.edge).key = t /\ Neighbor(u, n.edge).edge = e
  BY ThereAndBack
<1>2. (Neighbor(u, n.edge).reversed <=> n.reversed) /\ n.reversed \in BOOLEAN
  BY NeighborReciprocal, NeighborReverses
<1>3. Key(t) \in Nat /\ Key(u) \in Nat /\ u \in T BY <1>1, KeyType
<1>4. CASE p \in 1 .. Last - 1
  <2>1. ~Lower1(T, t, e) BY <1>3 DEF Lower1
  <2>2. Origin(T, t, EdgeSample(e, p)) = <<t, EdgeSample(e, p)>> BY <1>4, <2>1, OriginInEdge
  <2> DEFINE j == Mapped(n, p)
             b == Neighbor(u, n.edge)
  <2>3. j \in 1 .. Last - 1 /\ Mapped(b, j) = p BY <1>2, <1>4, MappedInside
  <2>4. Lower1(T, u, n.edge) BY <1>1 DEF Lower1
  <2> HIDE DEF j
  <2>5. Origin(T, u, EdgeSample(n.edge, j)) = Across1(u, n.edge, j) BY <1>1, <1>3, <2>3, <2>4, OriginInEdge
  <2>6. Across1(u, n.edge, j) = <<b.key, EdgeSample(b.edge, Mapped(b, j))>> BY DEF Across1
  <2> HIDE DEF b
  <2>7. b.key = t /\ b.edge = e BY <1>1 DEF b
  <2> QED BY <2>2, <2>3, <2>5, <2>6, <2>7 DEF j
<1>5. ASSUME NEW h \in BOOLEAN, p = IF h THEN Last ELSE 0
      PROVE  Origin(T, t, EdgeSample(e, p)) = Origin(T, u, EdgeSample(n.edge, Mapped(n, p)))
  <2> DEFINE k == h # n.reversed
             c == EdgeCorner(e, h)
             d == EdgeCorner(n.edge, k)
  <2>1. k \in BOOLEAN BY <1>2, Exchange
  <2>2. Mapped(n, p) = IF k THEN Last ELSE 0
    <3>1. CASE n.reversed
      <4>1. Mapped(n, p) = Last - p BY <3>1 DEF Mapped
      <4>2. k <=> ~h BY <3>1, Zenon
      <4> HIDE DEF k
      <4> QED BY <1>5, <4>1, <4>2, LatticeAssumption
    <3>2. CASE ~n.reversed
      <4>1. Mapped(n, p) = p BY <3>2 DEF Mapped
      <4>2. k <=> h
        <5>1. n.reversed = FALSE BY <1>2, <3>2
        <5> QED BY <5>1, Zenon
      <4> HIDE DEF k
      <4> QED BY <1>5, <4>1, <4>2
    <3> QED BY <3>1, <3>2
  <2>3. CornerAcross(t, e, h) = <<u, d>> BY Zenon DEF CornerAcross, FacingCorner
  <2> HIDE DEF k
  <2>4. EdgeSample(e, p) = CornerSample(c) BY <1>5, EdgeEnds
  <2>5. EdgeSample(n.edge, Mapped(n, p)) = CornerSample(d) BY <1>1, <2>1, <2>2, EdgeEnds
  <2>6. c \in Corners /\ d \in Corners BY <1>1, <2>1, SideEdges
  <2>7. CornerRoots(T)[<<t, c>>] = CornerRoots(T)[<<u, d>>] BY <2>3, StepsJoin
  <2> HIDE DEF c, d, n, u
  <2>8. OwnerOf(T, <<t, c>>) = OwnerOf(T, <<u, d>>) BY <2>7 DEF OwnerOf
  <2>9. Origin(T, t, CornerSample(c)) = <<OwnerOf(T, <<t, c>>)[1], CornerSample(OwnerOf(T, <<t, c>>)[2])>>
    BY <2>6, OriginAtCorner
  <2>10. Origin(T, u, CornerSample(d)) = <<OwnerOf(T, <<u, d>>)[1], CornerSample(OwnerOf(T, <<u, d>>)[2])>>
    BY <1>3, <2>6, OriginAtCorner
  <2> QED BY <2>4, <2>5, <2>8, <2>9, <2>10
<1>6. CASE p = 0
  <2>1. FALSE \in BOOLEAN /\ p = IF FALSE THEN Last ELSE 0 BY <1>6
  <2> QED BY <1>5, <2>1
<1>7. CASE p = Last
  <2>1. TRUE \in BOOLEAN /\ p = IF TRUE THEN Last ELSE 0 BY <1>7
  <2> QED BY <1>5, <2>1
<1> QED BY <1>4, <1>6, <1>7, LatticeAssumption DEF Parameters

LEMMA EdgeSampleType ==
  ASSUME NEW e \in Edges, NEW p \in Parameters
  PROVE  EdgeSample(e, p) \in Samples
BY LatticeAssumption DEF EdgeSample, Samples, Parameters, Edges

\* Whatever is finalized so far, validate_seams (container_writer.cpp) accepts it,
\* and every apron shows the neighbor as it was, or will be, finalized.
THEOREM SeamsAlwaysMeet == SeamSpec => []SeamsMeet
<1>1. SeamInv => SeamsMeet
  <2> SUFFICES ASSUME SeamInv PROVE SeamsMeet
    OBVIOUS
  <2>1. level \in SUBSET Tiles /\ DOMAIN done \subseteq level BY SeamAssumption DEF SeamInv
  <2>2. \A t \in DOMAIN done, s \in Samples : done[t].core[s] = Origin(level, t, s)
    <3>1. \A t \in DOMAIN done : done[t].core = [s \in Samples |-> Origin(level, t, s)]
      BY DEF SeamInv, Final
    <3> QED BY <3>1
  <2>3. \A t \in DOMAIN done, e \in Edges, p \in Parameters :
          done[t].apron[e][p] = ApronOrigin(level, t, e, p)
    <3>1. \A t \in DOMAIN done :
            done[t].apron = [e \in Edges |-> [p \in Parameters |-> ApronOrigin(level, t, e, p)]]
      BY DEF SeamInv, Final
    <3> TAKE t \in DOMAIN done, e \in Edges, p \in Parameters
    <3>2. done[t].apron[e] = [q \in Parameters |-> ApronOrigin(level, t, e, q)] BY <3>1
    <3> QED BY <3>2
  <2>4. ValidateSeams([t \in DOMAIN done |-> done[t].core])
    <3> DEFINE cores == [t \in DOMAIN done |-> done[t].core]
    <3>1. DOMAIN cores = DOMAIN done /\ \A t \in DOMAIN done : cores[t] = done[t].core OBVIOUS
    <3> HIDE DEF cores
    <3>2. ASSUME NEW t \in DOMAIN done, NEW e \in Edges, Neighbor(t, e).key \in DOMAIN done,
                 Key(t) < Key(Neighbor(t, e).key), NEW p \in Parameters
          PROVE  cores[t][EdgeSample(e, p)]
                   = cores[Neighbor(t, e).key][EdgeSample(Neighbor(t, e).edge, Mapped(Neighbor(t, e), p))]
      <4> DEFINE n == Neighbor(t, e)
      <4>1. t \in level /\ n.key \in level /\ t \in Tiles BY <2>1, <3>2
      <4>2. n.edge \in Edges BY <4>1, ThereAndBack
      <4>3. EdgeSample(e, p) \in Samples /\ EdgeSample(n.edge, Mapped(n, p)) \in Samples
        BY <4>2, EdgeSampleType, MappedIn
      <4>4. Origin(level, t, EdgeSample(e, p)) = Origin(level, n.key, EdgeSample(n.edge, Mapped(n, p)))
        BY <2>1, <3>2, <4>1, EdgeOrigins
      <4> QED BY <2>2, <3>1, <3>2, <4>3, <4>4
    <3>3. ValidateSeams(cores) BY <3>1, <3>2, Zenon DEF ValidateSeams
    <3> QED BY <3>3 DEF cores
  <2>5. ASSUME NEW t \in DOMAIN done, NEW e \in Edges PROVE ApronShows(t, e)
    <3> DEFINE n == Neighbor(t, e)
    <3> SUFFICES ASSUME n.key \in DOMAIN done, NEW p \in Parameters
                 PROVE  done[t].apron[e][p] = done[n.key].core[InteriorEdgeSample(n.edge, Mapped(n, p))]
      BY Zenon DEF ApronShows
    <3> DEFINE sample == InteriorEdgeSample(n.edge, Mapped(n, p))
    <3>1. t \in Tiles /\ n.key \in level BY <2>1
    <3>2. n.edge \in Edges BY <3>1, ThereAndBack
    <3>3. sample \in Samples BY <3>2, MappedIn, NextToEdge
    <3>4. done[t].apron[e][p] = ApronOrigin(level, t, e, p) BY <2>3
    <3>5. ApronOrigin(level, t, e, p) = IF n.key \in level THEN Origin(level, n.key, sample) ELSE <<n.key, sample>>
      BY Zenon DEF ApronOrigin
    <3> HIDE DEF n, sample
    <3>6. done[n.key].core[sample] = Origin(level, n.key, sample) BY <2>2, <3>3
    <3>7. done[t].apron[e][p] = done[n.key].core[sample] BY <3>1, <3>4, <3>5, <3>6
    <3> QED BY <3>7 DEF sample
  <2> QED BY <2>4, <2>5 DEF SeamsMeet
<1> QED BY <1>1, SeamInvariance, PTL

=============================================================================
