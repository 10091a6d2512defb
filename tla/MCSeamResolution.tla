-------------------------- MODULE MCSeamResolution --------------------------
(***************************************************************************)
(* Level two, where the faces right, back and south meet in a corner of    *)
(* the cube; the edges of right and back on south are reversed. There are  *)
(* four tiles of each face at the corner, up to two of the five at and     *)
(* next to it missing, and no others. On a level without tiles we walk     *)
(* over all the keys instead.                                              *)
(***************************************************************************)
EXTENDS SeamResolution, TopologyWalk

At(face, x, y) == [face |-> face, x |-> x, y |-> y]

AtTheCorner == {At(1, x, y) : x \in {2, 3}, y \in {0, 1}} \cup {At(2, x, y) : x, y \in {0, 1}}
               \cup {At(5, x, y) : x \in {2, 3}, y \in {0, 1}}

Near == {At(1, 3, 0), At(2, 0, 0), At(5, 3, 0), At(1, 2, 0), At(5, 3, 1)}

MCLevels == {{}} \cup {AtTheCorner \ gap : gap \in UNION {kSubset(k, Near) : k \in 0 .. 2}}

Rest == tile = At(0, 0, 0) /\ corner = "sw"

MCInit == SeamInit /\ IF level = {} THEN WalkInit ELSE Rest

MCNext ==
  \/ level # {} /\ SeamNext /\ UNCHANGED walkVars
  \/ level = {} /\ Turn /\ UNCHANGED seamVars

MCSpec == MCInit /\ [][MCNext]_<<seamVars, walkVars>>
=============================================================================
