--------------------------- MODULE MCPublication ---------------------------
(***************************************************************************)
(* TLC instance of Publication: two versions of one build, which disagree  *)
(* on the bytes of the packs of one database id, and a build of another    *)
(* id. The output directory may start with any packs of theirs.            *)
(***************************************************************************)
EXTENDS Publication

CONSTANTS old, new, other

MCBuilds == {old, new, other}
MCIds    == {1, 2}
MCIdOf   == [b \in MCBuilds |-> IF b = other THEN 2 ELSE 1]
=============================================================================
