---------------------------- MODULE MCHierarchy ----------------------------
(***************************************************************************)
(* One or two sources of one or two levels around the middle of a face and *)
(* on another face. A tile of the deepest level may be covered although    *)
(* its parent is not.                                                      *)
(***************************************************************************)
EXTENDS Hierarchy

At(face, level, x, y) == [face |-> face, level |-> level, x |-> x, y |-> y]

Varied == {At(0, 0, 0, 0), At(0, 1, 0, 1), At(0, 1, 1, 0), At(4, 1, 1, 1)}
Deep   == {At(0, 2, 1, 2), At(0, 2, 3, 1), At(4, 2, 3, 2)}

Alternatives == {[covers |-> some \cup {At(4, 0, 0, 0)} \cup Deep, level |-> level] :
                   some \in SUBSET Varied, level \in 0 .. 2}

Others == {[covers |-> {At(0, 0, 0, 0), At(0, 1, 1, 0), At(0, 1, 1, 1), At(0, 2, 2, 1)}, level |-> 2],
           [covers |-> {At(5, 0, 0, 0)}, level |-> 1]}

MCInputs == {<<>>} \cup {<<a>> : a \in Alternatives} \cup {<<a, b>> : a \in Alternatives, b \in Others}
                   \cup {<<b, a>> : a \in Alternatives, b \in Others}
=============================================================================
