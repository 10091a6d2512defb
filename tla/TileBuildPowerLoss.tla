------------------------- MODULE TileBuildPowerLoss -------------------------
(***************************************************************************)
(* The tile pipeline when the machine may stop, not only the process.      *)
(* persist_atomically (src/src/builder/tile_staging.cpp) renames a raw     *)
(* core without synchronizing it; the auxiliary, quantized and encoded     *)
(* files are written by write_file_synced, and SQLite commits are durable. *)
(***************************************************************************)
EXTENDS TileBuild

\* The samples of a core whose name reached the disk and whose data did not: the
\* reader checks header and length, and finite samples are taken as they are.
Torn == 0

LosePower ==
  /\ phase # "idle"
  /\ \E lost \in SUBSET {a \in Artifacts : core[a] # None} :
       core' = [a \in Artifacts |-> IF a \in lost THEN Torn ELSE core[a]]
  /\ End("crashed")
  /\ UNCHANGED <<auxiliary, quantized, encoded>>

PowerLossSpec == Init /\ [][Next \/ LosePower]_vars /\ Fairness
=============================================================================
