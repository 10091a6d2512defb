--------------------------- MODULE AtomicDatabase ---------------------------
(***************************************************************************)
(* What publication promises a reader of the output directory: at every    *)
(* moment, whatever fails, the published database is a complete one, and   *)
(* it changes only by being replaced whole by the build that is running.   *)
(* "success" is answered only when that build is the published one.        *)
(***************************************************************************)
CONSTANTS Builds, None

VARIABLES
  published,  \* the complete database a reader finds
  building,   \* the build that is running, None between two builds
  answer      \* what the last build answered

atomicVars == <<published, building, answer>>

AtomicInit ==
  /\ published \in Builds \cup {None}
  /\ building = None
  /\ answer = "none"

Begin(b) ==
  /\ building = None
  /\ building' = b
  /\ answer' = "none"
  /\ UNCHANGED published

Publish ==
  /\ building # None
  /\ published' = building
  /\ UNCHANGED <<building, answer>>

Succeed ==
  /\ building # None
  /\ published = building
  /\ building' = None
  /\ answer' = "success"
  /\ UNCHANGED published

\* A build may end without success at any moment, published or not.
GiveUp ==
  /\ building # None
  /\ building' = None
  /\ answer' \in {"cancelled", "failed", "mismatch", "crashed"}
  /\ UNCHANGED published

AtomicNext == (\E b \in Builds : Begin(b)) \/ Publish \/ Succeed \/ GiveUp

AtomicSpec == AtomicInit /\ [][AtomicNext]_atomicVars
=============================================================================
