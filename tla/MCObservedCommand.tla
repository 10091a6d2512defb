--------------------------- MODULE MCObservedCommand ---------------------------
(* Up to MaxEvents optional events before the terminal one.                    *)
EXTENDS ObservedCommand
=============================================================================
