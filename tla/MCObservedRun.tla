---------------------------- MODULE MCObservedRun ----------------------------
(* One attempt, two cancel commands, up to two interrupts.                    *)
EXTENDS ObservedRun
=============================================================================
