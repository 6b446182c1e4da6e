------------------------- MODULE MCStopCoordinator -------------------------
(* Two executor threads (model values in the .cfg), so that two stops    *)
(* can be in flight at once, and one file whose breakpoint vector the     *)
(* host can replace.                                                      *)
EXTENDS StopCoordinator

MCFiles == {"f1"}

\* Executor threads are interchangeable: nothing depends on their names.
ThreadSymmetry == Permutations(Threads)
=============================================================================
