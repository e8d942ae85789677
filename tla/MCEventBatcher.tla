--------------------------- MODULE MCEventBatcher ---------------------------
(* Small instances of EventBatcher: the application threads and the events  *)
(* are interchangeable in the safety runs.                                   *)
EXTENDS EventBatcher, TLC

Symmetry == Permutations(Threads) \cup Permutations(Events)
=============================================================================
