--------------------------- MODULE MCBlobStorage ---------------------------
(* BlobStorage for TLC: symmetric sets of tasks, runs and contents.        *)
EXTENDS BlobStorage, TLC

Symmetry == Permutations(Tasks) \cup Permutations(Runs) \cup Permutations(Shas)
============================================================================
