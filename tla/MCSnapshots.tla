---------------------------- MODULE MCSnapshots -----------------------------
(* Instances of SnapshotRecorder for TLC: the files are interchangeable.   *)
EXTENDS SnapshotRecorder

Symmetry == Permutations(Paths)

=============================================================================
