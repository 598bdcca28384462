------------------------------- MODULE MCUndo -------------------------------
(* The instances of UndoCoordinator that TLC explores: agents in auto mode *)
(* beside `undo --confirm` on one file, and agents in both modes and a     *)
(* human who approves and denies, on two.                                  *)
EXTENDS UndoCoordinator

Auto(p) == [ kinds |-> {"preview", "execute", "undo"}, paths |-> {p} ]

Mixed == [ kinds |-> {"preview", "execute", "request", "approve", "deny"},
           paths |-> Paths ]

BothModes == {Mixed} \cup {Auto(p) : p \in Paths}

Symmetry == Permutations(Procs) \cup Permutations(Paths)
=============================================================================
