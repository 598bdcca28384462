------------------------------ MODULE MCSetup ------------------------------
(* The instances of Setup that TLC explores.                                *)
EXTENDS Setup

Rules(kept, legible) == [ours |-> FALSE, theirs |-> kept, utf8 |-> legible]
All == [hook |-> TRUE, codex |-> TRUE, service |-> "no"]

Nothing == [ commands |-> 0, edits |-> 0, kills |-> 0, ticks |-> 0, temp |-> FALSE,
             ignores |-> {Rules(TRUE, TRUE)}, flags |-> {All} ]

(* Edits of the user's between the files of two commands, a kill anywhere. *)
Merges == [Nothing EXCEPT !.commands = 2, !.edits = 2, !.kills = 1]

(* The store and the unit over several commands.                           *)
Services == [Nothing EXCEPT !.commands = 4, !.ticks = 1, !.kills = 1,
  !.ignores = {Rules(TRUE, TRUE), Rules(TRUE, FALSE)},
  !.flags = {[hook |-> FALSE, codex |-> FALSE, service |-> s] : s \in {"auto", "no", "force"}}]

Instances == {Merges, Services, [Services EXCEPT !.temp = TRUE, !.commands = 2]}
=============================================================================
