----------------------------- MODULE MCStorage -----------------------------
(* The instances of Storage that TLC explores: two around purge, two       *)
(* around the rewrite of the log, one around eviction.                     *)
EXTENDS Storage

Nothing == [ turns |-> 1, records |-> 1, writes |-> 0, purges |-> 0, passes |-> 0,
             crashes |-> 0, ops |-> {}, by |-> {} ]

Purges == [Nothing EXCEPT
  !.turns = 2, !.records = 2, !.purges = 1, !.crashes = 1,
  !.ops = {"prompts", "date", "path", "orphans"}]

PurgesBesideWriters == [Nothing EXCEPT
  !.turns = 2, !.writes = 1, !.purges = 1,
  !.ops = {"path", "orphans"}, !.by = {"import", "pin"}]

Rewrites == [Nothing EXCEPT
  !.turns = 2, !.records = 0, !.writes = 2, !.purges = 1, !.crashes = 1,
  !.ops = {"duplicates"}, !.by = {"undo", "import"}]

RewritesBesideRecorder == [Nothing EXCEPT
  !.turns = 2, !.records = 2, !.purges = 1, !.crashes = 1, !.ops = {"duplicates"}]

Evictions == [Nothing EXCEPT
  !.turns = 3, !.records = 2, !.writes = 1, !.passes = 1,
  !.by = {"undo", "import", "capture"}]

Instances == {Purges, PurgesBesideWriters, Rewrites, RewritesBesideRecorder, Evictions}

(* A recorder that is killed in the middle of an append, and its successor. *)
TornAppend == {[Nothing EXCEPT !.crashes = 1]}

Symmetry == Permutations(Paths) \cup Permutations(Hashes \ (Prompts \cup Big))
=============================================================================
