------------------------------ MODULE MCMemory ------------------------------
(* The instances of the inbox and the ledger that TLC explores: one around *)
(* commands and purge, some around recall and hooks, one around the inbox and its     *)
(* purge, one with candidates on their way from a hook to the ledger.      *)
EXTENDS SignalInbox

Nothing == [ memories |-> 0, time |-> 0, asserts |-> 0, verifies |-> 0, forgets |-> 0,
             edits |-> 0, purges |-> 0, recalls |-> 0, kills |-> 0, signals |-> 0,
             candidates |-> 0, cuts |-> 0, crashes |-> 0, turns |-> 0 ]

CommandsAndPurge == [Nothing EXCEPT !.time = 2, !.asserts = 1, !.verifies = 1,
  !.forgets = 2, !.edits = 1, !.purges = 1, !.kills = 1]

TwoMemories == [Nothing EXCEPT !.time = 2, !.asserts = 2, !.verifies = 1,
  !.forgets = 1, !.purges = 1]

Recalls == [Nothing EXCEPT !.memories = 1, !.asserts = 1, !.edits = 2, !.recalls = 1]

Blocks == [Nothing EXCEPT !.memories = 3, !.edits = 1, !.recalls = 1]

Hooks == [Nothing EXCEPT !.memories = 1, !.edits = 1, !.recalls = 2]

TornLedger == [Nothing EXCEPT !.memories = 1, !.asserts = 1, !.recalls = 1, !.kills = 1]

Emptied == [Nothing EXCEPT !.memories = 1, !.time = 2, !.forgets = 1, !.purges = 1,
  !.recalls = 1, !.kills = 1]

Drifts == [Nothing EXCEPT !.time = 1, !.asserts = 1, !.edits = 3, !.turns = 2]

InboxAndPurge == [Nothing EXCEPT !.signals = 3, !.cuts = 2, !.crashes = 1, !.kills = 1]

CandidatesIngested == [Nothing EXCEPT !.asserts = 2, !.forgets = 1, !.edits = 1,
  !.signals = 1, !.candidates = 1, !.crashes = 1]

Instances == {CommandsAndPurge, TwoMemories, Recalls, Hooks, TornLedger, Blocks, Emptied, Drifts,
  InboxAndPurge, CandidatesIngested}

(* At most one verify: no two records of a chain are of the same time and   *)
(* kind, and the fold chooses nothing that the symmetry could change.      *)
Symmetry == Permutations(Commands) \cup Permutations(Paths) \cup Permutations(Contents)
=============================================================================
