------------------------------ MODULE TurnLog ------------------------------
(* The turns of log.jsonl and what every reader of it shares (view.rs):    *)
(* which turns a later one has merged, which two are the same revert, what *)
(* an id resolves to, what purge --log-duplicates keeps.                   *)
(*                                                                         *)
(* Two fields of a turn are history and not in the file: "n" numbers the   *)
(* appends, so that two records of one id can be told apart, and "of" says *)
(* which lines of which transcript an imported turn was made from.         *)
EXTENDS Naturals, Sequences, FiniteSets, FiniteSetsExt, SequencesExt, TLC

CONSTANT None

VARIABLES
  log,      \* the turns of log.jsonl
  written   \* history: how many records were ever appended

Turn(id, n, kind, merges, files, of) ==
  [ id |-> id, n |-> n, kind |-> kind, merges |-> merges, files |-> files, of |-> of ]

(* append_log_locked. *)
AppendTurn(id, kind, merges, files, of) ==
  /\ log' = Append(log, Turn(id, written + 1, kind, merges, files, of))
  /\ written' = written + 1

LogUnchanged == UNCHANGED <<log, written>>

Ids(turns) == {t.id : t \in Range(turns)}

(* merged_ids, and the set select_turns collects. *)
Superseded(turns) == UNION {t.merges : t \in Range(turns)}

(* same_revert. *)
SameRevert(a, b) ==
  /\ a.id = b.id
  /\ Len(a.files) = Len(b.files)
  /\ Range(a.files) \subseteq Range(b.files)

WithId(turns, id) == SelectSeq(turns, LAMBDA t : t.id = id)

(* resolve_turn: the record that an id in full stands for; None when there *)
(* is none, or when its records would revert differently.                  *)
Resolve(turns, id) ==
  LET matches == WithId(turns, id) IN
    IF matches # << >> /\ \A t \in Range(matches) : SameRevert(matches[1], t)
    THEN matches[1] ELSE None

(* What purge_log_duplicates keeps: the first of the records that are one  *)
(* revert.                                                                 *)
WithoutDuplicates(turns) ==
  LET keep(kept, t) ==
        IF \E k \in Range(kept) : SameRevert(k, t) THEN kept ELSE Append(kept, t)
  IN  FoldLeft(keep, << >>, turns)
=============================================================================
