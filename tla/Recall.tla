------------------------------- MODULE Recall -------------------------------
(* Readers of the memory ledger, none of which takes memory.lock:           *)
(*   - recall, which ranks what it reads and then verifies the pins of one  *)
(*     memory after the other (memory.rs recall_impl, view.rs               *)
(*     RepositoryView::recall, memorycmds.rs recall_cmd);                   *)
(*   - the hook, which lets a thread recall for a prompt and waits for it   *)
(*     until a deadline (cmds.rs inject_memory);                            *)
(*   - `memories`, which joins the pins that drifted with the turns of the  *)
(*     log, and `memories --stats`, which reads what the hooks noted.       *)
(*                                                                          *)
(* One of them runs at a time. A page of recall never has a cursor that a   *)
(* client could come back with, so there is one page. The query is what it  *)
(* selects: any memories in any order.                                      *)
EXTENDS MemoryLedger

CONSTANTS
  CAP,     \* RECALL_VERIFY_CAP
  K,       \* how many memories may be asked for
  CHARS    \* HOOK_MAX_CHARS: how many pins the facts of a block may name

ASSUME RecallAssumption == CAP \in Nat /\ K \in Nat /\ CHARS \in Nat

ASSUME RecallBounds ==
  \A b \in Bounds : b["turns"] \in Nat

VARIABLES
  hook,   \* a hook that waits for facts, or what has become of the last one
  stats,  \* memory-stats.jsonl: the keys of each line
  turns   \* log.jsonl: what the turns left in the pinned files

recallVars == <<hook, stats, turns>>

RecallUnchanged == UNCHANGED <<mem, archive, tree, now, proc, purge, acked, forgotten, raced>>

-----------------------------------------------------------------------------
(* The walk.                                                                *)

(* What a query may select: bm25_rank or, for an empty query, the newest.   *)
Rankings == UNION {SetToSeqs(S) : S \in SUBSET Living}

FreshOf(S) == {m \in S : Freshness(m.says.pins) = "fresh"}

Found(for, k, ranking, corrupt) ==
  [ pc |-> IF corrupt THEN "done" ELSE "walk", for |-> for, k |-> k, ranking |-> ranking,
    i |-> 1, hits |-> << >>, capped |-> FALSE, corrupt |-> corrupt, late |-> FALSE,
    steady |-> FreshOf(ToSet(ranking)), seen |-> IF corrupt THEN {} ELSE mem.records,
    said |-> "nothing" ]

(* load_effective_checked and the ranking. A line that does not parse makes *)
(* the whole recall fail.                                                   *)
Load(for, k) ==
  /\ reader = ReaderRest /\ left.recalls > 0
  /\ \/ mem.corrupt /\ reader' = Found(for, k, << >>, TRUE)
     \/ ~ mem.corrupt /\ \E ranking \in Rankings : reader' = Found(for, k, ranking, FALSE)
  /\ Use("recalls")
  /\ RecallUnchanged

Enough == Len(reader.hits) >= reader.k \/ reader.i > Len(reader.ranking)

Walks == reader # ReaderRest /\ reader.pc = "walk"

VerifyNext ==
  LET m == reader.ranking[reader.i] IN
    reader' = [reader EXCEPT !.i = @ + 1,
      !.hits = IF Freshness(m.says.pins) = "fresh" THEN Append(@, m) ELSE @]

StepUncapped ==  \* mutant: one test for both ends of the walk
  /\ Walks
  /\ \/ (Enough \/ reader.i > CAP) /\ reader' = [reader EXCEPT !.pc = "done"]
     \/ ~ Enough /\ reader.i <= CAP /\ VerifyNext
  /\ RecallUnchanged /\ UNCHANGED left

Step ==
  /\ Walks
  /\ \/ Enough /\ reader' = [reader EXCEPT !.pc = "done"]
     \/ ~ Enough /\ reader.i > CAP /\ reader' = [reader EXCEPT !.pc = "done", !.capped = TRUE]
     \/ ~ Enough /\ reader.i <= CAP /\ VerifyNext
  /\ RecallUnchanged /\ UNCHANGED left

-----------------------------------------------------------------------------
(* recall: the page, and what is said when it is empty. For that the ledger *)
(* is read a second time, by load_effective, which passes over torn lines.  *)

Recall(k) == Load("recall", k) /\ UNCHANGED recallVars

Answer ==
  /\ reader # ReaderRest /\ reader.pc = "done" /\ reader.for = "recall"
  /\ reader' = [reader EXCEPT !.pc = "said", !.said =
       CASE reader.hits # << >> -> "hits"
         [] reader.hits = << >> /\ LoadEffective = {} -> "no memories yet"
         [] reader.hits = << >> /\ LoadEffective # {} -> "none fresh"]
  /\ RecallUnchanged /\ UNCHANGED <<left, recallVars>>

RecallEnd ==
  /\ reader # ReaderRest /\ reader.pc = "said"
  /\ reader' = ReaderRest
  /\ RecallUnchanged /\ UNCHANGED <<left, recallVars>>

-----------------------------------------------------------------------------
(* inject_memory.                                                           *)

HookRest == [pc |-> "rest", printed |-> << >>, injections |-> 0]

Inject(k) ==
  /\ hook.pc # "wait"
  /\ Load("hook", k)
  /\ hook' = [hook EXCEPT !.pc = "wait"]
  /\ UNCHANGED <<stats, turns>>

(* The thread looks at the clock while it loads and ranks, and before it    *)
(* verifies a memory.                                                       *)
Late ==
  /\ Walks /\ reader.for = "hook"
  /\ reader.i = 1 \/ (~ Enough /\ reader.i <= CAP)
  /\ reader' = [reader EXCEPT !.pc = "done", !.hits = << >>, !.late = TRUE]
  /\ RecallUnchanged /\ UNCHANGED <<left, recallVars>>

(* build_hook_block: whole facts are dropped from the end until it fits.    *)
Width(hits) == FoldSeq(LAMBDA m, n : n + Cardinality(DOMAIN m.says.pins), 0, hits)

Block(hits) ==
  SubSeq(hits, 1, Max({0} \cup {n \in DOMAIN hits : Width(SubSeq(hits, 1, n)) <= CHARS}))

CappedIsSilent(r) ==  \* mutant: nothing to inject, nothing to note
  CASE r.corrupt -> {"failure"}
    [] ~ r.corrupt /\ Block(r.hits) = << >> -> {}
    [] OTHER -> {"n"} \cup (IF r.capped THEN {"capped"} ELSE {})

(* The keys of the line that an answer within the budget leaves.            *)
Noted(r) ==
  CASE r.corrupt -> {"failure"}
    [] ~ r.corrupt /\ Block(r.hits) = << >> -> IF r.capped THEN {"capped"} ELSE {}
    [] OTHER -> {"n"} \cup (IF r.capped THEN {"capped"} ELSE {})

(* The process of the hook ends, and with it the thread.                    *)
Return(printed, note) ==
  /\ hook' = [ pc |-> "done", printed |-> printed, note |-> note, found |-> reader,
               injections |-> hook.injections + (IF printed = << >> THEN 0 ELSE 1) ]
  /\ stats' = IF note = {} THEN stats ELSE Append(stats, note)
  /\ reader' = ReaderRest
  /\ RecallUnchanged /\ UNCHANGED <<left, turns>>

(* recv_timeout, or the answer came and the time has passed all the same.   *)
GiveUp == hook.pc = "wait" /\ Return(<< >>, {"budget_exceeded"})

Receive ==
  /\ hook.pc = "wait" /\ reader.pc = "done" /\ ~ reader.late
  /\ Return(Block(reader.hits), Noted(reader))

-----------------------------------------------------------------------------
(* memories --stats                                                         *)

Count(S) == Cardinality({i \in DOMAIN stats : stats[i] \in S})

Keys == SUBSET {"n", "capped", "budget_exceeded", "failure"}

SummaryByCap ==  \* mutant: a line that says "capped" is counted as empty
  [ injected |-> Count({l \in Keys : l \cap {"budget_exceeded", "failure", "capped"} = {} /\ "n" \in l}),
    budget_exceeded |-> Count({l \in Keys : "budget_exceeded" \in l}),
    failure |-> Count({l \in Keys : "failure" \in l}),
    capped_empty |-> Count({l \in Keys : "capped" \in l}),
    capped_total |-> Count({l \in Keys : "capped" \in l}) ]

Summary ==
  [ injected |-> Count({l \in Keys : l \cap {"budget_exceeded", "failure"} = {} /\ "n" \in l}),
    budget_exceeded |-> Count({l \in Keys : "budget_exceeded" \in l}),
    failure |-> Count({l \in Keys : "failure" \in l /\ "budget_exceeded" \notin l}),
    capped_empty |-> Count({l \in Keys : "capped" \in l
                              /\ l \cap {"budget_exceeded", "failure", "n"} = {}}),
    capped_total |-> Count({l \in Keys : "capped" \in l}) ]

-----------------------------------------------------------------------------
(* memories: the pins that drifted, and by which turn. What a turn is and   *)
(* when it is recorded is in RecorderDaemon; here one file of one is.       *)

LastTurn(q) == Max({0} \cup {i \in DOMAIN turns : turns[i].path = q})

Recorded(q) ==
  /\ left.turns > 0
  /\ LastTurn(q) # 0 => turns[LastTurn(q)].after # tree[q]
  /\ turns' = Append(turns, [path |-> q, after |-> tree[q], ended |-> now])
  /\ Use("turns")
  /\ RecallUnchanged /\ UNCHANGED <<reader, hook, stats>>

DriftedIn(q, since) ==  \* mutant: the times alone
  Max({0} \cup {i \in DOMAIN turns : turns[i].path = q /\ turns[i].ended >= since})

(* find_drift_turn, or 0 for "drift time unknown".                          *)
DriftTurn(q, since) ==
  LET at == {i \in DOMAIN turns : turns[i].path = q}
      producers == {i \in at : tree[q] # Gone /\ turns[i].after = tree[q]}
  IN IF producers # {} THEN Max(producers)
     ELSE Max({0} \cup {i \in at : turns[i].ended >= since})

(* The rows of `memories --stale`, and pin_drifts.                          *)
Rows == {m \in Living : Freshness(m.says.pins) # "fresh"}

Drifted(m) == {q \in DOMAIN m.says.pins : tree[q] # m.says.pins[q]}

-----------------------------------------------------------------------------
RecallInit == hook = HookRest /\ stats = << >> /\ turns = << >>

RecallNext ==
  \/ \E k \in 1 .. K : Recall(k) \/ Inject(k)
  \/ Step /\ UNCHANGED recallVars
  \/ Answer \/ RecallEnd \/ Late \/ GiveUp \/ Receive
  \/ \E q \in Paths : Recorded(q)

-----------------------------------------------------------------------------
(* Properties.                                                              *)

(* A walk that found less than it was asked for, and does not say that it   *)
(* was cut short, has found every memory whose pins were fresh all the      *)
(* while (F3).                                                              *)
WalkHonest(r) ==
  r.corrupt \/ r.late \/ r.capped \/ Len(r.hits) >= r.k \/ r.steady \subseteq ToSet(r.hits)

(* The user is told that there are no memories only when what the walk had  *)
(* read has left the ledger for the archive, or is not readable.            *)
EmptyHonest(r) ==
  r.said = "no memories yet" => r.corrupt \/ r.seen \subseteq archive

(* What a hook does not print is not passed over in silence: no line is     *)
(* noted only when nothing that was asked for was fresh all the while, or   *)
(* the first fact does not fit into a block (F2, F3, F10). The summary      *)
(* counts each prompt that got facts.                                       *)
HookHonest ==
  /\ (hook.pc = "done" /\ hook.note = {}) =>
       hook.found.steady = {} \/ (hook.found.hits # << >> /\ hook.printed = << >>)
  /\ Summary.injected = hook.injections
  /\ Summary.injected + Summary.budget_exceeded + Summary.failure + Summary.capped_empty = Len(stats)

(* A drift whose last change is recorded is explained by that change, even  *)
(* when the file changed between the hashing of the pin and the time stamp  *)
(* of the memory; only the time of a deletion may be unknown then.          *)
DriftHonest ==
  \A m \in Rows : \A q \in Drifted(m) :
    (LastTurn(q) # 0 /\ turns[LastTurn(q)].after = tree[q]) =>
      \/ DriftTurn(q, m.ts) = LastTurn(q)
      \/ tree[q] = Gone /\ DriftTurn(q, m.ts) = 0

(* What recall, the hook and the listing say of the memories is what can be *)
(* said of them (INV-M2, INV-M4), while the ledger and the files change.    *)
RecallHonest ==
  /\ reader # ReaderRest /\ reader.pc \in {"done", "said"} => WalkHonest(reader)
  /\ reader # ReaderRest => EmptyHonest(reader)
  /\ HookHonest
  /\ DriftHonest
=============================================================================
