---------------------------- MODULE MemoryLedger ----------------------------
(* memory.jsonl, the ledger of facts (memory.rs, memorycmds.rs, memlock.rs, *)
(* and purge --memories-retracted of purgecmd.rs): commands and the daemon  *)
(* read it without a lock, decide, and append under memory.lock; purge      *)
(* rewrites it under the lock. Its readers are in Recall.                   *)
(*                                                                          *)
(* load_effective sorts what it reads, so the ledger is the set of its      *)
(* readable records. The wall clock does not step back.                     *)
EXTENDS Naturals, Sequences, FiniteSets, SequencesExt

CONSTANTS
  Facts, Paths, Contents,
  Gone,        \* what a path holds whose file is missing
  Commands,    \* processes that run remember, verify or forget
  Daemon,      \* the process that ingests candidates
  None,
  TTL,         \* retention of retracted memories
  Bounds       \* how often what may happen: one record per exploration

Writers == Commands \cup {Daemon}

ASSUME LedgerAssumption ==
  /\ Gone \notin Contents /\ Daemon \notin Commands
  /\ TTL \in Nat
  /\ \A b \in Bounds :
       \A what \in {"memories", "time", "asserts", "verifies", "forgets", "edits", "purges",
                    "recalls", "kills"} : what \in DOMAIN b /\ b[what] \in Nat

VARIABLES
  mem,       \* memory.jsonl
  archive,   \* records in memory.archived.*.jsonl
  tree,      \* the working tree
  now,       \* the wall clock
  proc,      \* what each writer is about to append
  purge,     \* a running purge --memories-retracted
  reader,    \* a running recall (Recall)
  left,      \* what may still happen
  acked,     \* history: the records whose append succeeded
  forgotten, \* history: ids of the memories that a forget retracted
  raced      \* history: ids of which a verify and a forget overlapped

ledger == <<mem, archive, tree, now, proc, purge, reader, acked, forgotten, raced>>

-----------------------------------------------------------------------------
(* Records and their fold.                                                  *)

Present == {q \in Paths : tree[q] # Gone}

(* hash_pin of each path *)
Hashed(S) == [q \in S |-> tree[q]]

(* pin_freshness *)
Freshness(pins) ==
  CASE ~ DOMAIN pins \subseteq Present -> "orphaned"
    [] DOMAIN pins \subseteq Present /\ \A q \in DOMAIN pins : tree[q] = pins[q] -> "fresh"
    [] OTHER -> "stale"

RankSwapped(op) ==  \* mutant: a verify of the same millisecond wins
  CASE op = "assert" -> 0 [] op = "retract" -> 1 [] op = "reverify" -> 2

(* op_rank *)
Rank(op) == CASE op = "assert" -> 0 [] op = "reverify" -> 1 [] op = "retract" -> 2

Earlier(a, b) == a.ts < b.ts \/ (a.ts = b.ts /\ Rank(a.op) < Rank(b.op))

(* The last of the sorted group. content_key breaks ties in a way of its    *)
(* own, which depends on the records and never on their order.              *)
Latest(R) == CHOOSE r \in R : \A s \in R : ~ Earlier(r, s)

Ids(R) == {r.id : r \in R}
Chain(R, id) == {r \in R : r.id = id}
Says(R) == {r \in R : r.op # "retract"}

(* load_effective, one id: a retraction keeps what the memory said.         *)
Effective(R, id) ==
  LET C == Chain(R, id) IN
    [ id |-> id, retracted |-> Latest(C).op = "retract", ts |-> Latest(C).ts,
      says |-> IF Says(C) = {} THEN None
               ELSE [fact |-> Latest(Says(C)).fact, pins |-> Latest(Says(C)).pins] ]

LoadEffective == {Effective(mem.records, id) : id \in Ids(mem.records)}
Living == {m \in LoadEffective : ~ m.retracted}

(* open_append: after a torn line the record is glued to it.                *)
AppendRecord(r) ==
  mem' = IF mem.torn THEN [mem EXCEPT !.torn = FALSE]
         ELSE [mem EXCEPT !.records = @ \cup {r}]

TearRecord == mem' = [mem EXCEPT !.torn = TRUE, !.corrupt = TRUE]

-----------------------------------------------------------------------------
(* Writers: what is read and decided without the lock, then the append. The *)
(* time stamp is taken in between, before the lock.                         *)

Resting == [pc |-> "rest"]

Intend(p, r) ==
  /\ proc[p] = Resting
  /\ proc' = [proc EXCEPT ![p] = [pc |-> "append", since |-> now, record |-> r]]
  /\ UNCHANGED <<mem, archive, tree, now, purge, reader, acked, forgotten>>

Use(what) == left' = [left EXCEPT ![what] = @ - 1]

Intends(q, op, id) ==
  proc[q] # Resting /\ proc[q].record.op = op /\ proc[q].record.id = id

Overlap(op, id) ==
  raced' = IF \E q \in Writers : Intends(q, op, id) THEN raced \cup {id} ELSE raced

(* remember: the id is new, every path must be readable.                    *)
Remember(p, fact, S) ==
  /\ left.asserts > 0 /\ S \subseteq Present
  /\ Intend(p, [id |-> left.asserts, op |-> "assert", fact |-> fact, pins |-> Hashed(S)])
  /\ Use("asserts")
  /\ UNCHANGED raced

(* verify --confirm without --replace-pin: pins whose file is gone must be  *)
(* named by --drop-pin; one pin must remain.                                *)
Verify(p, m) ==
  /\ left.verifies > 0 /\ m \in Living
  /\ DOMAIN m.says.pins \cap Present # {}
  /\ Intend(p, [ id |-> m.id, op |-> "reverify", fact |-> m.says.fact,
                 pins |-> Hashed(DOMAIN m.says.pins \cap Present) ])
  /\ Use("verifies") /\ Overlap("retract", m.id)

(* verify --confirm --replace-pin old=new                                   *)
VerifyReplacing(p, m, old, new) ==
  /\ left.verifies > 0 /\ m \in Living
  /\ old \in DOMAIN m.says.pins /\ new \in Present
  /\ Intend(p, [ id |-> m.id, op |-> "reverify", fact |-> m.says.fact,
                 pins |-> Hashed(((DOMAIN m.says.pins \ {old}) \cap Present) \cup {new}) ])
  /\ Use("verifies") /\ Overlap("retract", m.id)

(* forget *)
Forget(p, m) ==
  /\ left.forgets > 0 /\ m \in Living
  /\ Intend(p, [ id |-> m.id, op |-> "retract", fact |-> m.says.fact,
                 pins |-> m.says.pins ])
  /\ Use("forgets") /\ Overlap("reverify", m.id)

NeverLocked == FALSE  \* mutant: purge does not take memory.lock

MemoryLocked == purge.pc # "rest"

Stamped(r, ts) == [id |-> r.id, op |-> r.op, fact |-> r.fact, pins |-> r.pins, ts |-> ts]

(* append_memory_locked. A candidate carries the time of its signal.        *)
AppendLocked(p) ==
  /\ proc[p] # Resting /\ ~ MemoryLocked
  /\ \E ts \in 0 .. now :
       LET r == Stamped(proc[p].record, ts) IN
         /\ proc[p].since <= ts /\ (p = Daemon => ts = proc[p].since)
         /\ AppendRecord(r)
         /\ acked' = IF mem.torn THEN acked ELSE acked \cup {r}
         /\ forgotten' = IF r.op = "retract" /\ ~ mem.torn
                         THEN forgotten \cup {r.id} ELSE forgotten
  /\ proc' = [proc EXCEPT ![p] = Resting]
  /\ UNCHANGED <<archive, tree, now, purge, reader, left, raced>>

(* kill -9, in the worst case in the middle of the append.                  *)
KillWriter(p) ==
  /\ proc[p] # Resting /\ left.kills > 0
  /\ proc' = [proc EXCEPT ![p] = Resting]
  /\ \/ UNCHANGED mem
     \/ ~ MemoryLocked /\ TearRecord
  /\ Use("kills")
  /\ UNCHANGED <<archive, tree, now, purge, reader, acked, forgotten, raced>>

(* ingest_candidate: a fact that is alive with the same pinned paths is     *)
(* dropped, so is a candidate that pins a missing file. The record carries  *)
(* the time of the signal.                                                  *)
IsCopy(fact, S) ==  \* mutant: compares the contents of the pinned files too
  \E m \in Living : m.says.fact = fact /\ m.says.pins = Hashed(S)

IsDuplicate(fact, S) ==
  \E m \in Living : m.says.fact = fact /\ DOMAIN m.says.pins = S

Ingestible(fact, S) == S \subseteq Present /\ ~ IsDuplicate(fact, S)

Ingest(fact, S, ts) ==
  /\ proc[Daemon] = Resting /\ left.asserts > 0
  /\ proc' = [proc EXCEPT ![Daemon] =
       [ pc |-> "append", since |-> ts,
         record |-> [ id |-> left.asserts, op |-> "assert", fact |-> fact,
                      pins |-> Hashed(S) ] ]]
  /\ Use("asserts")
  /\ UNCHANGED <<mem, archive, tree, now, purge, reader, acked, forgotten, raced>>

-----------------------------------------------------------------------------
(* purge --memories-retracted, which holds memory.lock throughout.          *)

Cutoff == IF now > TTL THEN now - TTL ELSE 0

Expired == {m.id : m \in {e \in LoadEffective : e.retracted /\ e.ts < Cutoff}}

ExpiredLines == {r \in mem.records : r.id \in Expired}

PurgeRest == [pc |-> "rest", take |-> {}, keep |-> {}]

PurgeUnchanged == UNCHANGED <<tree, now, proc, reader, acked, forgotten, raced>>

PurgeDecide ==
  /\ purge = PurgeRest /\ left.purges > 0
  /\ Expired # {}
  /\ purge' = [pc |-> "archive", take |-> ExpiredLines, keep |-> mem.records \ ExpiredLines]
  /\ Use("purges")
  /\ PurgeUnchanged /\ UNCHANGED <<mem, archive>>

(* append_lines_synced *)
PurgeArchive ==
  /\ purge.pc = "archive"
  /\ archive' = archive \cup purge.take
  /\ purge' = [purge EXCEPT !.pc = "rewrite"]
  /\ PurgeUnchanged /\ UNCHANGED <<mem, left>>

(* rewrite_memory_atomic: lines that do not parse stay, ended by a newline. *)
PurgeRewrite ==
  /\ purge.pc = "rewrite"
  /\ mem' = [mem EXCEPT !.records = purge.keep, !.torn = FALSE]
  /\ purge' = PurgeRest
  /\ PurgeUnchanged /\ UNCHANGED <<archive, left>>

KillPurge ==
  /\ purge.pc # "rest" /\ left.kills > 0
  /\ purge' = PurgeRest
  /\ Use("kills")
  /\ PurgeUnchanged /\ UNCHANGED <<mem, archive>>

-----------------------------------------------------------------------------
(* The environment: files change, time passes. "steady" is history: which   *)
(* of the memories that a recall considers have had fresh pins all along.   *)

ReaderRest == [pc |-> "rest"]

Edit(q, c) ==
  /\ left.edits > 0 /\ c # tree[q]
  /\ tree' = [tree EXCEPT ![q] = c]
  /\ reader' = IF reader = ReaderRest THEN reader
               ELSE [reader EXCEPT !.steady =
                 {m \in @ : q \in DOMAIN m.says.pins => m.says.pins[q] = c}]
  /\ Use("edits")
  /\ UNCHANGED <<mem, archive, now, proc, purge, acked, forgotten, raced>>

Tick ==
  /\ left.time > 0
  /\ now' = now + 1
  /\ Use("time")
  /\ UNCHANGED <<mem, archive, tree, proc, purge, reader, acked, forgotten, raced>>

(* What was remembered before the exploration begins.                       *)
Remembered(fact, S) ==
  {[ id |-> left.asserts + n, op |-> "assert", fact |-> fact[n],
     pins |-> Hashed(S[n]), ts |-> 0 ] : n \in 1 .. left.memories}

LedgerInit ==
  /\ left \in Bounds
  /\ tree \in [Paths -> Contents] /\ now = 0
  /\ \E fact \in [1 .. left.memories -> Facts],
        S \in [1 .. left.memories -> (SUBSET Paths) \ {{}}] :
       mem = [records |-> Remembered(fact, S), torn |-> FALSE, corrupt |-> FALSE]
  /\ acked = mem.records
  /\ archive = {} /\ forgotten = {} /\ raced = {}
  /\ proc = [p \in Writers |-> Resting] /\ purge = PurgeRest /\ reader = ReaderRest

(* Everything but the start of a purge and of an ingestion, which depend on *)
(* the daemon.                                                              *)
LedgerNext ==
  \/ \E p \in Commands :
       \/ \E fact \in Facts, S \in (SUBSET Paths) \ {{}} : Remember(p, fact, S)
       \/ \E m \in LoadEffective :
            \/ Verify(p, m) \/ Forget(p, m)
            \/ \E old, new \in Paths : VerifyReplacing(p, m, old, new)
       \/ KillWriter(p)
  \/ \E p \in Writers : AppendLocked(p)
  \/ PurgeArchive \/ PurgeRewrite \/ KillPurge
  \/ \E q \in Paths, c \in Contents \cup {Gone} : Edit(q, c)
  \/ Tick

-----------------------------------------------------------------------------
(* Properties.                                                              *)

(* memlock.rs: "No append is ever silently lost", and purge archives before *)
(* it rewrites: a record that was appended is in the ledger or in an        *)
(* archive, whoever is killed when.                                         *)
NoRecordLost == acked \subseteq mem.records \cup archive

(* A memory that was forgotten stays forgotten, whatever was read before    *)
(* and written after, but for a verify that ran at the same time as the     *)
(* forget (op_rank, load_effective).                                        *)
ForgetWins ==
  \A m \in Living : m.id \in forgotten => m.id \in raced
=============================================================================
