------------------------------ MODULE Storage ------------------------------
(* The object store and everything that takes objects out of it: the       *)
(* eviction pass of the recorder (retention.rs, run_eviction_pass) and the *)
(* operations of purge (purgecmd.rs), against the processes that put       *)
(* objects and append the turns that name them: the recorder, undo and     *)
(* import under log.lock, and commands that pin a content in the memory    *)
(* ledger or in an attest event. log.jsonl is rewritten by one of the      *)
(* operations, so the module also says which appends survive.              *)
(*                                                                         *)
(* An object is its hash. The ages of turns are compared with one cutoff,  *)
(* the era.                                                                *)
EXTENDS Naturals, Sequences, FiniteSets, FiniteSetsExt, SequencesExt

CONSTANTS
  Hashes,     \* contents; prompts share the store with them
  Big,        \* the contents of size 2, the others have size 1
  Prompts,    \* the contents that a prompt can have
  Paths,
  Budget,     \* store_budget_bytes
  None,
  Bounds      \* what may happen, and how often: one record per exploration

Operations == {"prompts", "date", "path", "orphans", "duplicates"}
OtherWriters == {"undo", "import", "pin", "capture"}

ASSUME StorageAssumption ==
  /\ Big \subseteq Hashes /\ Prompts \subseteq Hashes /\ None \notin Hashes
  /\ IsFiniteSet(Hashes)   \* a hash is 64 hexadecimal digits
  /\ Budget \in Nat
  /\ Bounds \subseteq [ turns : Nat, records : Nat, writes : Nat, purges : Nat,
                        passes : Nat, crashes : Nat,
                        ops : SUBSET Operations, by : SUBSET OtherWriters ]

VARIABLES
  objects,   \* hashes in objects/
  log,       \* log.jsonl: turns, and lines that do not parse
  journal,   \* open.json: the open turn, or None
  pins,      \* hashes named in memory.jsonl and attest.jsonl
  seen,      \* Recorder's baseline of each path: the last content staged
  era,       \* turns of an earlier era are past the cutoff of purge
  recorder,  \* the daemon, and its eviction pass
  writer,    \* an undo, import or capture between its put and its append
  purger,    \* a running purge; it holds log.lock in its rewrite
  left,      \* what may still happen
  acked,     \* history: ids of the turns whose append succeeded
  ids,       \* history: those of them that nothing excuses from being lost
  forsaken   \* history: taken by a purge that does not look at open.json

vars == <<objects, log, journal, pins, seen, era, recorder, writer, purger,
          left, acked, ids, forsaken>>

-----------------------------------------------------------------------------
(* Records and what they name.                                             *)

Entry(p, before, after) == [path |-> p, before |-> before, after |-> after]

EntryBlobs(e) == {e.before, e.after} \ {None}

(* turn_snapshot_hashes *)
Blobs(t) == UNION {EntryBlobs(e) : e \in t.files}

PromptOf(t) == {t.prompt} \ {None}

Turn(at, files, prompt) ==
  [kind |-> "turn", id |-> left.turns, at |-> at, files |-> files, prompt |-> prompt]

(* A line is a turn, "torn" (the log ends in it, without a newline) or     *)
(* "garbled" (it does not parse and more lines follow).                    *)
IsTurn(r) == r.kind = "turn"
TurnsAt(records) == {i \in DOMAIN records : IsTurn(records[i])}
Newest(records) == Max(TurnsAt(records))
TurnSet(records) == {r \in Range(records) : r.kind = "turn"}

(* snapshot_hashes and prompt_hashes, over any set of turns *)
Snapshots(T) == UNION {Blobs(t) : t \in T}
PromptRefs(T) == UNION {PromptOf(t) : t \in T}

(* harvest_refs: every hash of a line, whether or not the line parses.     *)
Refs(r) == Blobs(r) \cup PromptOf(r)
TornRefs(records) == UNION {Refs(r) : r \in {x \in Range(records) : ~ IsTurn(x)}}

EndsTorn(records) == records # << >> /\ Last(records).kind = "torn"

(* open_append: the bytes and a newline, after whatever the file ends in.  *)
AppendLine(records, r) ==
  IF EndsTorn(records)
  THEN Append(Front(records),
         [r EXCEPT !.kind = IF IsTurn(r) THEN "garbled" ELSE "torn",
                   !.files = @ \cup Last(records).files])
  ELSE Append(records, r)

JournalRefs == IF journal = None THEN {} ELSE Blobs(journal)

(* referenced_hashes_outside_log *)
RefsOutsideLog == JournalRefs \cup pins

Size(h) == IF h \in Big THEN 2 ELSE 1
SizeIn(store, h) == IF h \in store THEN Size(h) ELSE 0
Bytes(S) == MapThenSumSet(LAMBDA h : SizeIn(objects, h), S)

-----------------------------------------------------------------------------
(* plan_eviction.                                                          *)

NewerButNewest(lines, i) ==  \* mutant: the newest turn is not accounted for
  Snapshots({lines[j] : j \in {k \in TurnsAt(lines) : k >= i /\ k # Newest(lines)}})

(* What the turns from line i to the newest name.                          *)
Newer(lines, i) == Snapshots({lines[j] : j \in {k \in TurnsAt(lines) : k >= i}})

OverBudget(lines, i) ==
  /\ Bytes(Newer(lines, i)) > Budget
  /\ ~ (i = Newest(lines) /\ Cardinality(TurnsAt(lines)) > 1)

(* The newest turn that the budget does not cover, 0 when it covers all.   *)
Boundary(lines) == Max({0} \cup {i \in TurnsAt(lines) : OverBudget(lines, i)})

Victims(lines, protected) ==
  LET b == Boundary(lines) IN
    Snapshots({lines[j] : j \in {k \in TurnsAt(lines) : k <= b}})
      \ (Newer(lines, b + 1) \cup protected \cup PromptRefs(TurnSet(lines)))

(* extra_protected_refs *)
ExtraProtected == RefsOutsideLog \cup TornRefs(log)

-----------------------------------------------------------------------------
(* Puts and removals. Modification times are compared with the start of a  *)
(* pass only, so a running pass keeps what was put since: "fresh". Its     *)
(* fields "touched" (put since the pass read the log), "promised" (put and *)
(* named since the pass has its plan) and "spared" (what the plan had to   *)
(* protect beside the log) are history.                                    *)

Use(what) == left' = [left EXCEPT ![what] = @ - 1]

Judging == recorder.pc = "evict"

Fresher(S) ==
  /\ recorder' = [recorder EXCEPT
       !.fresh   = IF Judging THEN @ \cup S ELSE @,
       !.touched = IF recorder.pc \in {"plan", "evict"} THEN @ \cup S ELSE @]
  /\ purger' = [purger EXCEPT
       !.fresh = IF purger.pc = "take" /\ purger.op = "orphans" THEN @ \cup S ELSE @]

PutUntouched(S) ==  \* mutant: a hit does not touch the object
  /\ objects' = objects \cup S
  /\ Fresher(S \ objects)
  /\ forsaken' = forsaken \ S

(* put_result: write and rename, or touch the object that is there.        *)
Put(S) ==
  /\ objects' = objects \cup S
  /\ Fresher(S)
  /\ forsaken' = forsaken \ S

(* remove and archive *)
Take(h, heedless) ==
  /\ objects' = objects \ {h}
  /\ forsaken' = IF heedless /\ h \in objects THEN forsaken \cup {h} ELSE forsaken

Spare == UNCHANGED <<objects, forsaken>>

-----------------------------------------------------------------------------
(* The recorder.                                                           *)

Idle == [ pc |-> "up", log |-> << >>, victims |-> {}, fresh |-> {},
          touched |-> {}, promised |-> {}, spared |-> {} ]
Down == [Idle EXCEPT !.pc = "down"]

(* No write is between its put and its append. *)
Quiet == [kind |-> "none"]

RecorderLives == recorder.pc # "down"

(* A turn is appended. It may be lost when it continues a torn line, and,  *)
(* without log.lock, between the last look at the log and its rewrite.     *)
Acknowledge(id, locked) ==
  /\ acked' = acked \cup {id}
  /\ ids' = IF EndsTorn(log) \/ (~ locked /\ purger.pc = "rename") THEN ids
            ELSE ids \cup {id}

(* run: the lock, recover_orphan, then an eviction pass.                   *)
StartRecorder ==
  /\ ~ RecorderLives
  /\ IF journal = None \/ journal.id \in {t.id : t \in TurnSet(log)}
     THEN UNCHANGED <<log, acked, ids>>
     ELSE log' = AppendLine(log, journal) /\ Acknowledge(journal.id, FALSE)
  /\ journal' = None
  /\ recorder' = [Idle EXCEPT !.pc = "load"]
  /\ purger' = [purger EXCEPT !.overlap = purger.pc # "idle"]
  /\ UNCHANGED <<objects, pins, seen, era, writer, left, forsaken>>

(* A file keeps the before of its first change in the turn.                *)
Extend(files, p, h) ==
  LET old == {e \in files : e.path = p} IN
    (files \ old) \cup IF old = {} THEN {Entry(p, seen[p], h)}
                       ELSE {[e EXCEPT !.after = h] : e \in old}

(* stage and sync_journal: the new content is put before the journal names *)
(* it.                                                                     *)
Record(p, h) ==
  /\ recorder.pc = "up" /\ h # seen[p] /\ left.records > 0
  /\ Put({h})
  /\ seen' = [seen EXCEPT ![p] = h]
  /\ IF journal = None
     THEN /\ left.turns > 0
          /\ journal' = Turn(era, {Entry(p, seen[p], h)}, None)
          /\ left' = [left EXCEPT !.turns = @ - 1, !.records = @ - 1]
     ELSE /\ journal' = [journal EXCEPT !.files = Extend(@, p, h)]
          /\ Use("records")
  /\ UNCHANGED <<log, pins, era, writer, acked, ids>>

(* persist and the clearing of the journal. Does not take log.lock.        *)
CloseTurn(q) ==
  /\ recorder.pc = "up" /\ journal # None
  /\ Put({q} \ {None})
  /\ log' = AppendLine(log, [journal EXCEPT !.prompt = q])
  /\ Acknowledge(journal.id, FALSE)
  /\ journal' = None
  /\ UNCHANGED <<pins, seen, era, writer, left>>

(* kill -9 or a full disk, in the worst case in the middle of an append.   *)
Crash ==
  /\ RecorderLives /\ left.crashes > 0
  /\ recorder' = Down
  /\ Use("crashes")
  /\ \/ UNCHANGED log
     \/ /\ recorder.pc = "up" /\ journal # None
        /\ log' = AppendLine(log, [journal EXCEPT !.kind = "torn"])
  /\ UNCHANGED <<objects, journal, pins, seen, era, writer, purger, acked, ids, forsaken>>

(* Ctrl-C: the open turn is persisted (CloseTurn) and the journal cleared. *)
StopRecorder ==
  /\ recorder.pc = "up" /\ journal = None
  /\ recorder' = Down
  /\ UNCHANGED <<objects, log, journal, pins, seen, era, writer, purger, left,
                 acked, ids, forsaken>>

BeginPass ==
  /\ recorder.pc = "up" /\ left.passes > 0
  /\ recorder' = [recorder EXCEPT !.pc = "load"]
  /\ Use("passes")
  /\ UNCHANGED <<objects, log, journal, pins, seen, era, writer, purger, acked, ids, forsaken>>

PassUnchanged == UNCHANGED <<log, journal, pins, seen, era, writer, purger, left, acked, ids>>

LoadLog ==
  /\ recorder.pc = "load"
  /\ recorder' = [recorder EXCEPT !.pc = "plan", !.log = log]
  /\ PassUnchanged /\ Spare

PlanEviction ==
  /\ recorder.pc = "plan"
  /\ recorder' = [recorder EXCEPT !.pc = "evict",
                    !.victims = Victims(recorder.log, ExtraProtected),
                    !.spared = ExtraProtected]
  /\ writer' = IF writer = Quiet THEN Quiet ELSE [writer EXCEPT !.put = {}]
  /\ UNCHANGED <<log, journal, pins, seen, era, purger, left, acked, ids>> /\ Spare

(* execute, one victim *)
Evict(h) ==
  /\ Judging /\ h \in recorder.victims
  /\ IF h \in recorder.fresh THEN Spare ELSE Take(h, FALSE)
  /\ recorder' = [recorder EXCEPT !.victims = @ \ {h}]
  /\ PassUnchanged

EndPass ==
  /\ Judging /\ recorder.victims = {}
  /\ recorder' = Idle
  /\ PassUnchanged /\ Spare

-----------------------------------------------------------------------------
(* Undo, import, and commands that name a content outside the log. "put"   *)
(* is history: what the writer put while a pass was removing.              *)

May(what) == what \in left.by /\ writer = Quiet /\ left.writes > 0

Writing(S, record) ==
  /\ Put(S)
  /\ writer' = [kind |-> "write", record |-> record,
                put |-> IF Judging THEN S ELSE {}]
  /\ UNCHANGED <<log, journal, pins, seen, era, acked, ids>>

UseTurn == left' = [left EXCEPT !.turns = @ - 1, !.writes = @ - 1]

(* execute_revert of one entry whose file still holds what the turn left,  *)
(* and whose before can be read: the current content is put.               *)
UndoPut(t, e) ==
  /\ May("undo") /\ left.turns > 0
  /\ e.after \in Hashes /\ e.before \in objects
  /\ Writing({e.after}, Turn(era, {Entry(e.path, e.after, e.before)}, None))
  /\ UseTurn

(* A turn of an old session: its contents and its prompt are put.          *)
ImportPut(p, h, q) ==
  /\ May("import") /\ left.turns > 0
  /\ Writing({h, q} \ {None}, Turn(0, {Entry(p, None, h)}, q))
  /\ UseTurn

(* The output of a test run is put, its evidence event comes after.        *)
CapturePut(h) ==
  /\ May("capture")
  /\ Writing({h}, [kind |-> "capture", hash |-> h])
  /\ Use("writes")

LogUnlocked == FALSE  \* mutant: the rewrite does not take log.lock

LogLocked == purger.pc \in {"archived", "rename"}

(* append_log_locked waits for the lock; attest.jsonl has one of its own.  *)
WriterAppend ==
  /\ writer # Quiet
  /\ LET r == writer.record IN
       IF r.kind = "capture"
       THEN pins' = pins \cup {r.hash} /\ UNCHANGED <<log, acked, ids>>
       ELSE /\ ~ LogLocked
            /\ log' = AppendLine(log, r)
            /\ Acknowledge(r.id, TRUE)
            /\ UNCHANGED pins
  /\ recorder' = [recorder EXCEPT !.promised = IF Judging THEN @ \cup writer.put ELSE @]
  /\ writer' = Quiet
  /\ UNCHANGED <<objects, journal, seen, era, purger, left, forsaken>>

(* remember: a pin names the content of a file, and puts nothing.          *)
Pin(p) ==
  /\ May("pin") /\ seen[p] \in Hashes \ pins
  /\ pins' = pins \cup {seen[p]}
  /\ Use("writes")
  /\ UNCHANGED <<objects, log, journal, seen, era, recorder, writer, purger,
                 acked, ids, forsaken>>

(* The environment: a day passes, and only matters to purge.               *)
Age ==
  /\ era = 0 /\ left.purges > 0 /\ log # << >>
  /\ era' = 1
  /\ UNCHANGED <<objects, log, journal, pins, seen, recorder, writer, purger,
                 left, acked, ids, forsaken>>

-----------------------------------------------------------------------------
(* Purge.                                                                  *)

Resting == [ pc |-> "idle", op |-> "none", cut |-> 0, path |-> None,
             lines |-> << >>, cand |-> {}, overlap |-> FALSE, fresh |-> {} ]

Expired(T, cut) == {t \in T : t.at < cut}
Kept(T, cut) == {t \in T : t.at >= cut}

(* purge_prompts, whose cutoff is past every turn for --all-prompts: what  *)
(* it may take and what it must keep.                                      *)
PromptCandidates(T, cut) == PromptRefs(Expired(T, cut))
PromptKeep(T, cut) == PromptRefs(Kept(T, cut)) \cup Snapshots(T)

(* purge_snapshots_before                                                  *)
DateCandidates(T, cut) == Snapshots(Expired(T, cut))
DateKeep(T, cut) == Snapshots(Kept(T, cut)) \cup PromptRefs(T)

LogEntries == UNION {t.files : t \in TurnSet(log)}

(* scan_for_path: blobs of entries of the path, and what anything else     *)
(* names. A torn line is harvested raw.                                    *)
PathCandidates(p) == UNION {EntryBlobs(e) : e \in {x \in LogEntries : x.path = p}}

OthersInLog(p) ==
  (UNION {EntryBlobs(e) : e \in {x \in LogEntries : x.path # p}})
    \cup PromptRefs(TurnSet(log)) \cup TornRefs(log)

PathProtectLog(p) == OthersInLog(p)  \* mutant: only the log protects

PathProtect(p) == OthersInLog(p) \cup RefsOutsideLog

(* referenced_hashes: a raw scan of the four files.                        *)
ReferencedHashes == (UNION {Refs(r) : r \in Range(log)}) \cup RefsOutsideLog

(* view::same_revert *)
SameRevert(a, b) == a.id = b.id /\ a.files = b.files

(* The lines purge_log_duplicates keeps, in their order: no turn that      *)
(* repeats an earlier one; a line that is not a turn always stays.         *)
Repeats(lines, i) ==
  IsTurn(lines[i]) /\ \E j \in TurnsAt(lines) : j < i /\ SameRevert(lines[j], lines[i])
Firsts(lines) == {i \in DOMAIN lines : ~ Repeats(lines, i)}

InOrder(S) ==
  CHOOSE s \in [1 .. Cardinality(S) -> S] : \A i, j \in DOMAIN s : i < j => s[i] < s[j]

Deduplicated(lines) ==
  LET kept == InOrder(Firsts(lines)) IN [i \in DOMAIN kept |-> lines[kept[i]]]

Purging(pc) == purger.pc = pc
Step(pc, cand) == purger' = [purger EXCEPT !.pc = pc, !.cand = cand]
Done == purger' = Resting
OnlyPurger == UNCHANGED <<log, journal, pins, seen, era, recorder, writer, acked, ids>>

MayPurge == Purging("idle") /\ left.purges > 0 /\ ~ RecorderLives

(* run: refuse while a recorder lives, then read the log. --path has a way *)
(* of its own, everything else archives old prompts first.                 *)
StartPurge(op, cut) ==
  /\ MayPurge /\ op \in left.ops \ {"path"}
  /\ purger' = [Resting EXCEPT !.pc = "prompts", !.op = op, !.cut = cut, !.lines = log]
  /\ Use("purges")
  /\ OnlyPurger /\ Spare

(* purge_path: the first of its two scans.                                 *)
StartPurgePath(p) ==
  /\ MayPurge /\ "path" \in left.ops
  /\ purger' = [Resting EXCEPT !.pc = "rescan", !.op = "path", !.path = p,
                               !.cand = PathCandidates(p) \ PathProtect(p)]
  /\ Use("purges")
  /\ OnlyPurger /\ Spare

(* Each operation but --snapshots-before looks for a recorder again.       *)
Refuse ==
  /\ RecorderLives
  /\ \/ Purging("prompts")
     \/ Purging("op") /\ purger.op \in {"orphans", "duplicates"}
  /\ Done
  /\ OnlyPurger /\ Spare /\ UNCHANGED left

(* Candidates from the log as first read, less what a second reading keeps. *)
ChoosePrompts ==
  /\ Purging("prompts") /\ ~ RecorderLives
  /\ LET T   == TurnSet(purger.lines)
         cut == IF purger.op = "prompts" THEN purger.cut ELSE era
     IN  Step("takePrompts",
              PromptCandidates(T, cut)
                \ (PromptKeep(T, cut) \cup PromptKeep(TurnSet(log), cut)))
  /\ OnlyPurger /\ Spare /\ UNCHANGED left

ChooseByDate ==
  /\ Purging("op") /\ purger.op = "date"
  /\ LET T == TurnSet(purger.lines) IN
     Step("take", DateCandidates(T, purger.cut)
            \ (DateKeep(T, purger.cut) \cup DateKeep(TurnSet(log), purger.cut)))
  /\ OnlyPurger /\ Spare /\ UNCHANGED left

ChooseByPath ==
  /\ Purging("rescan")
  /\ Step("take", purger.cand \ PathProtect(purger.path))
  /\ OnlyPurger /\ Spare /\ UNCHANGED left

ChooseOrphans ==
  /\ Purging("op") /\ purger.op = "orphans" /\ ~ RecorderLives
  /\ Step("take", Hashes \ ReferencedHashes)
  /\ OnlyPurger /\ Spare /\ UNCHANGED left

(* What does not read open.json, or ran on beside a recorder.              *)
Heedless ==
  \/ Purging("takePrompts") \/ purger.op = "date"
  \/ purger.op = "path" /\ purger.overlap

(* archive_all, delete_all and the loops of --path and --orphans: one.     *)
TakeOne(h) ==
  /\ (Purging("takePrompts") \/ Purging("take")) /\ h \in purger.cand
  /\ IF h \in purger.fresh THEN Spare ELSE Take(h, Heedless)
  /\ purger' = [purger EXCEPT !.cand = @ \ {h}]
  /\ OnlyPurger /\ UNCHANGED left

EndTake ==
  /\ (Purging("takePrompts") \/ Purging("take")) /\ purger.cand = {}
  /\ IF Purging("takePrompts") /\ purger.op # "prompts" THEN Step("op", {}) ELSE Done
  /\ OnlyPurger /\ Spare /\ UNCHANGED left

(* purge_log_duplicates: log.lock, the log is read, the copy is archived.  *)
ReadDuplicates ==
  /\ Purging("op") /\ purger.op = "duplicates" /\ ~ RecorderLives
  /\ IF Firsts(log) = DOMAIN log THEN Done
     ELSE purger' = [purger EXCEPT !.pc = "archived", !.lines = log]
  /\ OnlyPurger /\ Spare /\ UNCHANGED left

(* The second look at the length, then tmp and rename.                     *)
CheckLength ==
  /\ Purging("archived")
  /\ IF Len(log) > Len(purger.lines) THEN Done ELSE Step("rename", {})
  /\ OnlyPurger /\ Spare /\ UNCHANGED left

RewriteLog ==
  /\ Purging("rename")
  /\ LET kept == Deduplicated(purger.lines)
         terminated(r) == IF r.kind = "torn" THEN [r EXCEPT !.kind = "garbled"] ELSE r
     IN  log' = [i \in DOMAIN kept |-> terminated(kept[i])]
  /\ Done
  /\ UNCHANGED <<objects, journal, pins, seen, era, recorder, writer, left, acked, ids, forsaken>>

(* Killed: what is archived is archived, the lock is released.             *)
KillPurge ==
  /\ ~ Purging("idle")
  /\ Done
  /\ OnlyPurger /\ Spare /\ UNCHANGED left

-----------------------------------------------------------------------------
Init ==
  (* An earlier version of the recorder could log a turn twice. *)
  /\ \E p \in Paths, h \in Hashes :
       LET twice == [ kind |-> "turn", id |-> 0, at |-> 0,
                      files |-> {Entry(p, None, h)}, prompt |-> None ]
       IN  /\ log \in {<< >>, <<twice, twice>>}
           /\ objects = IF log = << >> THEN {} ELSE {h}
           /\ seen = [q \in Paths |-> IF log # << >> /\ q = p THEN h ELSE None]
  /\ journal = None /\ pins = {} /\ era = 0
  /\ recorder = Down /\ writer = Quiet /\ purger = Resting
  /\ left \in Bounds
  /\ acked = {} /\ ids = {} /\ forsaken = {}

Next ==
  \/ StartRecorder \/ Crash \/ StopRecorder
  \/ \E p \in Paths, h \in Hashes : Record(p, h)
  \/ \E q \in Prompts \cup {None} : CloseTurn(q)
  \/ BeginPass \/ LoadLog \/ PlanEviction \/ EndPass
  \/ \E h \in Hashes : Evict(h) \/ TakeOne(h) \/ CapturePut(h)
  \/ \E t \in TurnSet(log) : \E e \in t.files : UndoPut(t, e)
  \/ \E p \in Paths, h \in Hashes, q \in Prompts \cup {None} : ImportPut(p, h, q)
  \/ \E p \in Paths : Pin(p)
  \/ WriterAppend \/ Age
  \/ \E op \in Operations, cut \in {era, era + 1} : StartPurge(op, cut)
  \/ \E p \in Paths : StartPurgePath(p)
  \/ Refuse \/ ChoosePrompts \/ ChooseByDate \/ ChooseByPath \/ ChooseOrphans
  \/ ReadDuplicates \/ CheckLength \/ RewriteLog \/ EndTake \/ KillPurge

Spec == Init /\ [][Next]_vars

-----------------------------------------------------------------------------
(* Properties.                                                             *)

Records ==
  [ kind : {"turn", "torn", "garbled"}, id : Nat, at : 0 .. 1,
    files : SUBSET [ path : Paths, before : Hashes \cup {None},
                     after : Hashes \cup {None} ],
    prompt : Hashes \cup {None} ]

(* Every file of the project directory holds what its writers put there,   *)
(* and a turn at most one entry per path.                                  *)
TypeOK ==
  /\ objects \subseteq Hashes /\ pins \subseteq Hashes
  /\ \A r \in Range(log) \cup ({journal} \ {None}) :
       /\ r \in Records
       /\ \A e, f \in r.files : IsTurn(r) /\ e.path = f.path => e = f
  /\ seen \in [Paths -> Hashes \cup {None}] /\ era \in 0 .. 1
  /\ recorder.pc \in {"down", "up", "load", "plan", "evict"}
  /\ recorder.victims \cup recorder.fresh \subseteq Hashes
  /\ purger.pc \in {"idle", "prompts", "takePrompts", "op", "rescan", "take",
                    "archived", "rename"}
  /\ purger.cand \cup purger.fresh \subseteq Hashes

(* purge --log-duplicates rewrites the log while others append to it: no   *)
(* turn of undo and import disappears, nor one of a recorder that started  *)
(* meanwhile and did not hit the last window, which purgecmd.rs documents  *)
(* (purge_log_duplicates, loglock.rs). A torn line may take the next one   *)
(* with it.                                                                *)
LogAppendsSurvive == ids \subseteq {t.id : t \in TurnSet(log)}

(* What recover_orphan makes of the journal after a kill can be read: the  *)
(* content that the journal says a file has is in the store. Only          *)
(* --snapshots-before and the purge of prompts, which do not read          *)
(* open.json, may have taken it, or --path beside a recorder that started. *)
JournalRecoverable ==
  journal # None =>
    \A e \in journal.files : e.after \in objects \cup forsaken

(* An eviction pass (run_eviction_pass) takes nothing of the open turn, of *)
(* the newest turn it read, of any prompt it read, nor what a writer put   *)
(* while the pass was removing and has named since.                        *)
EvictionSparesLive ==
  [][ \A h \in objects \ objects' :
        recorder' # recorder =>
          /\ h \notin JournalRefs \cup recorder.promised
          /\ Cardinality(TurnsAt(recorder.log)) > 1 =>
               h \notin Blobs(recorder.log[Newest(recorder.log)])
          /\ h \notin PromptRefs(TurnSet(recorder.log)) ]_vars

(* A pass that is over has brought what the log it read names within the   *)
(* budget, but for the newest turn, for what its plan had to spare and for *)
(* what was put meanwhile (plan_eviction, managed_bytes).                  *)
BudgetEnforced ==
  Judging /\ recorder.victims = {} =>
    LET lines   == recorder.log
        excused == recorder.spared \cup PromptRefs(TurnSet(lines)) \cup recorder.touched
                     \cup IF Cardinality(TurnsAt(lines)) > 1
                          THEN Blobs(lines[Newest(lines)]) ELSE {}
    IN  Bytes(Snapshots(TurnSet(lines)) \ excused) <= Budget

(* record.rs, append_log: "turn-close and epoch appends must survive a     *)
(* kill-9 immediately after this call returns Ok", and load_log: "torn     *)
(* lines are skipped", "a bad line must not wipe history".                 *)
AppendedIsReadable == acked \subseteq {t.id : t \in TurnSet(log)}
=============================================================================
