# agentrec: TLA+ models, model checking and proofs

agentrec is a flight recorder for coding agents. A daemon watches a project root,
groups file changes into *turns*, attributes them to an agent, to git or to nobody,
stores the contents before and after each turn, and lets a human or an agent look at
turns and undo them. This directory holds TLA+ models of its stateful parts, the TLC
configurations that check them on small instances, and proofs checked by TLAPS.

Paths below are relative to the repository root; `core` is `agentrec-core/src`, `cli` is
`cli/src`.

## 1. Inventory

| Component | State | Operations | What is hard | What makes it correct |
|---|---|---|---|---|
| Turn engine (`core/engine.rs`) | the open turn, the git window, recent bare turns, closed turns waiting for the tick | observe_changes, observe_git_change, observe_start, observe_stop, tick, force_close | three kinds of boundary race each other around millisecond windows; retroactive folding | no observation lost or counted twice; no work attributed to a tool it precedes; `before` is the original content |
| Recorder daemon (`cli/daemon.rs`) | `log.jsonl`, `open.json` (crash journal), in-memory engine and queue, `known` and baseline contents, watched directories and ignore rules | the loop of `run`; orphan recovery; gap scan; persist; journal sync; debouncing, staging; admission of directories; clean shutdown | kill -9 between any two writes; files that change between the event and the read; events that come late or not at all | one turn, one record; a journaled turn is never lost; the log explains the disk |
| Signal inbox (`signal.jsonl`, `cli/hookcmds.rs`, `cli/state.rs`) | lines, consumed offset, key of the last signal | hooks append; the daemon polls; resends of signals that carry an emitter turn and event are dropped; purge cuts | at-most-once delivery over a file, restarts, resends, writes of `state.json` that fail, a cut under appenders | no line has two effects, nor has a signal whose key was marked; no line is passed over in silence |
| Undo coordinator (`core/undo_coordinator.rs`, `cli/approvecmd.rs`, `cli/mcpcmd.rs`) | `undo-requests.jsonl`, `undo.lock`, the undo guard, the working tree | preview/reserve, request, claim, consume, execute, deny, expire, fail | several processes, TTLs that lapse while somebody works, crashes among writes, edits by third parties | grants never overlap, a token works once, the ledger never claims what did not happen |
| `undo --confirm` (`cli/readcmds.rs`) | undo guard | plan, guard, revert, undo turn | takes no lock; a write can fail with the file truncated, or be made and not verified | what it has read and then overwritten is recorded |
| Blob store, retention (`core/store.rs`, `core/retention.rs`) | content-addressed objects | put, get, plan_eviction, execute | eviction against live readers and writers | nothing live is evicted; a pass ends within the budget |
| Purge (`cli/purgecmd.rs`, `cli/loglock.rs`) | rewrites of log, inbox, ledger | by age, by path, orphans, prompts, duplicates, signals, memories | rewrite while others append | no append is lost; what the journal needs stays |
| Memory ledger (`core/memory.rs`, `cli/memorycmds.rs`, `cli/memlock.rs`) | append-only records, archive | remember, verify, forget, ingest; recall, hook, statistics | decisions made on a read that is stale when the append happens; a torn line | no record lost; a forgotten memory stays forgotten; answers say when they are cut short |
| Attestation (`core/attest/*`, `cli/attest/*`) | append-only events of claims and evidence, capture files, coverage map | capture, derive, replay, review, coverage, notes of the daemon | events out of order, evidence of a tree that has changed | a verdict is earned in the commit it names; a refuted claim stays refuted |
| Log queries (`core/view.rs`, `stats.rs`, `search.rs`, `annotate.rs`), MCP server (`cli/mcpcmd.rs`) | none; a cursor, a stamp of the configuration | resolve, page, diff, search, blame, statistics, status | the log is rewritten between two pages; merged, doubled and imported turns | no page lies about what it left out; blame and statistics list their exceptions |
| Bisect (`core/bisect.rs`) | none | search for the turn that broke a predicate | skipped turns, flaky predicates, gaps | the turn it names did it |
| Import (`cli/importcmd.rs`) | imported turns, `import-dedup` state in the log itself | Claude and Codex session files, dry run, re-run | sources of the content before an edit that contradict each other; kills; live sessions | nothing is invented or doubled; the dry run tells what the import does |
| Set-up, service (`cli/initcmd.rs`, `uninstallcmd.rs`, `service.rs`) | configuration files of two agents, store, service unit | init, init --codex, uninstall | user edits between two files, kills, re-runs | nothing of the user's is lost; a command did what it prints |
| Doctor, configuration, scrubbing, paths, output | | one-shot checks, parsing, formatting | little state | not modelled |

How they interact: hooks append lines to the inbox; the daemon polls it between the flush
of file events and the tick, feeds the engine, appends what the engine returns to the log,
mirrors the open turn in the journal, and ingests memory candidates found in the inbox.
Commands and MCP servers are other processes: they read the log and the objects, append
undo turns to the log under a lock, and coordinate undo through ledger, `undo.lock` and the
guard file, which the daemon reads to leave undone files out of its next turn. Purge and
eviction rewrite and remove what all of them read.

## 2. Modules

| Module | Models | State and actions against the code |
|---|---|---|
| `TurnEngine` | `core/engine.rs` | Pure operators, one per method; `Result` is what a method returns (engine, closed turns, whether an id was used). Windows are constants. |
| `EngineMachine` | any owner of the engine | One action per method, called in any order on a millisecond clock; keeps every returned turn and, as history, every observation. |
| `RecorderDaemon` | `cli/daemon.rs` `run` | `pc` walks one loop iteration; every file write is a step, so `Crash` falls between any two; a write of `state.json` may fail and the daemon goes on. Signals carry an emitter turn and event (Codex) or not (Claude Code). Uses `TurnEngine` unchanged. Files are variables; the rest dies in `Die`. |
| `SnapshotRecorder` | contents: debouncing, `Recorder::stage` and `resolve`, the journal's copy, the undo guard, `undo --confirm` | One loop iteration, shutdown, recovery and each step of undo (plan, guard, and for each file the read, the write and the verification) are actions; the world edits files and moves git refs at any time. Uses `TurnEngine` unchanged. |
| `UndoCoordinator` | `core/undo_coordinator.rs`, `approvecmd.rs`, execute arm of `mcpcmd.rs`, `undo` in `readcmds.rs` | Processes with a `pc`; ledger rows in a sequence; lock, guard, clock, editor, purge, kill. `Live` and `State` are the two folds the code uses to read the ledger. |
| `OneTimeGrants` | the promise of the coordinator | Abstract: issue, claim, spend, write, leave, lapse. No ledger, lock, clock or process. |
| `Storage` | `store.rs`, `retention.rs`, `purgecmd.rs`, `loglock.rs` | Log, journal and blobs beside a recorder, an eviction pass, one purge at a time, and undo, import, capture and pins as writers; each read and each write of a rewrite is a step. |
| `MemoryLedger` | `memory.rs`, `memorycmds.rs`, `memlock.rs`, purge of memories | A writer decides without the lock (`Intend`) and appends with it (`AppendLocked`); purge holds it throughout. |
| `Recall` (EXTENDS `MemoryLedger`) | recall, the prompt hook with its deadline, `memories --stats` and `--stale` | One verified pin set per step, so that files change during the walk. |
| `SignalInbox` (EXTENDS `Recall`) | the inbox, `state.json`, the daemon's tailer and gap scan, purge --signals-consumed | A line is a body and a newline and may be written in two halves. |
| `AttestLog`, `Attestation` | `core/attest/fold.rs`, `events.rs`; the commands of `cli/attest/*` and the daemon's notes | the fold as operators; commands as processes with a `pc`, an editor, commits, kills |
| `TurnLog`, `LogView`, `McpServer` | the tolerant loader and resolution of turns, merges and retractions; paging, diff and search; the MCP tools | clients that page while the log changes |
| `TranscriptImport`, `ImportedLog` | `importcmd.rs`; undo of imported turns, and all of the above composed | a session file grows line by line; a run reads, decides, appends |
| `Watcher`, `RecordedHistory`, `Blame`, `Statistics`, `Bisect` | the watcher, admission of directories and ignore rules of `daemon.rs`; what reaches the log of it; `annotate.rs`/`view.rs`, `stats.rs`, `bisect.rs` asked of it | each extends the one before; the queries are operators over the recorded history |
| `Setup` | `initcmd.rs`, `uninstallcmd.rs`, `service.rs` | one command at a time, one file per step, edits of the user and kills in between |
| `EngineProofs`, `DaemonProofs`, `SnapshotProofs`, `UndoProofs`, `StorageProofs`, `MemoryProofs`, `AttestProofs`, `SetupProofs` | | proofs, section 4 |
| `MC*` | | instances for TLC |

Operators marked `mutant` are plausible bugs next to the definition they would replace;
nothing uses them in a normal run. They show which change of the code each property would
notice.

### Abstractions

*Engine, daemon, undo.*
Contents are numbers of batches in the engine; `before`, `after` or `other`, relative to the
undone turn, in the coordinator. A file record keeps `before`, one status (captured, deleted,
skipped) and the skip reason. Ids (ULIDs) are numbers in order of reservation. A signal
with an emitter turn and an emitter event has a dedup key and a fingerprint, which are the identity
of its emission; any other has none, and nothing tells a resend of it from a new one. An emitter
resends its last keyed signal, and any unkeyed one after it. Offsets of `RecorderDaemon` count
lines; `SignalInbox` has bodies and newlines. A revert's refusals (symlink, escape, secret,
skipped, no snapshot) are one predicate, membership in `intact`, which `Purge` shrinks; drift is
real. `undo.lock` is an OS lock: blocking, released when the holder dies; acquiring it and the
first read under it are one step, because what they read is only written under it. Where a
failed append makes the code return with an error the process ends and leaves its files as
they are, which is `Crash`; where it only warns the alternative is in the action (`WarnOnly`).
In `SnapshotRecorder` a content is a number, new for each edit; a loop iteration is one step (its
crash points are in `RecorderDaemon`); an undo takes all revertible files of its turn (no
`--files`). `RecorderDaemon` has one path and one tool; `EngineMachine` several of both.

*Storage.* Hashing and compression are left out: a blob is its hash. A record names the blobs
it needs. The reports of what a purge would remove are left out.

*Memories and inbox.* The ledger is a set of records (their order is that of time stamps and
kinds, which is all the fold looks at); `CHOOSE` among records of one time and kind stands for
the content key. The clock never goes back. The pins of one memory are hashed in one step.
Origin and source turns are left out; memory stays enabled; `verify` is given the `--drop-pin`
it needs. One reader at a time; a page of recall has no cursor that a client could use; a query
selects any memories in any order (BM25). A kill of the hook between its print and its note,
`recall --for-hook` and the reasons of a retraction are left out. One hook at a time writes in
two halves; writes of `state.json` are atomic; starts and stops are in `RecorderDaemon`.
`gen` and `astray` are history: which inbox an offset was counted in, and what an offset of a
former inbox passed over.

*Attestation.* Causes of stale and invalid recipes, time stamps, history counters, the turn and
blob of an evidence, provenance, `report --range`, the parsing of cargo's output, its cache, the
filter of the undo guard and failures to parse the map are left out. A kill cuts an append between
two lines; one that cuts it within a line is left out: `append_attest_locked` does not look at the end of the
file, so that the next append would continue the torn line and both would be unreadable
(`cli/attest/lock.rs` 117-151). `MaxClaims` bounds ids.

*Queries and import.* The position of a record stands for its time. A content is a word per
line. A session file announces only its own new backups or re-announces its last name; an edit
and the line that tells of it are one step; the working directory is under the root; a path is
relative iff it is under it; snapshot lines carry no directory; a Codex patch has one change;
`replaceAll`, malformed lines, opaque counters, memory limits and IO failures are left out.
JSON-RPC framing, the order of `initialize` and refusals of malformed arguments are left out.
Statistics leave imported, git and undo turns out, as well as an `ended` that does not parse.

*Set-up.* One command at a time; the user edits between two files, not during a rewrite; a git
repository is present; whether the service is loaded, permissions, matchers and time-outs,
doctor's checks and dry runs are left out. The rewrite of `.gitignore` is one step; the code truncates the file first and keeps no backup
(`initcmd.rs:522`), so that a kill in between loses the user's lines, of which no property speaks.

## 3. Runs

Bounds are constants of the modules; each says what it bounds where it is declared. Most runs
explore a set of *instances* (`Bounds`): records that each allow some kinds of events and forbid
the others, so that every interaction the instance is about is explored to the end. Windows
are 1 to 3 units of time, so that every order of "just inside" and "just outside" occurs.

| Run | Properties | Why the bounds are enough |
|---|---|---|
| `engine_time` | `NothingLost`, `IdsUnique`, `FilesMatchObservations`, `NoFabricatedAttribution`, `GitNearTransition` | three batches make two fragments and an open turn; two tools, one start and two stops make own, foreign and missing brackets; one git transition; one path and one status, so that what the run leaves of `FilesMatchObservations` (several paths, states that change within a turn) is shown by the theorem `FilesMatch` only (all five are proved for any number of everything) |
| `engine_live` | `EventuallyReturned` | two paths and two outcomes; the clock runs past every window after the last activity |
| `daemon` | `LoggedOnce`, `JournaledSurvives`, `AppliedOnce`, `OrphansLogged` | six instances: signals and a candidate with changes and the tick; two exits, which let a crash hit the recovery from a crash; lines read again because the offset could not be written; three lines of keyed signals over a kill with a mark that fails, and of keyed and unkeyed ones between each other, each of them sent again; one git transition sets a turn aside and a kill falls anywhere. One failed write (`faults`) is enough: it leaves the state one step behind what was done |
| `snapshots` | `BeforeIsLastSeen`, `LogExplainsDisk`, `OverwrittenIsRecorded` | two files, so that a burst and an undo can be partial; two edits and the writes of an undo reach a second batch of a turn, the ceiling of a burst, and a change between plan, read, write and verification; any three of a git transition, a signal, an unreadable file, two undos and an exit; with `QUIET_MS` at 0 a burst closes as a bare turn, which can be undone and folded afterwards |
| `snapshots_baseline` | `BeforeIsPreTurn` (violated) | below |
| `undo` | `WritesUncontested`, `ExecutedIsRecorded`, `KeepsPromise` (refinement of `OneTimeGrants`) | agents in auto mode beside `undo --confirm` on one file, and both modes with a human over overlapping selections of two files; a clock past the TTL, one kill, edit, purge or failed write (all three are proved for any number) |
| `storage` | `LogAppendsSurvive`, `JournalRecoverable`, `BudgetEnforced`, `EvictionSparesLive` | each purge against a recorder that is killed and restarts, each rewrite against the appenders and against a recorder that is killed in an append and restarts, a pass against undo, import and capture (all four are proved for any number) |
| `memory` | `NoRecordLost`, `ForgetWins`, `RecallHonest`, `NothingSkipped`, `RememberedOnce` | ten instances: commands against purge, recalls and hooks while pins change, a torn ledger, drifts, the inbox against its purge with kills of both, candidates on their way |
| `import` | `NeverFabricated`, `ImportedOnce`, `DryRunAgrees`, `AnswersHonest` | backups, commits, two copies of one session with a kill, Codex, undo of imported turns; logs with two, three or four records of one id that are rewritten between pages of one or two entries, so that a cursor loses its row and slides to a later one of its id |
| `attest` | `NotesKept`, `VerdictEarned`, `IndexCurrent`, `RefutedForever` | two processes, two edits, a kill; renames and moves between two targets; a claim refuted and then captured, derived, covered and verified again |
| `setup` | `TheirsKept`, `AsReported`, `NoSecondSource` | two commands, two edits of the user, a kill; four commands over store, archives and unit |
| `history` | `ChangesStaged`, `BlameHonest`, `BisectHonest`, `StatsHonest` | a directory that comes and goes with its rules, on both platforms; rules that contradict each other; two lines of one file over three or four turns, with a gap, an eviction, a secret or a big content; a second file, so that probes copy one that no later turn touches and that is edited before or during the search |

`CHECK_DEADLOCK FALSE` in every run: with the bounds used up the modelled system stops.

`JournaledSurvives` holds where no git transition *and* memory candidate fall into one
iteration; with both it fails (below: `engine.rs:234`). The symmetry of `memory` is sound because
no instance has two verifies: no two records of a chain are of the same time and kind, and the
fold chooses nothing that the symmetry could change. The windows of `snapshots` are not in the
proportion of the code (1.5 s, 10 s, 3 s, 30 s); `snapshots_baseline` keeps their order.

### Fairness

* Engine: weak fairness of the clock and of `tick`. The daemon's loop wakes at least every
  `POLL` (250 ms) and every iteration ends in a tick. No fairness of signals or file events.
* Daemon: weak fairness of `Daemon`, the next step of the process, start included: its thread
  keeps running while alive and the service manager restarts it (`cli/service.rs`, KeepAlive).
  Crashes and stops are bounded by `exits` and not fair.
* Every other run checks safety only. That `undo.lock` is released whatever happens was
  checked once with weak fairness per process; the run is too slow to keep.

### Where the code and what is said of it differ

Kept as a run:

| Run | Says | What TLC shows |
|---|---|---|
| `snapshots_baseline` | `README.md:153`, `IMPLEMENTATION.md:121`: a turn records its files with "their before/after snapshots", with the right `op` | undo's writes are dropped from the burst, so the next turn's `before` is the content that was undone (and `op` is `modify` for a file that undo had deleted) |

Met on the way and reproduced with TLC, not kept as runs. *Signals*: a signal without an emitter turn or event, as those of every Claude Code hook, is
applied again as often as it is sent again (`daemon.rs` 425-437, 2055-2096), and so is a keyed one whose
mark could not be written, or whose resend comes after a later keyed signal, as one key is
remembered. *Recording*: the journal sync before a
memory candidate overwrites the mirror of a turn that a git transition set aside, and a kill
before the tick loses it (`engine.rs:234`, "this can't be forgotten"), which is why
`JournaledStays` keeps the two apart; a kill in an iteration that appends more than 50 records
after that of the journaled turn makes the next daemon log it again (`daemon.rs` ~2797, "always
near the tail"; with a window of 1 or 2 and three signals TLC finds it), which is why
`OneRecordPerTurn` bounds a poll; a turn that folds an older
fragment takes the content git wrote in between as its `after`, and undo then overwrites git's
change without asking (`MCSnapshotsGit.cfg`; `PROTOCOL.md:146`, "catches everything"); a second
start, or a stop of another tool, closes a bracket at the time of the signal and not "at the
last observed mutation inside it" (`PROTOCOL.md:65`); of two folded fragments the state of the
oldest is kept (`engine.rs:519`, `PROTOCOL.md:100`); a bare turn closed in the millisecond in which a
bracket starts is folded into it (`engine.rs:503`); undo's writes become a bare turn when churn on
another file delays the flush beyond the 3 s that the guard lingers (`readcmds.rs:816`) or the
daemon is stopped meanwhile (`IMPLEMENTATION.md:153`); a file that undo restored and somebody then
deletes leaves no record when the recorder had dropped it from `known` (`daemon.rs:1416`); a stop
that folds a bare turn which undo has reverted in between logs its files again, after the undo
turn, with the content that was undone (`engine.rs` `fold_recent_bares`, `daemon.rs` `resolve`), so
that the last record no longer tells what the disk holds (`opaque` lists these files); a path
skipped first and captured later in one turn keeps its skip reason (`record.rs:162`); a kill
between the offset write of the gap scan and the start epoch loses the count of dropped signals
(D51, `IMPLEMENTATION.md:66`).
*Watching*: a directory that is renamed away gives one event and the deletion of its files is
never recorded (`IMPLEMENTATION.md` D4 and its acceptance line 121); a `.gitignore` that arrives
without an event of its own does not make the rules stale (`daemon.rs` ~252); rules of a directory
that was moved away stay; a file written after the admission walk and before the watch is
armed is lost.
*Undo*: a write that fails has truncated the file first, and no entry tells what it held
(`undo_coordinator.rs:1788`; the bytes are among the objects, unnamed); a write that cannot be verified stays, unrecorded
(`undo_coordinator.rs` 1789-1796, `readcmds.rs` 562-585); a content that comes between the read of the
file (`undo_coordinator.rs:1683`) and its write is lost; killed among its writes, an approval leaves the request pending with files reverted
(`undo_coordinator.rs:25`); two `undo --confirm` pass the guard check together (`readcmds.rs:552`);
every later approve or deny of a lapsed request appends another expire row
(`undo_coordinator.rs:1363`).
*Storage*: a torn tail glues the next record to itself, and both are unreadable
(`record.rs:400`, `:442`, `:555`; `VERIFY-LEDGER.md:702`); `purge --snapshots-before` and the purge of
prompts ignore the journal, memories and attest references (`daemon.rs` ~2683); a pass takes its
start time after it has read the log (`retention.rs:66`); eviction can remove the baseline of a file
nobody touched since; undo or import racing a pass may name an evicted blob; a daemon started
during `--log-duplicates` may lose an append.
*Memories, inbox*: a verify that was under way while its memory was forgotten makes it live
again; a clock that steps back makes a forget without effect; a purge between the load and the
append of a verify leaves a chain of one reverify; a fact wider than the hook's block
(800 characters) is not printed and leaves no line; the exact-hash strategy of find_drift_turn can
name a turn that ended before the memory was pinned (`memorycmds.rs` ~1000); a store of
unreadable lines answers "no memories yet" (`memorycmds.rs` ~635); a purge killed between rename
and rebase skips unconsumed signals in silence (`purgecmd.rs:1008`), as does its write of
`state.json` beside a daemon that starts.
*Attestation*: a verdict for an older commit clears the note of a newer write
(`replaycmd.rs:107`, `attest-design.md:96`); `attest coverage <id>` and `--crate` write the whole map
with the wanted claims only (`coveragecmd.rs:206`); two concurrent `derive` mint two claims for one
test; two concurrent reviews can overwrite a `no` by a stale `yes`; nothing is noted while the
daemon is down; verify reads HEAD before it has its lock.
*Queries*: `agentrec_log` is oldest-first (`mcpcmd.rs` ~116 says newest first); a search cursor
shifts when a prompt is purged between pages (`search.rs:15`); a configuration edited between load
and stamp is never reported; the diff tool reads the ledger twice; paging can pass over a record
when purge removes the middle one of three with one id, or one of two that a search hits several
times (`view.rs:1110`), which `AnswersHonest` excepts (`Slides`); after a restart, blame
credits every line of a file to the first turn on it (`view.rs` ~1690), and a daemon that died
and was not restarted leaves no gap; bisect can name a turn that only follows an excluded bare
turn, and, as a probe leaves the files that no later turn touches as they are on the disk, a turn
that brought nothing when an edit of such a file is not recorded yet or comes during the search
(`bisectcmd.rs:335`; `BisectHonest` excepts both, `Drifts`); a merged bare turn still counts as rework and its churn twice (`stats.rs`; `MCHistoryStats.cfg`,
`phase-3-design.md` 3.0.1), an entry of unknown baseline counts the whole file though "churn here is
a lower bound" (`stats.rs` ~106), and gap overlaps look only at `since` (`stats.rs:272`).
*Import* (`MCImportClaims.cfg`, `MCImportUndo.cfg`): an imported live session is frozen at its last
turn, later edits are skipped on a re-run and not counted (`importcmd.rs:5`, `~1663`;
`IMPLEMENTATION.md:232`); undo of an imported turn need not restore the content before it
(`importcmd.rs` ~1990, `view.rs:229`, `README.md:230`); a commit in the second of an edit, keys that were
relative before a directory was known, and a path spelled in another way escape the search
for later edits (`importcmd.rs` ~690, ~1850), so that a `before` is wrong (`VERIFY-LEDGER.md:147`); two
concurrent imports may append one id twice.
*Set-up* (`MCSetupToml.cfg`): a kill during the rewrite of `config.toml` leaves it empty, yet it
parses, and a re-run overwrites the backup; `init --codex` rewrites it twice, so that the backup is
not the original; a `.gitignore` that is not UTF-8 is overwritten (`initcmd.rs:489`); uninstall leaves
the line in `.gitignore` and an empty `hooks.json`, which later makes init refuse inline hooks,
drops empty groups of the user's, reports an unreadable file as "no entries found", prints
`unloaded service` when that failed, stops midway at a malformed file, and fails on a second
archive in one second after hooks and service are gone.

## 4. Proofs

TLC checks an instance; the theorems below hold for every value of the constants that meets the
named assumptions of the modules. Each safety theorem follows from an inductive invariant that
TLC checked first on the instances of its run. A proof of a step has one case per action; a
lemma says once what a kind of step (an append, a move of an offset, the end of a turn) does
to the invariant, and the actions cite it.

| Theorem | Establishes | The invariant and why it is needed |
|---|---|---|
| `EngineProofs!TypeCorrect` | types of `EngineMachine` | one lemma per operator of `TurnEngine`: what it returns for an engine of the right type |
| `EngineProofs!UniqueIds` | `IdsUnique` | nothing keeps a returned id from being held by the open turn too; `IdsInv` adds that the engine holds each id once, apart from what it returned. `HandsOver` is the contract of a method: it returns and keeps what it held, plus at most the new id |
| `EngineProofs!GitAttribution` | `GitNearTransition` | `GitInv`: the git window was set by a recorded transition; the open turn, those set aside and those returned open near one |
| `EngineProofs!NothingIsLost`, `FilesMatch`, `NothingFabricated` | `NothingLost`, `FilesMatchObservations`, `NoFabricatedAttribution` | `AccountInv` relates the open turn, the fold candidates and the closed turns to what was observed: each observation is under one of them, ids, opening times and stamps are ordered alike (so that the oldest fragment has the first content), and what a turn is attributed to was there when it opened. A method is a few moves -- a turn opens, is observed under, becomes a git turn, closes alone or on a stop -- with one lemma each |
| `DaemonProofs!AppliedAtMostOnce` | `AppliedOnce` | the daemon remembers one key only. `KeyInv`: keyed emissions are in order in the inbox (`InboxInv`), the batch is the lines read and not handled (`BatchInv`), a keyed line that is not passed is of the marked emission or of a later one (`MarkInv`), and what was applied is among the passed lines, each once, and not later than the mark if its mark was written (`AppliedInv`). Of signals without a key, and of those whose mark failed, it says only that no line is applied twice |
| `DaemonProofs!OneRecordPerTurn` | `LoggedOnce`, if no poll reads more lines than fit: `[]FewLines`, with the 50 of `already_logged` at most 24 | `TurnsInv`: the ids in the log, in the queue and in the engine are apart, and only `recover_orphan` could write one again. `WindowInv` counts what may still be appended before the journal is written anew (two records a line, one for the tick, one for a turn set aside), so that a journaled turn that is in the log is found among the last records |
| `DaemonProofs!JournaledStays` | `JournaledSurvives`, if no candidate is handled while a turn that a git transition closed waits: `[]CandidatesApart` | `MirrorInv`: the journal's turn is in the log, in the queue or in the engine, and when the journal is written anew only the open turn is not in the log |
| `SnapshotProofs!BeforesAreLastSeen` | `BeforeIsLastSeen` | `SnapshotInv`: the trails of a path are in the order of the turns' ids; each turn that the engine holds, the log or the journal has is `Told` by them (its files are those sighted under its ids, each `before` what was seen before the first of these); what `baseline` and `known` say of a file is what was last seen of it. Fold candidates are ordered alike by id and by opening time, so that the oldest fragment has the first sighting; a bare turn opens strictly before it is set aside, which is why the next one cannot open with it |
| `SnapshotProofs!OverwritesAreRecorded` | `OverwrittenIsRecorded` | `UndoInv`: what was read and overwritten is in an undo turn or among what the undo has done so far, a file that is done is not among those to do, and the file under way is either still to do or done with the content that was read as its `before`, so that a failed verification takes back exactly what was written for it. What a torn or unverified write, or a kill, leaves unrecorded is excepted by the property, as the code records nothing of it |
| `SnapshotProofs!LogTellsDisk` | `LogExplainsDisk` | `LogInv` follows each file that is not `opaque` from the disk to the log (`ToldAt`): of a file of a turn that may still be written, what would be written is what was last seen of it (`HeldAt`); that is what the file holds unless an event waits (`ShownAt`); the journal or else the last record tells it, unless an event waits or an undo has not recorded its revert (`TaleAt`, `DoneAt`). `PassesOn` is the contract of a method of the engine: it keeps or hands over the files that no record of their turn tells of yet. Needs `SnapshotInv` |
| `UndoProofs!PromiseKept` | `KeepsPromise`: `UndoCoordinator` implements `OneTimeGrants` | rows of one id agree on paths, ids are unique, a process past its claim holds the lock, its grant has a reserving row, and past `consume` a consume row; each step maps to a step of the grants or to a stutter |
| `UndoProofs!HoldersApart`, `TokensAreOneUse` | the promises of `OneTimeGrants`, of the coordinator: holders share no file, only granted files are written, a consumed token is never used again | inductive over the grants as they stand (`Exclusion`, `GrantedWrites`, `OneUse`), and inherited through the refinement |
| `UndoProofs!Uncontested`, `ExecutionsHaveEvidence` | `WritesUncontested`, `ExecutedIsRecorded` | the same invariant; an executed row is only appended after the undo turn |
| `StorageProofs!AppendsSurvive`, `JournalReadable`, `PassesSpareLive` | `LogAppendsSurvive`, `JournalRecoverable`, `EvictionSparesLive` | what a rewrite has read is a prefix of the log, what it will write keeps what is not its to drop; a pass only has victims that were not live when it read, and what becomes live later is newer than its start |
| `StorageProofs!PassesEndWithinBudget` | `BudgetEnforced` | `PassShrinks`: what the log of the pass names, its victims and what it has to spare left out, is within the budget from the plan on (`PlanFits`), and a step of another process only adds what counts as put since. `Bytes` is a fold of the library; `FoldIsWeight` shows by a least counterexample that it is the number of elements and of big elements, which lets sums be compared (`WeightLess`). The attempt corrected the property: it used to excuse what an unreadable line or a memory protects when the pass ends, and not what they protected when it was planned, but a rewrite of the log drops the unreadable line in between. TLC agrees on `RewritesBesideRecorder`, which the run now has |
| `MemoryProofs!RecordsSurvive`, `ForgottenStays` | `NoRecordLost`, `ForgetWins` | `LedgerInv`: what purge is about to keep and take is the whole ledger; an id is asserted once and before anything else is said of it; outside of races, no verify is under way once a memory is forgotten and what a forget has read is older than it |
| `MemoryProofs!LinesHeard` | `NothingSkipped` | `InboxInv`: below an offset of this inbox every body was told to the daemon or cannot be read, now or later; what purge has archived is what it cuts off, and what ended after its second look is known to be unheard |
| `MemoryProofs!CandidatesOnce` | `RememberedOnce` | `OnceInv`: an unverified memory of a candidate, as long as it lives, is the only record of its chain, and what the daemon is about to assert is like none of them; only the daemon mints, and an id is asserted once and before whoever retracts it has read it |
| `MemoryProofs!RecallsAreHonest` | `RecallHonest` | `RecallInv`: the walk has taken every steady memory that it has passed, what is steady is fresh, what was read is in the ledger or in the archive (`RecordsSurvive` is why it cannot vanish), each line of the statistics goes into one count, the turns are in the order in which they ended |
| `SetupProofs!NothingLost` | `TheirsKept` | `KeptInv`: the backup is opened for writing only while the file itself is whole, so that a torn file has a whole backup beside it |
| `SetupProofs!ReportsHold` | `AsReported` | `StepsInv`: what the steps that are over have done holds of the files as they will be once the write under way is through, and no later step of the command undoes it; files the user has edited are excepted. `PlaceInv` accounts for each store, in its place or in an archive of its own |
| `SetupProofs!NoneBeside` | `NoSecondSource` | the Codex hooks are nearly the last thing init does: after it has looked for a second representation only the registration of the hooks and the service remain, which is why a refused init touches neither |
| `AttestProofs!NotesAreKept`, `VerdictsAreEarned`, `IndexIsCurrent`, `RefutedStays` | `NotesKept`, `VerdictEarned`, `IndexCurrent`, `RefutedForever` | what a process carries from its read to its append is still true of the events it was read from, which only grow under the lock |

Assumptions used: windows and bounds are naturals; the model values that stand for absence
(`None`) are not members of what they stand beside (no open turn, no number, no tool); the name of
git is not a tool's; the hashes of contents are finitely many (they have a width). They are named where the constants are declared and TLC evaluates them in
every run.

Model-checked only, and why:

* Liveness (`EventuallyReturned`, `OrphansLogged`): fairness and ENABLED are beyond the provers.
* `BlameHonest`, `BisectHonest`, `StatsHonest`: the folds and paths of `TurnLog`, `Blame`,
  `Bisect` and `Statistics`. Their correctness is what they compute, which takes an induction over
  the log. The induction theorems of the library cannot be used, as they take an operator; each
  fold needs an argument of its own, as `FoldIsWeight` is for `Bytes`, and none is written for these.
* `NeverFabricated`, `ImportedOnce`, `DryRunAgrees` (`TranscriptImport`), `AnswersHonest`
  (`McpServer`), `ChangesStaged` (`Watcher`): what an import, an answer or a walk comes to is computed
  by folds and closures over the events, the records or the tree, of which the same is true.

## 5. Not modelled, and what is left

Not modelled: scrubbing patterns, path encodings, permissions, file-type checks (no state of
their own); doctor, argument parsing and output; `Clock` of `daemon.rs:654` (re-anchoring of the
monotonic clock is arithmetic on two clocks; times in the models do not go back).

Left to prove: of the runs' safety properties only those that the end of §4 names as model-checked,
of which `ImportedOnce` and `ChangesStaged` would come first: they need the least of what the folds
compute.
