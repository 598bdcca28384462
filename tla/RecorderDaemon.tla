--------------------------- MODULE RecorderDaemon ---------------------------
(***************************************************************************)
(* The recorder daemon (cli/src/daemon.rs, `run`): a single-threaded loop  *)
(* around the turn engine that survives kill -9 at any point.  Every write *)
(* to a file is a step of its own, so that a crash can fall between any    *)
(* two of them.                                                            *)
(*                                                                         *)
(* Files: log.jsonl (append-only turn and epoch records), open.json (the   *)
(* crash journal: a mirror of the open turn), signal.jsonl (the inbox that *)
(* hooks append to), state.json (the consumed offset of the inbox and the  *)
(* key of the last signal that carried an emitter turn) and memory.jsonl.  *)
(* Everything else dies with the process.                                  *)
(*                                                                         *)
(* The offset counts lines, not bytes: only whole lines are ever consumed. *)
(* A failed append (`?` on append_log) ends the daemon without a clean     *)
(* shutdown, so Crash stands for it too.  A failed write of state.json     *)
(* leaves the old file (it is written beside and renamed), and the daemon  *)
(* goes on with a warning.                                                 *)
(***************************************************************************)
EXTENDS TurnEngine, FiniteSets, Functions

CONSTANTS
  Tool,        \* the one tool that emits signals
  Path,        \* the one file of the root
  TailWindow,  \* how many log records already_logged looks at
  Bounds       \* one record per exploration: the clock of a daemon run (time),
               \* turn ids (ids), flushed bursts (changes), git transitions
               \* (gits), lines of the inbox (signals), candidates among them
               \* (cands), crashes and stops (exits), writes of state.json
               \* that fail (faults), and what boundary signals carry of
               \* their emitter, an emitter turn and an event (stamps)

ASSUME BoundsAssumption ==
  Bounds \subseteq [ time : Nat, ids : Nat, changes : Nat, gits : Nat,
                     signals : Nat, cands : Nat, exits : Nat, faults : Nat,
              stamps : SUBSET ((Nat \cup {None}) \X BOOLEAN) ]

ASSUME NoKeyAssumption == None \notin Nat

ASSUME TailWindowAssumption == TailWindow \in Nat \ {0}

VARIABLES
  logf,    \* log.jsonl
  journal, \* open.json, or None
  inbox,   \* signal.jsonl
  offset,  \* state.json: signal_offset
  lastKey, \* state.json: last_emitter_turn_key and its fingerprint, or None
  memory,  \* memory.jsonl
  pc,      \* where the daemon is; "down" when no daemon runs
  after,   \* where it goes on after persisting `queue`
  eng,     \* the engine
  now,     \* the time of this iteration
  batch,   \* the signals of this iteration not yet handled
  queue,   \* the closed turns still to append
  upto,    \* the line the gap scan and the tailer have read up to
  dropped, \* boundary signals the gap scan has dropped in this boot
  nextId,  \* turn ids are unique across runs (ULIDs)
  max,     \* the bounds of this exploration
  changes, gits, exits, faults, \* what the environment has done, against them
  applied, \* history: the lines of the inbox that reached the engine, in order
  unmarked, \* history: the emissions whose mark could not be written
  durable  \* history: ids of the turns that were ever journaled

disk == <<logf, journal, inbox, offset, lastKey, memory>>
mem == <<pc, after, eng, now, batch, queue, upto, dropped>>
env == <<max, changes, gits, exits, faults, nextId>>
hist == <<applied, unmarked, durable>>
vars == <<disk, mem, env, hist>>


-----------------------------------------------------------------------------
(* Signals.  `em` identifies one emission: a resend repeats it.  `turn` is *)
(* the emitter_turn it speaks of, and `event` says that it carries an      *)
(* emitter_event: the Codex hook gives both to each signal, those of       *)
(* Claude Code have neither.                                               *)
Signal(kind, em, turn, event) ==
  [kind |-> kind, em |-> em, turn |-> turn, event |-> event]
IsBoundary(s) == s.kind \in {"start", "stop"}

(* emitter_turn_dedup_key and emitter_turn_content_fingerprint are both    *)
(* there, and are then a function of the emission.                         *)
Keyed(s) == IsBoundary(s) /\ s.turn # None /\ s.event

TurnRecord(t) ==
  [ kind |-> "turn", id |-> t.id, grade |-> t.grade, merges |-> t.merges,
    dropped |-> 0 ]
EpochRecord(event, n) ==
  [ kind |-> event, id |-> 0, grade |-> "epoch", merges |-> {}, dropped |-> n ]

LoggedIds == {r.id : r \in {x \in Range(logf) : x.kind = "turn"}}

(* snapshot_open: what sync_journal writes of the open turn. *)
Snapshot(e) ==
  IF e.open = None THEN None
  ELSE [id |-> e.open.id, source |-> e.open.source]

(* sync_journal: mirror the open turn, or remove the journal when idle.    *)
SyncJournal(e) ==
  /\ journal' = Snapshot(e)
  /\ durable' = durable \cup (IF journal' = None THEN {} ELSE {journal'.id})

-----------------------------------------------------------------------------
(* The environment: hooks append to the inbox, whether a daemon runs or    *)
(* not; the process dies; time passes between iterations.                  *)

Emissions == {s.em : s \in Range(inbox)}

Emit ==
  /\ Len(inbox) < max.signals
  /\ \/ \E kind \in {"start", "stop"}, stamp \in max.stamps :
          inbox' = Append(inbox, Signal(kind, Cardinality(Emissions) + 1, stamp[1], stamp[2]))
     \/ /\ Cardinality({i \in DOMAIN inbox : ~IsBoundary(inbox[i])}) < max.cands
        /\ inbox' = Append(inbox, Signal("candidate", Cardinality(Emissions) + 1, None, FALSE))
  /\ UNCHANGED <<logf, journal, offset, lastKey, memory, mem, env, hist>>

(* An emitter that is not sure of its last signal sends it again; signals  *)
(* of emitters without keys may have come between.                         *)
Resend ==
  /\ Len(inbox) < max.signals
  /\ \E i \in DOMAIN inbox :
       /\ \A j \in DOMAIN inbox : j > i => ~Keyed(inbox[j])
       /\ inbox' = Append(inbox, inbox[i])
  /\ UNCHANGED <<logf, journal, offset, lastKey, memory, mem, env, hist>>

(* What a process that ends takes with it. *)
Die ==
  /\ pc' = "down" /\ after' = "down" /\ eng' = NewEngine /\ now' = 0
  /\ batch' = << >> /\ queue' = << >> /\ upto' = 0 /\ dropped' = 0

Crash ==
  /\ pc # "down" /\ exits < max.exits
  /\ exits' = exits + 1
  /\ Die
  /\ UNCHANGED <<disk, max, changes, gits, faults, nextId, hist>>

-----------------------------------------------------------------------------
(* Start-up.                                                               *)

Goto(label) == pc' = label

Boot ==
  /\ pc = "down"
  /\ Goto("recover")
  /\ UNCHANGED <<disk, after, eng, now, batch, queue, upto, dropped, env, hist>>

Tail50(s) == {s[i] : i \in {k \in DOMAIN s : k > Len(s) - TailWindow}}

NeverLogged(j) == FALSE  \* mutant: every journal is recovered

AnythingLogged(j) == logf # << >>  \* mutant: does not compare the ids

AlreadyLogged(j) == \E r \in Tail50(logf) : r.kind = "turn" /\ r.id = j.id

(* recover_orphan, its append: the turn a dead daemon left in the journal. *)
RecoverAppend ==
  /\ pc = "recover" /\ journal # None /\ ~AlreadyLogged(journal)
  /\ logf' = Append(logf, TurnRecord(
       [ id |-> journal.id, merges |-> {},
         grade |-> IF journal.source = "quiet" THEN "bare" ELSE "rich" ]))
  /\ Goto("unjournal")
  /\ UNCHANGED <<journal, inbox, offset, lastKey, memory,
                 after, eng, now, batch, queue, upto, dropped, env, hist>>

RecoverSkip ==
  /\ pc = "recover" /\ (journal # None => AlreadyLogged(journal))
  /\ Goto("unjournal")
  /\ UNCHANGED <<disk, after, eng, now, batch, queue, upto, dropped, env, hist>>

RecoverRemove ==
  /\ pc = "unjournal"
  /\ journal' = None
  /\ Goto("scan")
  /\ UNCHANGED <<logf, inbox, offset, lastKey, memory,
                 after, eng, now, batch, queue, upto, dropped, env, hist>>

(* The offset is written, or that fails and the daemon goes on from `upto`. *)
WriteOffset(n) ==
  \/ offset' = n /\ UNCHANGED faults
  \/ faults < max.faults /\ faults' = faults + 1 /\ UNCHANGED offset

(* replay_pending_candidates reads the lines that came while no daemon ran *)
Scan ==
  /\ pc = "scan"
  /\ batch' = SubSeq(inbox, offset + 1, Len(inbox))
  /\ upto' = Len(inbox)
  /\ Goto("replay")
  /\ UNCHANGED <<disk, after, eng, now, queue, dropped, env, hist>>

(* ingest_candidate: an exact duplicate of a live memory is dropped. *)
Ingest(s, turn) ==
  memory' = IF \E m \in Range(memory) : m.em = s.em THEN memory
            ELSE Append(memory, [em |-> s.em, turn |-> turn])

(* ... and acts on the candidates only; start and stop lines are counted. *)
ReplayLine ==
  /\ pc = "replay" /\ batch # << >>
  /\ batch' = Tail(batch)
  /\ IF IsBoundary(Head(batch))
     THEN dropped' = dropped + 1 /\ UNCHANGED memory
     ELSE Ingest(Head(batch), None) /\ UNCHANGED dropped
  /\ UNCHANGED <<logf, journal, inbox, offset, lastKey,
                 pc, after, eng, now, queue, upto, env, hist>>

ReplayDone ==
  /\ pc = "replay" /\ batch = << >>
  /\ WriteOffset(upto)
  /\ Goto("epoch")
  /\ UNCHANGED <<logf, journal, inbox, lastKey, memory, after, eng, now, batch,
                 queue, upto, dropped, max, changes, gits, exits, nextId, hist>>

StartEpoch ==
  /\ pc = "epoch"
  /\ logf' = Append(logf, EpochRecord("start", dropped))
  /\ Goto("flush")
  /\ UNCHANGED <<journal, inbox, offset, lastKey, memory,
                 after, eng, now, batch, queue, upto, dropped, env, hist>>

-----------------------------------------------------------------------------
(* The loop.                                                               *)

OneFile == [p \in {Path} |-> [before |-> 0, status |-> "captured", reason |-> None]]

(* The watch events of this iteration: the git transition first, then the  *)
(* settled burst, both at the time read once per iteration.                *)
Flush ==
  /\ pc = "flush"
  /\ \E t \in now .. now + 1, git \in BOOLEAN, burst \in BOOLEAN :
       LET g == IF git THEN ObserveGitChange(eng, t) ELSE eng
           r == ObserveChanges(g, t, IF burst THEN OneFile ELSE << >>, nextId)
       IN /\ t <= max.time
          /\ git => gits < max.gits
          /\ burst => changes < max.changes /\ nextId <= max.ids
          /\ now' = t
          /\ eng' = r.eng
          /\ nextId' = IF r.reserved THEN nextId + 1 ELSE nextId
          /\ gits' = IF git THEN gits + 1 ELSE gits
          /\ changes' = IF burst THEN changes + 1 ELSE changes
  /\ Goto("poll")
  /\ UNCHANGED <<disk, after, batch, queue, upto, dropped, max, exits, faults, hist>>

(* SignalTailer::poll: the offset is persisted before any line is acted on *)
Poll ==
  /\ pc = "poll"
  /\ batch' = SubSeq(inbox, upto + 1, Len(inbox))
  /\ upto' = Len(inbox)
  /\ WriteOffset(Len(inbox))
  /\ Goto("signals")
  /\ UNCHANGED <<logf, journal, inbox, lastKey, memory, after, eng, now,
                 queue, dropped, max, changes, gits, exits, nextId, hist>>

(* A candidate: the journal is written before the memory that names the    *)
(* open turn.                                                              *)
CandidateNoSync ==  \* mutant: the journal waits for the end of the iteration
  /\ pc = "signals" /\ batch # << >> /\ ~IsBoundary(Head(batch))
  /\ Goto("ingest")
  /\ UNCHANGED <<disk, after, eng, now, batch, queue, upto, dropped, env, hist>>

Candidate ==
  /\ pc = "signals" /\ batch # << >> /\ ~IsBoundary(Head(batch))
  /\ IF eng.open # None THEN SyncJournal(eng) ELSE UNCHANGED <<journal, durable>>
  /\ Goto("ingest")
  /\ UNCHANGED <<logf, inbox, offset, lastKey, memory,
                 after, eng, now, batch, queue, upto, dropped, env, applied, unmarked>>

IngestLine ==
  /\ pc = "ingest"
  /\ Ingest(Head(batch), IF eng.open = None THEN None ELSE eng.open.id)
  /\ batch' = Tail(batch)
  /\ Goto("signals")
  /\ UNCHANGED <<logf, journal, inbox, offset, lastKey,
                 after, eng, now, queue, upto, dropped, env, hist>>

(* handle_emitter_turn_signal: a resend of the last marked signal is       *)
(* dropped; any other that has a key is marked before it is applied, and   *)
(* applied all the same when the mark cannot be written.                   *)
DropResend ==
  /\ pc = "signals" /\ batch # << >> /\ Keyed(Head(batch))
  /\ lastKey = Head(batch).em
  /\ batch' = Tail(batch)
  /\ UNCHANGED <<disk, pc, after, eng, now, queue, upto, dropped, env, hist>>

MarkNothing ==  \* mutant: the key is not written
  /\ pc = "signals" /\ batch # << >> /\ Keyed(Head(batch))
  /\ lastKey # Head(batch).em
  /\ Goto("apply")
  /\ UNCHANGED <<disk, after, eng, now, batch, queue, upto, dropped, env, hist>>

Mark ==
  /\ pc = "signals" /\ batch # << >> /\ Keyed(Head(batch))
  /\ lastKey # Head(batch).em
  /\ lastKey' = Head(batch).em
  /\ Goto("apply")
  /\ UNCHANGED <<logf, journal, inbox, offset, memory,
                 after, eng, now, batch, queue, upto, dropped, env, hist>>

MarkFails ==
  /\ pc = "signals" /\ batch # << >> /\ Keyed(Head(batch))
  /\ lastKey # Head(batch).em
  /\ faults < max.faults /\ faults' = faults + 1
  /\ unmarked' = unmarked \cup {Head(batch).em}
  /\ Goto("apply")
  /\ UNCHANGED <<disk, after, eng, now, batch, queue, upto, dropped,
                 max, changes, gits, exits, nextId, applied, durable>>

(* A signal without a key goes on: the daemon cannot tell a resend of it.  *)
Unkeyed ==
  /\ pc = "signals" /\ batch # << >> /\ IsBoundary(Head(batch)) /\ ~Keyed(Head(batch))
  /\ Goto("apply")
  /\ UNCHANGED <<disk, after, eng, now, batch, queue, upto, dropped, env, hist>>

(* A stop of another emitter turn leaves the open bracket alone. *)
DropMismatched ==
  /\ pc = "apply" /\ Head(batch).kind = "stop"
  /\ StopMismatchesOpenBracket(eng, Tool, Head(batch).turn)
  /\ batch' = Tail(batch)
  /\ Goto("signals")
  /\ UNCHANGED <<disk, after, eng, now, queue, upto, dropped, env, hist>>

(* apply_signal: what the engine closes is persisted at once. *)
ApplySignal ==
  /\ pc = "apply" /\ nextId <= max.ids
  /\ LET s == Head(batch)
         r == IF s.kind = "start"
              THEN ObserveStart(eng, now, Tool, s.turn, nextId)
              ELSE ObserveStop(eng, now, Tool, nextId)
     IN /\ s.kind = "stop" => ~StopMismatchesOpenBracket(eng, Tool, s.turn)
        /\ eng' = r.eng
        /\ queue' = r.closed
        /\ nextId' = IF r.reserved THEN nextId + 1 ELSE nextId
  /\ applied' = Append(applied, upto - Len(batch) + 1)
  /\ batch' = Tail(batch)
  /\ after' = "signals"
  /\ Goto("persist")
  /\ UNCHANGED <<disk, max, now, upto, dropped, changes, gits, exits, faults,
                 unmarked, durable>>

TickTurn ==
  /\ pc = "signals" /\ batch = << >>
  /\ LET r == Tick(eng, now)
     IN eng' = r.eng /\ queue' = r.closed
  /\ after' = "sync"
  /\ Goto("persist")
  /\ UNCHANGED <<disk, now, batch, upto, dropped, env, hist>>

PersistLast ==  \* mutant: only the last closed turn is appended
  /\ pc = "persist" /\ queue # << >>
  /\ logf' = Append(logf, TurnRecord(queue[Len(queue)]))
  /\ queue' = << >>
  /\ UNCHANGED <<journal, inbox, offset, lastKey, memory,
                 pc, after, eng, now, batch, upto, dropped, env, hist>>

(* persist: one append per closed turn. *)
Persist ==
  /\ pc = "persist" /\ queue # << >>
  /\ logf' = Append(logf, TurnRecord(Head(queue)))
  /\ queue' = Tail(queue)
  /\ UNCHANGED <<journal, inbox, offset, lastKey, memory,
                 pc, after, eng, now, batch, upto, dropped, env, hist>>

Persisted ==
  /\ pc = "persist" /\ queue = << >>
  /\ Goto(after)
  /\ UNCHANGED <<disk, after, eng, now, batch, queue, upto, dropped, env, hist>>

(* The end of an iteration; the stop flag is read after the journal sync.  *)
Sync ==
  /\ pc = "sync"
  /\ SyncJournal(eng)
  /\ \/ Goto("flush") /\ UNCHANGED exits
     \/ exits < max.exits /\ exits' = exits + 1 /\ Goto("stopping")
  /\ UNCHANGED <<logf, inbox, offset, lastKey, memory, after, eng, now, batch,
                 queue, upto, dropped, max, changes, gits, faults, nextId, applied, unmarked>>

(* Clean shutdown: the last burst, force_close, the journal, the epoch.    *)
Stopping ==
  /\ pc = "stopping"
  /\ \E burst \in BOOLEAN :
       LET r == ObserveChanges(eng, now, IF burst THEN OneFile ELSE << >>, nextId)
           c == ForceClose(r.eng, now)
       IN /\ burst => changes < max.changes /\ nextId <= max.ids
          /\ eng' = c.eng /\ queue' = c.closed
          /\ nextId' = IF r.reserved THEN nextId + 1 ELSE nextId
          /\ changes' = IF burst THEN changes + 1 ELSE changes
  /\ after' = "unmirror"
  /\ Goto("persist")
  /\ UNCHANGED <<disk, max, now, batch, upto, dropped, gits, exits, faults, hist>>

FinalSync ==
  /\ pc = "unmirror"
  /\ SyncJournal(eng)
  /\ Goto("stopped")
  /\ UNCHANGED <<logf, inbox, offset, lastKey, memory, after, eng, now, batch,
                 queue, upto, dropped, env, applied, unmarked>>

StopEpoch ==
  /\ pc = "stopped"
  /\ logf' = Append(logf, EpochRecord("stop", 0))
  /\ Die
  /\ UNCHANGED <<journal, inbox, offset, lastKey, memory, env, hist>>

-----------------------------------------------------------------------------

Init ==
  /\ logf = << >> /\ journal = None /\ inbox = << >> /\ offset = 0
  /\ lastKey = None /\ memory = << >>
  /\ pc = "down" /\ after = "down" /\ eng = NewEngine /\ now = 0
  /\ batch = << >> /\ queue = << >> /\ upto = 0 /\ dropped = 0
  /\ nextId = 1 /\ changes = 0 /\ gits = 0 /\ exits = 0 /\ faults = 0
  /\ applied = << >> /\ unmarked = {} /\ durable = {}
  /\ max \in Bounds

Daemon ==
  \/ Boot \/ RecoverAppend \/ RecoverSkip \/ RecoverRemove
  \/ Scan \/ ReplayLine \/ ReplayDone \/ StartEpoch
  \/ Flush \/ Poll \/ Candidate \/ IngestLine \/ DropResend \/ Mark
  \/ MarkFails \/ Unkeyed \/ DropMismatched \/ ApplySignal \/ TickTurn \/ Persist \/ Persisted
  \/ Sync \/ Stopping \/ FinalSync \/ StopEpoch

Environment == Emit \/ Resend \/ Crash

Next == Daemon \/ Environment

Spec == Init /\ [][Next]_vars

(* The daemon's thread keeps running while it is alive, and the service    *)
(* manager restarts it when it is not (KeepAlive, cli/src/service.rs).     *)
LiveSpec == Spec /\ WF_vars(Daemon)

-----------------------------------------------------------------------------
(* Types: what the open turn and the journal can be when there is one.     *)

Sources == {"quiet", "git", "bracket"}

OpenTurns ==
  [ source : Sources, tool : {Tool, Git, None}, openedAt : Nat,
    files : {<< >>, OneFile}, id : Nat, emitterTurn : Nat \cup {None} ]

Journals == [ id : Nat, source : Sources ]

ASSUME NoneAssumption == None \notin OpenTurns /\ None \notin Journals

-----------------------------------------------------------------------------
(* Safety.                                                                 *)

OnDisk == LoggedIds \cup (IF journal = None THEN {} ELSE {journal.id})

(* D8: one turn, one record -- a crash between an append and the update of *)
(* the journal never makes the next daemon log the turn again.             *)
LoggedOnce ==
  \A i, j \in DOMAIN logf :
    logf[i].kind = "turn" /\ logf[j].kind = "turn" /\ logf[i].id = logf[j].id
      => i = j

(* AC B2: a turn that was journaled once is always on disk, in the log or  *)
(* still in the journal, wherever the process was killed. (Not so for a    *)
(* turn that a git transition closed when a candidate follows in the same  *)
(* iteration: the instances keep the two apart.)                           *)
(* A memory never names a turn that a crash can still erase (D-M6).        *)
JournaledSurvives ==
  /\ durable \subseteq OnDisk
  /\ \A m \in Range(memory) : m.turn = None \/ m.turn \in OnDisk

(* C1: no line of the inbox reaches the engine twice, whatever it carries, *)
(* across kills and failed writes of the state; and a signal and its       *)
(* resends have one effect, also across a restart between the two or       *)
(* between marking and applying, when the signal carries an emitter turn   *)
(* and an event and its mark could be written.  A signal without them      *)
(* (those of Claude Code) is applied again as often as it is sent again.   *)
AppliedOnce ==
  \A i, j \in DOMAIN applied : i # j =>
    /\ applied[i] # applied[j]
    /\ LET s == inbox[applied[i]] IN
         Keyed(s) /\ inbox[applied[j]].em = s.em => s.em \in unmarked

-----------------------------------------------------------------------------
(* Liveness: a journaled turn that no live daemon holds open any more is   *)
(* eventually logged.                                                      *)
OrphansLogged ==
  \A id \in UNION {1 .. b.ids : b \in Bounds} :
    (id \in durable /\ ~(eng.open # None /\ eng.open.id = id))
      ~> (id \in LoggedIds)

=============================================================================
