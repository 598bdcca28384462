-------------------------- MODULE SnapshotRecorder --------------------------
(***************************************************************************)
(* What the recorder writes down of the contents of files, and what undo   *)
(* makes of it: debouncing of watch events, Recorder::stage and            *)
(* Recorder::resolve (cli/src/daemon.rs), the crash journal's copy of the  *)
(* files, the undo guard, and `undo --confirm` (cli/src/readcmds.rs) over  *)
(* the turns that result.  TurnEngine segments the observations.           *)
(*                                                                         *)
(* An iteration of the daemon's loop is one step here, since no other      *)
(* process sees its inside but through the log; RecorderDaemon has its     *)
(* crash points.  Contents are numbers; an edit writes a new one.  `Absent`*)
(* is a missing file, and the `null` of a record.  Events reach the queue  *)
(* of the watcher with the write.  Each blob that a record names is there: *)
(* removal of blobs and the size cap are left out.                         *)
(***************************************************************************)
EXTENDS TurnEngine, FiniteSets, Functions, SequencesExt

CONSTANTS
  Paths,        \* files of the watched root
  Agent,        \* the tool that sends signals
  Absent,       \* no file; null in a record
  Unknown,      \* null with `baseline_unknown`
  DEBOUNCE,     \* silence that settles a burst
  MAX_DEBOUNCE, \* age at which a burst is flushed though it did not settle
  GUARD_LINGER, \* how long an undo that is done keeps its guard
  GUARD_TTL,    \* `until_ms` of a guard, from its writing
  MaxTime,      \* bound on the clock
  MaxEdits,     \* bound on the edits
  MaxGits,      \* bound on the git transitions
  MaxSignals,   \* bound on the signals consumed
  MaxUnread,    \* bound on the files found unreadable
  MaxUndos,     \* bound on the undos begun
  MaxExits,     \* bound on the ends of a process
  MaxEvents     \* bound on the last five together

ASSUME ContentAssumption ==
  /\ {DEBOUNCE, MAX_DEBOUNCE, GUARD_LINGER, GUARD_TTL, MaxTime, MaxEdits,
      MaxGits, MaxSignals, MaxUnread, MaxUndos, MaxExits, MaxEvents} \subseteq Nat
  /\ Absent # Unknown /\ {Absent, Unknown, None} \cap Nat = {}
  /\ Agent \notin {None, Git} /\ None \notin {"start", "stop"}

VARIABLES
  disk,      \* what each file holds
  writes,    \* number of contents written so far
  now,       \* the clock
  queue,     \* watch events that the daemon has not drained: paths
  gitEvent,  \* ... and whether a ref transition is among them
  up,        \* a daemon runs
  ran,       \* it has iterated since the clock last advanced
  eng,       \* its engine
  pending,   \* paths of the burst that is being debounced
  first,     \* when its first event was drained
  last,      \* when its last event was drained
  baseline,  \* Recorder.baseline: the content last snapshotted, or None
  known,     \* Recorder.known: files that exist as far as it knows
  after,     \* Recorder.after: what `resolve` reports as `after`, or None
  logf,      \* log.jsonl, its turns
  journal,   \* open.json
  guard,     \* undo-guard.json
  undo,      \* the `undo --confirm` in progress
  nextId,    \* turn ids are reserved in order
  used,      \* how much of the bounds is used
  trail,     \* history: what became of each path and who saw it
  opaque,    \* history: paths with a change that no record tells of
  replaced   \* history: the contents that undo has read and overwritten

daemon == <<up, eng, pending, first, last, baseline, known, after>>
world == <<disk, writes, queue, gitEvent>>
vars == <<disk, writes, now, queue, gitEvent, up, ran, eng, pending, first, last,
          baseline, known, after, logf, journal, guard, undo, nextId, used,
          trail, opaque, replaced>>
hist == <<trail, opaque, replaced>>

Idle == [at |-> "idle"]
Seen(content, by, id) == [content |-> content, by |-> by, id |-> id]

(* Recorder::scan: the files that exist are known, but not their contents. *)
Boot(p) == Seen(IF disk[p] = Absent THEN Absent ELSE Unknown, "boot", 0)
Existing == {p \in Paths : disk[p] # Absent}

Init ==
  /\ disk \in [Paths -> {Absent, 0}] /\ writes = 0 /\ now = 0
  /\ queue = {} /\ gitEvent = FALSE
  /\ up = TRUE /\ ran = FALSE /\ eng = NewEngine
  /\ pending = {} /\ first = None /\ last = None
  /\ baseline = [p \in Paths |-> None] /\ known = Existing
  /\ after = [p \in Paths |-> None]
  /\ logf = << >> /\ journal = None /\ guard = None /\ undo = Idle
  /\ nextId = 1
  /\ used = [gits |-> 0, signals |-> 0, unread |-> 0, undos |-> 0, exits |-> 0]
  /\ trail = [p \in Paths |-> <<Boot(p)>>] /\ opaque = {} /\ replaced = {}

WithinBounds(u) ==
  /\ u.gits <= MaxGits /\ u.signals <= MaxSignals /\ u.unread <= MaxUnread
  /\ u.undos <= MaxUndos /\ u.exits <= MaxExits
  /\ u.gits + u.signals + u.unread + u.undos + u.exits <= MaxEvents

Spend(u) == WithinBounds(u) /\ used' = u

-----------------------------------------------------------------------------
(* The world: editors and agents write and delete files, git moves a ref,  *)
(* and time passes, for a running daemon no further than its poll.         *)

Edit(p) ==
  /\ writes < MaxEdits
  /\ writes' = writes + 1
  /\ disk' \in {[disk EXCEPT ![p] = writes + 1]} \cup
               {[disk EXCEPT ![p] = Absent] : x \in {disk[p]} \ {Absent}}
  /\ queue' = IF up THEN queue \cup {p} ELSE queue
  /\ opaque' = IF up THEN opaque ELSE opaque \cup {p}
  /\ UNCHANGED <<now, gitEvent, ran, daemon, logf, journal, guard, undo, nextId,
                 used, trail, replaced>>

GitTransition ==
  /\ up
  /\ gitEvent' = TRUE
  /\ Spend([used EXCEPT !.gits = @ + 1])
  /\ UNCHANGED <<disk, writes, now, queue, ran, daemon, logf, journal, guard,
                 undo, nextId, hist>>

Advance ==
  /\ now < MaxTime /\ (up => ran)
  /\ now' = now + 1
  /\ ran' = FALSE
  /\ UNCHANGED <<world, daemon, logf, journal, guard, undo, nextId, used, hist>>

-----------------------------------------------------------------------------
(* Recorder::stage and Recorder::resolve.                                  *)

(* `before` of a path: the last snapshot; or unknown, when the file was    *)
(* there before the recorder; or null, when it was not.                    *)
BeforeOf(p) ==
  IF baseline[p] # None THEN baseline[p]
  ELSE IF p \in known THEN Unknown ELSE Absent

(* A file that came and went within one batch is noise. *)
Reported(P) == {p \in P : BeforeOf(p) # Absent \/ disk[p] # Absent}

StatusOf(p, unread) ==
  IF disk[p] = Absent THEN "deleted"
  ELSE IF p \in unread THEN "skipped" ELSE "captured"

Observe(P, unread) ==
  [p \in Reported(P) |->
     [ before |-> BeforeOf(p), status |-> StatusOf(p, unread),
       reason |-> IF StatusOf(p, unread) = "skipped" THEN "unreadable" ELSE None ]]

StageKeepsDeleted(obs) ==  \* mutant: a deleted file keeps its baseline
  /\ baseline' = [p \in Paths |->
       IF p \in DOMAIN obs /\ obs[p].status = "captured" THEN disk[p] ELSE baseline[p]]
  /\ known' = known \cup {p \in DOMAIN obs : obs[p].status # "deleted"}
  /\ after' = [p \in Paths |->
       IF p \notin DOMAIN obs THEN after[p]
       ELSE IF obs[p].status = "captured" THEN disk[p] ELSE Absent]

(* The state that a batch leaves: nothing is learned of an unreadable file *)
(* but that its `after` is null.                                           *)
Stage(obs) ==
  /\ baseline' = [p \in Paths |->
       IF p \notin DOMAIN obs \/ obs[p].status = "skipped" THEN baseline[p]
       ELSE IF obs[p].status = "deleted" THEN None ELSE disk[p]]
  /\ known' = (known \ {p \in DOMAIN obs : obs[p].status = "deleted"})
                \cup {p \in DOMAIN obs : obs[p].status = "captured"}
  /\ after' = [p \in Paths |->
       IF p \notin DOMAIN obs THEN after[p]
       ELSE IF obs[p].status = "captured" THEN disk[p] ELSE Absent]

(* A file entry: `before` and the deletion come from the turn, `after` is  *)
(* whatever was staged last when the turn is written.                      *)
Resolve(files, aft) ==
  [p \in DOMAIN files |->
     [ before  |-> files[p].before,
       after   |-> aft[p],
       op      |-> IF files[p].status = "deleted" THEN "delete"
                   ELSE IF files[p].before = Absent THEN "create" ELSE "modify",
       skipped |-> files[p].status = "skipped" ]]

Record(t, aft) ==
  [ id |-> t.id, by |-> "daemon", merges |-> t.merges,
    files |-> Resolve(t.files, aft) ]

Records(closed, aft) == [i \in DOMAIN closed |-> Record(closed[i], aft)]

JournalOnOpen(e, aft) ==  \* mutant: a turn is mirrored when it opens only
  IF e.open = None THEN None
  ELSE IF journal # None /\ journal.id = e.open.id THEN journal
  ELSE [id |-> e.open.id, files |-> Resolve(e.open.files, aft)]

(* sync_journal: the open turn as it would be written now. *)
Journal(e, aft) ==
  IF e.open = None THEN None
  ELSE [id |-> e.open.id, files |-> Resolve(e.open.files, aft)]

(* History: what the recorder knows of a path after a batch. *)
Follow(obs, id) ==
  trail' = [p \in Paths |->
    IF p \notin DOMAIN obs THEN trail[p]
    ELSE Append(trail[p],
           Seen(IF obs[p].status = "skipped" THEN obs[p].before ELSE disk[p],
                "daemon", id))]

(* History: the changes of a burst that leave no record, because they were *)
(* made under a guard, or taken for noise by a recorder that does not know *)
(* that an undo had brought the file back.                                 *)
Unrecorded(burst, obs) ==
  {p \in burst \ DOMAIN obs : Last(trail[p]).content # disk[p]}

-----------------------------------------------------------------------------
(* The daemon.                                                             *)

(* undo_guard_paths: an expired guard, or none, protects nothing. *)
Guarded == IF guard = None \/ guard.until < now THEN {} ELSE guard.paths

(* The burst has settled, or has been open for too long. *)
Due(f, l) ==
  \/ l # None /\ now - l >= DEBOUNCE
  \/ f # None /\ now - f >= MAX_DEBOUNCE

Signal(sig, e, id) ==
  CASE sig = "start" -> ObserveStart(e, now, Agent, None, id)
    [] sig = "stop"  -> ObserveStop(e, now, Agent, id)
    [] sig = None    -> Result(e, << >>, FALSE)

(* One iteration of the loop in `run`: drain the watcher, tell the engine  *)
(* of a ref transition, flush the burst when it is due -- without what an  *)
(* undo is writing --, apply a signal, tick, append, and mirror the open   *)
(* turn.                                                                   *)
Iterate(sig, unread) ==
  LET burst == pending \cup queue
      f     == IF queue = {} \/ first # None THEN first ELSE now
      l     == IF queue = {} THEN last ELSE now
      due   == Due(f, l)
      kept  == IF due THEN burst \ Guarded ELSE {}
      obs   == Observe(kept, unread)
      seen  == ObserveChanges(IF gitEvent THEN ObserveGitChange(eng, now) ELSE eng,
                              now, obs, nextId)
      id    == IF seen.reserved THEN nextId + 1 ELSE nextId
      told  == Signal(sig, seen.eng, id)
      done  == Tick(told.eng, now)
  IN /\ up
     /\ unread \subseteq kept \cap Existing
     /\ Spend([used EXCEPT !.unread = @ + Cardinality(unread),
                           !.signals = IF sig = None THEN @ ELSE @ + 1])
     /\ Stage(obs)
     /\ eng' = done.eng
     /\ nextId' = IF told.reserved THEN id + 1 ELSE id
     /\ logf' = logf \o Records(told.closed \o done.closed, after')
     /\ journal' = Journal(done.eng, after')
     /\ pending' = IF due THEN {} ELSE burst
     /\ first' = IF due THEN None ELSE f
     /\ last' = IF due THEN None ELSE l
     /\ queue' = {} /\ gitEvent' = FALSE /\ ran' = TRUE
     /\ Follow(obs, seen.eng.open.id)
     /\ opaque' = opaque \cup unread \cup IF due THEN Unrecorded(burst, obs) ELSE {}
     /\ UNCHANGED <<disk, writes, now, up, guard, undo, replaced>>

(* What the process takes with it: the burst, and events not drained. *)
Die ==
  /\ up' = FALSE /\ eng' = NewEngine
  /\ pending' = {} /\ first' = None /\ last' = None
  /\ queue' = {} /\ gitEvent' = FALSE

(* The clean shutdown stages the burst as it is, guard or not. *)
Shutdown(unread) ==
  LET obs  == Observe(pending, unread)
      seen == ObserveChanges(eng, now, obs, nextId)
  IN /\ up /\ ran
     /\ unread \subseteq pending \cap Existing
     /\ Spend([used EXCEPT !.unread = @ + Cardinality(unread), !.exits = @ + 1])
     /\ Stage(obs)
     /\ logf' = logf \o Records(ForceClose(seen.eng, now).closed, after')
     /\ nextId' = IF seen.reserved THEN nextId + 1 ELSE nextId
     /\ journal' = None
     /\ Die
     /\ Follow(obs, seen.eng.open.id)
     /\ opaque' = opaque \cup unread \cup queue \cup Unrecorded(pending, obs)
     /\ UNCHANGED <<disk, writes, now, ran, guard, undo, replaced>>

Crash ==
  /\ up
  /\ Spend([used EXCEPT !.exits = @ + 1])
  /\ Die
  /\ opaque' = opaque \cup queue \cup pending
  /\ UNCHANGED <<disk, writes, now, ran, baseline, known, after, logf, journal,
                 guard, undo, nextId, trail, replaced>>

LoggedIds == {logf[i].id : i \in DOMAIN logf}

(* A new process: recover_orphan, then a new Recorder. *)
Restart ==
  /\ ~up
  /\ up' = TRUE /\ ran' = FALSE
  /\ logf' = IF journal = None \/ journal.id \in LoggedIds THEN logf
             ELSE Append(logf, [ id |-> journal.id, by |-> "daemon",
                                 merges |-> {}, files |-> journal.files ])
  /\ journal' = None
  /\ baseline' = [p \in Paths |-> None] /\ known' = Existing
  /\ after' = [p \in Paths |-> None]
  /\ trail' = [p \in Paths |-> Append(trail[p], Boot(p))]
  /\ UNCHANGED <<world, now, eng, pending, first, last, guard, undo, nextId, used,
                 opaque, replaced>>

-----------------------------------------------------------------------------
(* undo --confirm. *)

(* build_plan: a path is reverted when there is something to restore and   *)
(* nothing has changed it since.                                           *)
Revertible(r, p, allow) ==
  /\ ~r.files[p].skipped
  /\ r.files[p].op = "create" \/ r.files[p].before \notin {Absent, Unknown}
  /\ allow \/ disk[p] = r.files[p].after

UndoPlan(i, allow) ==
  LET P == {p \in DOMAIN logf[i].files : Revertible(logf[i], p, allow)}
  IN /\ undo.at = "idle" /\ P # {}
     /\ Spend([used EXCEPT !.undos = @ + 1])
     /\ undo' = [at |-> "plan", turn |-> logf[i], todo |-> P, allow |-> allow]
     /\ UNCHANGED <<world, now, ran, daemon, logf, journal, guard, nextId, hist>>

(* live_undo_guard_reason, write_undo_guard *)
UndoGuard ==
  /\ undo.at = "plan"
  /\ IF guard # None /\ guard.until > now
     THEN undo' = Idle /\ UNCHANGED guard
     ELSE /\ guard' = [paths |-> undo.todo, until |-> now + GUARD_TTL]
          /\ undo' = [ at |-> "revert", turn |-> undo.turn, todo |-> undo.todo,
                       done |-> << >>, on |-> None ]
  /\ UNCHANGED <<world, now, ran, daemon, logf, journal, nextId, used, hist>>

Restored(entry) == IF entry.op = "create" THEN Absent ELSE entry.before
InverseOp(op) == CASE op = "create" -> "delete" [] op = "delete" -> "create"
                 [] OTHER -> "modify"

InverseOfTurn(entry, p) ==  \* mutant: trusts the record for what is overwritten
  [ before |-> entry.after, after |-> Restored(entry), op |-> InverseOp(entry.op),
    skipped |-> FALSE ]

(* execute_revert: the entry of the undo turn holds what was read before   *)
(* the write.                                                              *)
InverseEntry(entry, p) ==
  [ before |-> undo.on.read, after |-> Restored(entry), op |-> InverseOp(entry.op),
    skipped |-> FALSE ]

(* History: the files of turns that are written, or written again, later:  *)
(* the open one, and the bare ones that a bracket may fold.                *)
Unwritten == {p \in Paths : \/ journal # None /\ p \in DOMAIN journal.files
                            \/ \E b \in eng.recentBare : p \in DOMAIN b.files}

Reverting == undo.at = "revert"

(* The content of a file is read, and put in the store.  Nothing keeps     *)
(* others from the file until it is written.                               *)
UndoRead(p) ==
  /\ Reverting /\ undo.on = None /\ p \in undo.todo
  /\ undo' = [undo EXCEPT !.on = [path |-> p, read |-> disk[p]]]
  /\ UNCHANGED <<world, now, ran, daemon, logf, journal, guard, nextId, used, hist>>

(* The write, or the removal.  What has come since the read is lost.       *)
UndoRevert(p) ==
  LET entry == undo.turn.files[p]
  IN /\ Reverting /\ undo.on # None /\ undo.on.path = p /\ p \in undo.todo
     /\ disk' = [disk EXCEPT ![p] = Restored(entry)]
     /\ undo' = [undo EXCEPT !.todo = @ \ {p},
                             !.done = [q \in DOMAIN @ \cup {p} |->
                               IF q = p THEN InverseEntry(entry, p) ELSE @[q]]]
     /\ queue' = IF up /\ {disk[p], disk'[p]} # {Absent} THEN queue \cup {p}
                 ELSE queue
     /\ trail' = [trail EXCEPT ![p] = Append(@, Seen(disk'[p], "undo", 0))]
     /\ replaced' = IF disk[p] = undo.on.read THEN replaced \cup {<<p, disk[p]>>}
                    ELSE replaced
     /\ opaque' = opaque \cup (Unwritten \cap {p})
  /\ UNCHANGED <<writes, now, gitEvent, ran, daemon, logf, journal, guard, nextId,
                 used>>

(* The file is read back and holds what was written. *)
UndoVerified ==
  /\ Reverting /\ undo.on # None /\ undo.on.path \notin undo.todo
  /\ disk[undo.on.path] = Restored(undo.turn.files[undo.on.path])
  /\ undo' = [undo EXCEPT !.on = None]
  /\ UNCHANGED <<world, now, ran, daemon, logf, journal, guard, nextId, used, hist>>

(* A read or a put fails, or a write before it has touched the file: what  *)
(* is reverted so far is recorded.                                         *)
UndoFail ==
  /\ Reverting /\ undo.todo # {}
  /\ undo.on # None => undo.on.path \in undo.todo
  /\ undo' = [undo EXCEPT !.todo = {}, !.on = None]
  /\ UNCHANGED <<world, now, ran, daemon, logf, journal, guard, nextId, used, hist>>

(* fs::write truncates the file and fails then: it holds what it was not   *)
(* meant to, and no entry tells of it.                                     *)
UndoTorn ==
  /\ Reverting /\ undo.on # None /\ undo.on.path \in undo.todo
  /\ undo.turn.files[undo.on.path].op # "create"
  /\ writes < MaxEdits
  /\ writes' = writes + 1
  /\ disk' = [disk EXCEPT ![undo.on.path] = writes + 1]
  /\ undo' = [undo EXCEPT !.todo = {}, !.on = None]
  /\ queue' = IF up THEN queue \cup {undo.on.path} ELSE queue
  /\ opaque' = IF up THEN opaque ELSE opaque \cup {undo.on.path}
  /\ UNCHANGED <<now, gitEvent, ran, daemon, logf, journal, guard, nextId, used,
                 trail, replaced>>

(* The file cannot be read back, or holds something else by then, or is    *)
(* there again: it was written, and no entry tells of it.                  *)
UndoUnverified ==
  /\ Reverting /\ undo.on # None /\ undo.on.path \notin undo.todo
  /\ undo.turn.files[undo.on.path].op = "create" => disk[undo.on.path] # Absent
  /\ undo' = [undo EXCEPT !.todo = {}, !.on = None,
                          !.done = [q \in DOMAIN @ \ {undo.on.path} |-> @[q]]]
  /\ opaque' = opaque \cup {undo.on.path}
  /\ replaced' = replaced \ {<<undo.on.path, undo.on.read>>}
  /\ UNCHANGED <<world, now, ran, daemon, logf, journal, guard, nextId, used, trail>>

(* append_undo_turn *)
UndoRecord ==
  /\ Reverting /\ undo.todo = {} /\ undo.on = None
  /\ undo' = [at |-> "linger", since |-> now]
  /\ IF undo.done = << >> THEN UNCHANGED <<logf, nextId>>
     ELSE /\ logf' = Append(logf, [ id |-> nextId, by |-> "undo", merges |-> {},
                                    files |-> undo.done ])
          /\ nextId' = nextId + 1
  /\ opaque' = opaque \cup {p \in DOMAIN undo.done : disk[p] # undo.done[p].after}
  /\ UNCHANGED <<world, now, ran, daemon, journal, guard, used, trail, replaced>>

(* finish_undo_guard: sleep, then remove the guard. *)
UndoFinish ==
  /\ undo.at = "linger" /\ now - undo.since >= GUARD_LINGER
  /\ guard' = None
  /\ undo' = Idle
  /\ UNCHANGED <<world, now, ran, daemon, logf, journal, nextId, used, hist>>

(* Also an undo whose record cannot be appended. *)
UndoKilled ==
  /\ undo.at # "idle"
  /\ Spend([used EXCEPT !.exits = @ + 1])
  /\ undo' = Idle
  /\ LET unrecorded == IF undo.at = "revert" THEN DOMAIN undo.done ELSE {}
     IN /\ opaque' = opaque \cup unrecorded
        /\ replaced' = replaced \ {<<p, undo.done[p].before>> : p \in unrecorded}
  /\ UNCHANGED <<world, now, ran, daemon, logf, journal, guard, nextId, trail>>

-----------------------------------------------------------------------------
Next ==
  \/ \E p \in Paths : Edit(p)
  \/ GitTransition
  \/ Advance
  \/ \E sig \in {"start", "stop", None}, unread \in SUBSET Paths : Iterate(sig, unread)
  \/ \E unread \in SUBSET Paths : Shutdown(unread)
  \/ Crash
  \/ Restart
  \/ \E i \in DOMAIN logf, allow \in BOOLEAN : UndoPlan(i, allow)
  \/ UndoGuard
  \/ \E p \in Paths : UndoRead(p) \/ UndoRevert(p)
  \/ UndoVerified
  \/ UndoFail
  \/ UndoTorn
  \/ UndoUnverified
  \/ UndoRecord
  \/ UndoFinish
  \/ UndoKilled

Spec == Init /\ [][Next]_vars

-----------------------------------------------------------------------------
Contents == 0 .. MaxEdits
Entries ==
  [ before : Contents \cup {Absent, Unknown}, after : Contents \cup {Absent},
    op : {"create", "modify", "delete"}, skipped : BOOLEAN ]
FileMaps == UNION {[P -> Entries] : P \in SUBSET Paths}

(* Turns that are open, and what the journal says of one.                  *)
Sightings ==
  [ before : Contents \cup {Absent, Unknown}, status : {"captured", "deleted", "skipped"},
    reason : {"unreadable", None} ]
OpenTurns ==
  [ source : {"quiet", "git", "bracket"}, tool : {Agent, Git, None}, openedAt : Nat,
    files : UNION {[P -> Sightings] : P \in SUBSET Paths}, id : Nat, emitterTurn : {None} ]
Mirrors ==
  [ before : Contents \cup {Absent, Unknown}, after : Contents \cup {Absent, None},
    op : {"create", "modify", "delete"}, skipped : BOOLEAN ]
Journals == [id : Nat, files : UNION {[P -> Mirrors] : P \in SUBSET Paths}]

ASSUME NoneAssumption == None \notin OpenTurns /\ None \notin Journals

(* The types of the variables. *)
TypeOK ==
  /\ disk \in [Paths -> Contents \cup {Absent}]
  /\ writes \in Contents /\ now \in 0 .. MaxTime
  /\ queue \subseteq Paths /\ pending \subseteq Paths
  /\ {gitEvent, up, ran} \subseteq BOOLEAN
  /\ {first, last} \subseteq 0 .. now \cup {None}
  /\ baseline \in [Paths -> Contents \cup {None}]
  /\ known \subseteq Paths
  /\ after \in [Paths -> Contents \cup {Absent, None}]
  /\ \A i \in DOMAIN logf : logf[i].files \in FileMaps /\ logf[i].id < nextId
  /\ journal = None \/ journal.files \in FileMaps
  /\ guard = None \/ guard.paths \subseteq Paths

Family(r) == {r.id} \cup r.merges
Logged == Range(logf)
ByDaemon == {r \in Logged : r.by = "daemon"}

(* What the recorder had last seen before the k-th event of a path.        *)
SeenBefore(s, k) == s[Max({j \in 1 .. k - 1 : s[j].by # "undo"})].content
FirstOf(s, ids) ==
  CHOOSE i \in DOMAIN s : s[i].id \in ids /\ \A j \in 1 .. i - 1 : s[j].id \notin ids

(* `before` is what the recorder had last seen of the file when the turn,  *)
(* or the oldest fragment folded into it, first observed it -- across      *)
(* deletions, unreadable files, git turns in between and restarts, after   *)
(* which it is marked unknown.                                             *)
BeforeIsLastSeen ==
  \A r \in ByDaemon : \A p \in DOMAIN r.files :
    r.files[p].before = SeenBefore(trail[p], FirstOf(trail[p], Family(r)))

Quiescent ==
  /\ up /\ queue \cup pending = {} /\ undo.at = "idle"
  /\ eng.open = None /\ eng.pending = << >>

LastRecordOf(p) ==
  LET S == {i \in DOMAIN logf : p \in DOMAIN logf[i].files}
  IN CHOOSE i \in S : \A j \in S : j <= i

(* When nothing is under way, the last record of a file tells what it      *)
(* holds.  `opaque` lists the exceptions: changes while no daemon ran,     *)
(* events lost at its end, unreadable files, writes of an undo that was    *)
(* killed or could not verify them, and what an undo hides -- other        *)
(* changes under its guard, a write of its own that was cut short or went  *)
(* to a file of a turn still open or still to be folded (which is then     *)
(* written with the content that was undone), and the deletion of a file   *)
(* it restored.                                                            *)
LogExplainsDisk ==
  Quiescent =>
    \A p \in Paths \ opaque :
      IF \E r \in Logged : p \in DOMAIN r.files
      THEN logf[LastRecordOf(p)].files[p].after = disk[p]
      ELSE disk[p] \in {0, Absent}

(* What an undo has read and then overwritten is the `before` of an undo   *)
(* turn, also when it failed at a later file and when the file had changed *)
(* since the plan, so that undoing the undo brings it back (D15).  Nothing *)
(* is claimed of an undo killed before it recorded, of a file whose write  *)
(* was cut short or could not be verified (no entry tells of it), and of a *)
(* content that came between the read of the file and its write.           *)
OverwrittenIsRecorded ==
  undo.at \in {"idle", "plan", "linger"} =>
    \A x \in replaced :
      \E r \in Logged : /\ r.by = "undo" /\ x[1] \in DOMAIN r.files
                        /\ r.files[x[1]].before = x[2]

-----------------------------------------------------------------------------
(* What the documents say and the code does not do. *)

(* A turn's `before` is the content of the file before the turn, also when *)
(* an undo wrote it.                                                       *)
BeforeIsPreTurn ==
  \A r \in ByDaemon : \A p \in DOMAIN r.files :
    LET s == trail[p]
    IN r.files[p].before = s[FirstOf(s, Family(r)) - 1].content

(* Without --allow-modified an undo overwrites only what its turn, or a    *)
(* fragment folded into it, was seen to write (D30).                       *)
UndoSparesLaterWork ==
  [][ undo'.at = "plan" /\ undo.at = "idle" =>
        undo'.allow \/ undo'.turn.by = "undo" \/
        \A p \in undo'.todo :
          \E x \in Range(trail[p]) : /\ x.id \in Family(undo'.turn)
                                     /\ disk[p] = x.content ]_vars

=============================================================================
