---------------------------- MODULE SignalInbox ----------------------------
(* signal.jsonl, the inbox that hooks and `agentrec candidate` append to    *)
(* without a lock; the offset in state.json up to which it is consumed; the *)
(* daemon that consumes it (SignalTailer and replay_pending_candidates of   *)
(* daemon.rs) and purge --signals-consumed that cuts it (purgecmd.rs).      *)
(* Candidates go on to the memory ledger.                                   *)
(*                                                                          *)
(* The bytes of the inbox are, for each line, its body and a newline. What  *)
(* start and stop signals do is in RecorderDaemon.                          *)
EXTENDS Recall

ASSUME InboxAssumption ==
  \A b \in Bounds : \A what \in {"signals", "candidates", "cuts", "crashes"} :
    what \in DOMAIN b /\ b[what] \in Nat

VARIABLES
  inbox,      \* signal.jsonl: bodies, and NL for a newline
  writing,    \* the line whose body a hook has written and not its end, or 0
  state,      \* state.json: signal_offset, and (history) of which inbox
  daemon,     \* the recorder, with the offset of its tailer
  cutter,     \* a running purge --signals-consumed
  cut,        \* lines in signal.archived.*.jsonl
  gen,        \* history: how often the inbox was cut
  handed,     \* history: lines that a poll or a gap scan returned
  announced,  \* history: lines skipped by a resync, which says so
  astray,     \* history: lines passed over by an offset of a former inbox
  whole,      \* history: lines that were written to their end
  unheard,    \* history: lines that nothing promises to keep
  minted      \* history: ids of the memories that come from candidates

inboxVars == <<inbox, writing, state, daemon, cutter, cut, gen, handed,
               announced, astray, whole, unheard, minted>>

vars == <<ledger, left, recallVars, inboxVars>>

NL == [line |-> 0]

-----------------------------------------------------------------------------
(* Reading bytes.                                                           *)

LastNewline(bytes) == Max({0} \cup {i \in DOMAIN bytes : bytes[i] = NL})

(* parse_signals: a line with two bodies, or with none, is skipped.         *)
ReadableAt(bytes, i) ==
  /\ bytes[i] # NL
  /\ i < Len(bytes) /\ bytes[i + 1] = NL
  /\ i > 1 => bytes[i - 1] = NL

ParseSignals(bytes) ==
  LET at == {i \in DOMAIN bytes : ReadableAt(bytes, i)} IN
    [k \in 1 .. Cardinality(at) |-> bytes[SetToSortSeq(at, <)[k]]]

Numbers(bytes) == {bytes[i].line : i \in {j \in DOMAIN bytes : ReadableAt(bytes, j)}}

Lines(bytes) == {x.line : x \in Range(bytes) \ {NL}}

Below(offset) == SubSeq(inbox, 1, offset)
From(offset) == SubSeq(inbox, offset + 1, Len(inbox))

-----------------------------------------------------------------------------
(* Hooks. A line is one write, which the system may cut in two. Nothing     *)
(* promises to keep a line that ends between the last look of a purge and   *)
(* its rename (purgecmd.rs documents it).                                   *)

Body(kind, fact, S) ==
  [line |-> left.signals, kind |-> kind, fact |-> fact, pins |-> S, ts |-> now]

HookUnchanged ==
  UNCHANGED <<ledger, state, daemon, cutter, cut, gen, handed, announced, astray>>

Ended(bytes, n) ==
  /\ whole' = IF n \in Numbers(bytes) THEN whole \cup {n} ELSE whole
  /\ unheard' = IF cutter.pc = "rename" THEN unheard \cup {n} ELSE unheard

Kinds(kind) == left.signals > 0 /\ (kind = "candidate" => left.candidates > 0)

UseSignal(kind) ==
  left' = [left EXCEPT !.signals = @ - 1,
                       !.candidates = IF kind = "candidate" THEN @ - 1 ELSE @]

HookLine(kind, fact, S) ==
  /\ Kinds(kind)
  /\ inbox' = inbox \o <<Body(kind, fact, S), NL>>
  /\ Ended(inbox', left.signals)
  /\ UseSignal(kind)
  /\ UNCHANGED writing /\ HookUnchanged

HookBegin(kind, fact, S) ==
  /\ writing = 0 /\ Kinds(kind)
  /\ inbox' = Append(inbox, Body(kind, fact, S))
  /\ writing' = left.signals
  /\ UseSignal(kind)
  /\ UNCHANGED <<whole, unheard>> /\ HookUnchanged

HookEnd ==
  /\ writing # 0
  /\ inbox' = Append(inbox, NL)
  /\ Ended(inbox', writing)
  /\ writing' = 0
  /\ UNCHANGED left /\ HookUnchanged

(* The hook is killed: the inbox ends in a torn line, until the next hook.  *)
HookDies ==
  /\ writing # 0
  /\ writing' = 0
  /\ UNCHANGED <<inbox, left, whole, unheard>> /\ HookUnchanged

-----------------------------------------------------------------------------
(* The daemon.                                                              *)

DaemonDown == [pc |-> "down", offset |-> 0, gen |-> 0, batch |-> << >>]

DaemonLives == daemon.pc # "down"

DaemonFree == daemon.batch = << >> /\ proc[Daemon] = Resting

DaemonUnchanged ==
  UNCHANGED <<inbox, writing, cutter, cut, gen, whole, unheard>>

(* What an offset that was counted in a former inbox passes over.           *)
Stray(offset, of) == IF of = gen THEN {} ELSE Lines(Below(offset)) \ handed

(* run: acquire_lock, then recovery.                                        *)
Boot ==
  /\ ~ DaemonLives
  /\ daemon' = [DaemonDown EXCEPT !.pc = "scan"]
  /\ UNCHANGED <<ledger, left, state, handed, announced, astray>> /\ DaemonUnchanged

(* resync_shrunk_signal_offset                                              *)
Resync ==
  /\ state' = [offset |-> Len(inbox), gen |-> gen]
  /\ daemon' = [pc |-> "up", offset |-> Len(inbox), gen |-> gen, batch |-> << >>]
  /\ announced' = announced \cup (Lines(inbox) \ handed)
  /\ UNCHANGED <<handed, astray>>

(* The whole lines from an offset on are handed over.                       *)
Take(pc, offset, of, nl) ==
  LET bytes == SubSeq(inbox, offset + 1, offset + nl) IN
    /\ daemon' = [pc |-> pc, offset |-> offset + nl, gen |-> gen,
                  batch |-> ParseSignals(bytes)]
    /\ handed' = handed \cup Numbers(bytes)
    /\ astray' = astray \cup Stray(offset, of)
    /\ UNCHANGED announced

(* replay_pending_candidates, until it has its lines; they are acted on     *)
(* before the offset is written.                                            *)
GapScan ==
  /\ daemon.pc = "scan"
  /\ LET nl == LastNewline(From(state.offset)) IN
     CASE Len(inbox) < state.offset -> Resync
       [] Len(inbox) >= state.offset /\ nl = 0 ->
            /\ daemon' = [pc |-> "up", offset |-> state.offset, gen |-> gen, batch |-> << >>]
            /\ astray' = astray \cup Stray(state.offset, state.gen)
            /\ UNCHANGED <<state, handed, announced>>
       [] OTHER -> Take("replay", state.offset, state.gen, nl) /\ UNCHANGED state
  /\ UNCHANGED <<ledger, left>> /\ DaemonUnchanged

ReplayDone ==
  /\ daemon.pc = "replay" /\ DaemonFree
  /\ state' = [offset |-> daemon.offset, gen |-> daemon.gen]
  /\ daemon' = [daemon EXCEPT !.pc = "up"]
  /\ UNCHANGED <<ledger, left, handed, announced, astray>> /\ DaemonUnchanged

PollTorn ==  \* mutant: the last line is consumed although it has no end
  /\ daemon.pc = "up" /\ DaemonFree /\ Len(inbox) > daemon.offset
  /\ Take("up", daemon.offset, daemon.gen, Len(inbox) - daemon.offset)
  /\ state' = [offset |-> Len(inbox), gen |-> gen]
  /\ UNCHANGED <<ledger, left>> /\ DaemonUnchanged

(* SignalTailer::poll: the offset is written before the lines are acted on. *)
Poll ==
  /\ daemon.pc = "up" /\ DaemonFree
  /\ \/ /\ Len(inbox) < daemon.offset
        /\ Resync
     \/ /\ Len(inbox) > daemon.offset
        /\ LET nl == LastNewline(From(daemon.offset)) IN
             /\ nl > 0
             /\ Take("up", daemon.offset, daemon.gen, nl)
             /\ state' = [offset |-> daemon.offset + nl, gen |-> gen]
  /\ UNCHANGED <<ledger, left>> /\ DaemonUnchanged

NextLine == daemon' = [daemon EXCEPT !.batch = Tail(@)]

(* A candidate that can be ingested is on its way into the ledger.          *)
IngestLine ==
  /\ daemon.batch # << >> /\ proc[Daemon] = Resting
  /\ LET s == Head(daemon.batch) IN
       /\ s.kind = "candidate" /\ Ingestible(s.fact, s.pins)
       /\ Ingest(s.fact, s.pins, s.ts)
       /\ minted' = minted \cup {left.asserts}
  /\ NextLine
  /\ UNCHANGED <<state, handed, announced, astray>> /\ DaemonUnchanged

(* A boundary goes to the engine or is counted; a duplicate is dropped, a   *)
(* candidate with a missing file rejected.                                  *)
PassLine ==
  /\ daemon.batch # << >> /\ proc[Daemon] = Resting
  /\ LET s == Head(daemon.batch) IN
       s.kind = "candidate" => ~ Ingestible(s.fact, s.pins)
  /\ NextLine
  /\ UNCHANGED <<ledger, left, state, handed, announced, astray, minted>> /\ DaemonUnchanged

(* Ctrl-C between two iterations. *)
Stop ==
  /\ daemon.pc = "up" /\ DaemonFree
  /\ daemon' = DaemonDown
  /\ UNCHANGED <<ledger, left, state, handed, announced, astray, minted>> /\ DaemonUnchanged

Crash ==
  /\ DaemonLives /\ left.crashes > 0
  /\ daemon' = DaemonDown
  /\ proc' = [proc EXCEPT ![Daemon] = Resting]
  /\ \/ UNCHANGED mem
     \/ proc[Daemon] # Resting /\ ~ MemoryLocked /\ TearRecord
  /\ Use("crashes")
  /\ UNCHANGED <<archive, tree, now, purge, reader, acked, forgotten, raced>>
  /\ UNCHANGED <<state, handed, announced, astray, minted>> /\ DaemonUnchanged

-----------------------------------------------------------------------------
(* purge --signals-consumed.                                                *)

CutterRest == [pc |-> "rest", offset |-> 0, length |-> 0]

CutUnchanged ==
  UNCHANGED <<ledger, daemon, handed, announced, whole, unheard, minted>>

(* The daemon probe, the refusals, and the fsynced copy of what goes.       *)
CutArchive ==
  /\ cutter = CutterRest /\ ~ DaemonLives /\ left.cuts > 0
  /\ state.offset \in DOMAIN inbox /\ inbox[state.offset] = NL
  /\ cut' = cut \cup Numbers(Below(state.offset))
  /\ astray' = astray \cup Stray(state.offset, state.gen)
  /\ cutter' = [pc |-> "recheck", offset |-> state.offset, length |-> Len(inbox)]
  /\ Use("cuts")
  /\ UNCHANGED <<inbox, writing, state, gen>> /\ CutUnchanged

(* The second look at the length. The copy is removed when it changed.      *)
CutRecheck ==
  /\ cutter.pc = "recheck"
  /\ IF Len(inbox) # cutter.length
     THEN cutter' = CutterRest /\ cut' = cut \ Numbers(inbox)
     ELSE cutter' = [cutter EXCEPT !.pc = "rename"] /\ UNCHANGED cut
  /\ UNCHANGED <<inbox, writing, state, gen, astray, left>> /\ CutUnchanged

(* rewrite_signal_atomic; a hook that is writing goes on in the old file.   *)
CutRename ==
  /\ cutter.pc = "rename"
  /\ inbox' = SubSeq(inbox, cutter.offset + 1, cutter.length)
  /\ writing' = 0
  /\ gen' = gen + 1
  /\ cutter' = [cutter EXCEPT !.pc = "rebase"]
  /\ UNCHANGED <<state, cut, astray, left>> /\ CutUnchanged

CutRebase ==
  /\ cutter.pc = "rebase"
  /\ state' = [offset |-> 0, gen |-> gen]
  /\ cutter' = CutterRest
  /\ UNCHANGED <<inbox, writing, gen, cut, astray, left>> /\ CutUnchanged

KillCutter ==
  /\ cutter # CutterRest /\ left.kills > 0
  /\ cutter' = CutterRest
  /\ Use("kills")
  /\ UNCHANGED <<inbox, writing, state, gen, cut, astray>> /\ CutUnchanged

-----------------------------------------------------------------------------
Init ==
  /\ LedgerInit /\ RecallInit
  /\ inbox = << >> /\ writing = 0 /\ state = [offset |-> 0, gen |-> 0]
  /\ daemon = DaemonDown /\ cutter = CutterRest /\ cut = {} /\ gen = 0
  /\ handed = {} /\ announced = {} /\ astray = {} /\ whole = {} /\ unheard = {}
  /\ minted = {}

Hook ==
  \/ HookEnd \/ HookDies
  \/ HookLine("boundary", None, {}) \/ HookBegin("boundary", None, {})
  \/ \E fact \in Facts, S \in (SUBSET Paths) \ {{}} :
       HookLine("candidate", fact, S) \/ HookBegin("candidate", fact, S)

InboxNext ==
  \/ Hook /\ UNCHANGED minted
  \/ (Boot \/ GapScan \/ ReplayDone \/ Poll) /\ UNCHANGED minted
  \/ IngestLine \/ PassLine \/ Stop \/ Crash
  \/ CutArchive \/ CutRecheck \/ CutRename \/ CutRebase \/ KillCutter

Next ==
  \/ LedgerNext /\ UNCHANGED <<inboxVars, recallVars>>
  \/ PurgeDecide /\ ~ DaemonLives /\ UNCHANGED <<inboxVars, recallVars>>
  \/ RecallNext /\ UNCHANGED inboxVars
  \/ InboxNext /\ UNCHANGED recallVars

Spec == Init /\ [][Next]_vars

-----------------------------------------------------------------------------
(* Properties.                                                              *)

(* No line of the inbox is lost although hooks append while it is cut: a  *)
(* whole one is in it or in the archive ("Never delete user data",         *)
(* purge_signals_consumed). What is below the offset, and what purge took  *)
(* away as consumed, was handed to the daemon or skipped with an           *)
(* announcement; an offset that was counted before a cut, because purge    *)
(* was killed before it could rebase it or a daemon started meanwhile, may *)
(* pass over lines silently.                                               *)
NothingSkipped ==
  /\ whole \subseteq Numbers(inbox) \cup cut \cup unheard
  /\ cut \cup (IF state.gen = gen THEN Numbers(Below(state.offset)) ELSE {})
       \subseteq handed \cup announced \cup astray

Verified == {r.id : r \in {x \in acked : x.op = "reverify"}}

(* A candidate is remembered once, although the gap scan acts on it before  *)
(* the offset is written and a killed daemon's successor reads it again     *)
(* (replay_pending_candidates, ingest_candidate).                           *)
RememberedOnce ==
  \A m, n \in {e \in Living : e.id \in minted \ Verified} :
    m.says.fact = n.says.fact /\ DOMAIN m.says.pins = DOMAIN n.says.pins => m = n
=============================================================================
