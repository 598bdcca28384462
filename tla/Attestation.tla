---------------------------- MODULE Attestation ----------------------------
(* The writers of attest.jsonl (cli/src/attest/, the stale marker of       *)
(* daemon.rs): derive, run, verify, coverage, review and manual-declare    *)
(* read the log without a lock, take their time over tests or a human, and *)
(* append under attest.lock; the daemon appends notes of writes; the user  *)
(* edits and commits meanwhile.                                            *)
(*                                                                         *)
(* A commit is its content: the tests in it and the version of the file    *)
(* under test. attest_stale is on, the coverage map parses, and its path   *)
(* is the configured one.                                                  *)
EXTENDS AttestLog, Sequences, FiniteSets, FiniteSetsExt, SequencesExt

CONSTANTS
  Procs,          \* running commands
  Daemon,
  Bodies,         \* what a test function can hold
  Versions,       \* what the file under test can hold
  HashOf(_),      \* hash_test_fn of a body, None where it fails
  Results(_, _),  \* what a body can report over a version
  TargetOf(_),    \* the cargo target of a test
  Measured(_),    \* the files that a run of the test executes
  OverStale(_),   \* the coarse scope of a target that may spawn a binary
  Bounds          \* how often what may happen: one record per exploration

Writers == Procs \cup {Daemon}
Files == {"src", "tests"}
Outcomes == {"passed", "failed", "invalid"}
MaxRuns == 3
Contents == [tests : [Tests -> Bodies \cup {None}], src : Versions]

ASSUME AttestationAssumption ==
  /\ Daemon \notin Procs /\ None \notin Bodies \cup Writers \cup Versions
  /\ \A b \in Bodies : HashOf(b) \in Hashes \cup {None}
  /\ \A b \in Bodies, v \in Versions : Results(b, v) \in (SUBSET Outcomes) \ {{}}
  /\ \A t \in Tests : Measured(t) \cup OverStale(TargetOf(t)) \subseteq Files
  /\ \A b \in Bounds : /\ {"tests", "versions", "crates"} \subseteq DOMAIN b
                       /\ b.tests \subseteq [Tests -> Bodies \cup {None}] /\ b.versions \subseteq Versions

VARIABLES
  tree,        \* the working tree
  head,        \* the commit at HEAD
  covmap,      \* attest-coverage.json: the files whose writes stale a claim
  pending,     \* the files of the burst that the daemon has not flushed
  proc,        \* what each process is about to do
  lock,        \* attest.lock
  verifyLock,  \* attest-verify.lock
  extract,     \* attest-target/extract, one directory for all replays
  left,        \* what may still happen
  due,         \* history: claims noted since a verdict last settled them
  basis        \* history: the last verdict that each claim took

system == <<tree, head, covmap, pending, proc, lock, verifyLock, extract, left, due, basis>>
vars == <<attestLog, system>>

Resting == [pc |-> "rest"]

Use(what) == left[what] > 0 /\ left' = [left EXCEPT ![what] = @ - 1]
Goes(p, next) == proc' = [proc EXCEPT ![p] = next]

-----------------------------------------------------------------------------
(* append_attest_locked. The lines of a batch reach the file in order, and *)
(* a reader, who takes no lock, may find only the first of them.  An       *)
(* append that is cut short within a line is left out: the file is opened  *)
(* without a look at its end, so that the next append would continue the   *)
(* torn line, and the fold would count both as one line that cannot be     *)
(* read.                                                                   *)

AppendsThen(batch, next) == IF batch = << >> THEN next
                            ELSE [pc |-> "append", batch |-> batch, next |-> next]

Settles(e) == e.kind = "verdict" /\ e.verdict \in {"confirmed", "claim-false"}

AppendLine(p) ==
  /\ proc[p].pc = "append" /\ lock \in {None, p}
  /\ LET e == Head(proc[p].batch)
         rest == Tail(proc[p].batch)
     IN  /\ AppendEvent(e)
         /\ lock' = IF rest = << >> THEN None ELSE p
         /\ Goes(p, IF rest = << >> THEN proc[p].next ELSE [proc[p] EXCEPT !.batch = rest])
         /\ due' = IF Settles(e) THEN due \ {e.claim} ELSE due
         /\ basis' = IF e.kind = "verdict" /\ ~ Refuted(e.claim)
                     THEN [basis EXCEPT ![e.claim] = e] ELSE basis
         /\ verifyLock' = IF e.kind = "verdict" /\ proc'[p].pc = "rest" THEN None ELSE verifyLock
  /\ UNCHANGED <<tree, head, covmap, pending, extract, left>>

-----------------------------------------------------------------------------
(* derivecmd.rs: discover_with_hashes over a crate, then the plan.         *)

Found(disc) == {t \in Tests : disc[t] # "absent"}

Discovered(crate) ==
  [t \in Tests |-> IF TargetOf(t) \in crate /\ tree.tests[t] # None
                   THEN HashOf(tree.tests[t]) ELSE "absent"]

(* Known identities of the enumerated targets that are no longer seen.     *)
Vanished(disc, h) ==
  {t \in Tests \ Found(disc) :
     /\ index[t] # None /\ claims[index[t]].hash = h
     /\ TargetOf(t) \in {TargetOf(u) : u \in Found(disc)}}

NewWith(disc, h) == {t \in Found(disc) : index[t] = None /\ disc[t] = h}

DeriveEvent(c, t, h, from) ==
  [kind |-> "derive", claim |-> c, test |-> t, hash |-> h, from |-> from]

(* A known identity whose hash is the one on file, or fails. *)
Unchanged(disc, t) == index[t] # None /\ disc[t] \in {None, claims[index[t]].hash}

(* plan_derives, one identity: a new hash, a rename when it is unambiguous *)
(* on both sides, or a fresh claim.                                        *)
Planned(disc, t) ==
  LET h == disc[t]
      donors == IF h = None THEN {} ELSE Vanished(disc, h)
  IN  IF index[t] # None THEN DeriveEvent(index[t], t, h, None)
      ELSE IF NewWith(disc, h) = {t} /\ Cardinality(donors) = 1
      THEN LET old == CHOOSE u \in donors : TRUE
           IN  DeriveEvent(index[old], t, h, old)
      ELSE DeriveEvent(None, t, h, None)

PlanDerives(disc) ==
  LET todo == SetToSeq({t \in Found(disc) : ~ Unchanged(disc, t)}) IN
    [i \in DOMAIN todo |-> Planned(disc, todo[i])]

Discover(p, crate) ==
  /\ proc[p] = Resting /\ Use("derives")
  /\ Found(Discovered(crate)) # {}
  /\ Goes(p, [pc |-> "plan", disc |-> Discovered(crate)])
  /\ UNCHANGED <<attestLog, tree, head, covmap, pending, lock, verifyLock, extract, due, basis>>

Plan(p) ==
  /\ proc[p].pc = "plan"
  /\ Goes(p, AppendsThen(PlanDerives(proc[p].disc), Resting))
  /\ UNCHANGED <<attestLog, tree, head, covmap, pending, lock, verifyLock, extract, left, due, basis>>

-----------------------------------------------------------------------------
(* capture.rs: the command runs, then write_evidence resolves the tests    *)
(* that it reported. A test that no derive knows is counted and skipped.   *)

RunTests(p) ==
  /\ proc[p] = Resting /\ Use("captures")
  /\ Goes(p, [pc |-> "ran", tests |-> {t \in Tests : tree.tests[t] # None}])
  /\ UNCHANGED <<attestLog, tree, head, covmap, pending, lock, verifyLock, extract, due, basis>>

EvidenceFor(S) ==
  LET known == SetToSeq({t \in S : index[t] # None}) IN
    [i \in DOMAIN known |-> [kind |-> "evidence", claim |-> index[known[i]], test |-> known[i]]]

WriteEvidence(p) ==
  /\ proc[p].pc = "ran"
  /\ Goes(p, AppendsThen(EvidenceFor(proc[p].tests), Resting))
  /\ UNCHANGED <<attestLog, tree, head, covmap, pending, lock, verifyLock, extract, left, due, basis>>

-----------------------------------------------------------------------------
(* replaycmd.rs: the tree must be clean; then HEAD, then the selection,    *)
(* and only then the lock under which everything is replayed.              *)

StartVerify(p, ids) ==
  /\ proc[p] = Resting /\ Use("verifies")
  /\ tree = head
  /\ Goes(p, [pc |-> "select", commit |-> head, ids |-> ids])
  /\ UNCHANGED <<attestLog, tree, head, covmap, pending, lock, verifyLock, extract, due, basis>>

AllStale == {}  \* --all-stale names no claim

Wanted(ids) ==
  {c \in Seen : claims[c].test # None /\ IF ids = AllStale THEN Stale(c) ELSE c \in ids}

Select(p) ==
  /\ proc[p].pc = "select"
  /\ LET todo == InOrder(Wanted(proc[p].ids)) IN
       Goes(p, IF todo = << >> THEN Resting
               ELSE [ pc |-> "wait", commit |-> proc[p].commit,
                      todo |-> [i \in DOMAIN todo |-> [claim |-> todo[i], test |-> claims[todo[i]].test]] ])
  /\ UNCHANGED <<attestLog, tree, head, covmap, pending, lock, verifyLock, extract, left, due, basis>>

ExtractAtOnce(p) ==  \* mutant: the directory is not held
  /\ proc[p].pc = "wait"
  /\ extract' = proc[p].commit
  /\ Goes(p, [ pc |-> "replay", commit |-> proc[p].commit, todo |-> proc[p].todo,
               fails |-> 0, ran |-> {} ])
  /\ UNCHANGED <<attestLog, tree, head, covmap, pending, lock, verifyLock, left, due, basis>>

(* extract_commit, under attest-verify.lock. *)
Extract(p) ==
  /\ proc[p].pc = "wait" /\ verifyLock = None
  /\ verifyLock' = p
  /\ extract' = proc[p].commit
  /\ Goes(p, [ pc |-> "replay", commit |-> proc[p].commit, todo |-> proc[p].todo,
               fails |-> 0, ran |-> {} ])
  /\ UNCHANGED <<attestLog, tree, head, covmap, pending, lock, left, due, basis>>

(* What one run in the extract can report of a test. *)
Reports(t) ==
  IF extract.tests[t] = None THEN {"invalid"} ELSE Results(extract.tests[t], extract.src)

(* decide and reconcile: the verdict of a run after so many failed ones,   *)
(* "retry" when there is none yet.                                         *)
Decided(r, fails) ==
  CASE r = "invalid" -> "recipe-invalid"
    [] r = "passed" -> IF fails > 0 THEN "flaky" ELSE "confirmed"
    [] r = "failed" -> IF fails + 1 >= MaxRuns THEN "claim-false" ELSE "retry"

ReplayRun(p) ==
  /\ proc[p].pc = "replay"
  /\ LET s == proc[p]
         it == Head(s.todo)
     IN  \E r \in Reports(it.test) :
           LET ran == s.ran \cup {extract}
               verdict == Decided(r, s.fails)
               event == [ kind |-> "verdict", claim |-> it.claim, test |-> it.test,
                          verdict |-> verdict, commit |-> s.commit, ran |-> ran, last |-> r,
                          fails |-> s.fails + (IF r = "failed" THEN 1 ELSE 0) ]
               next == IF Tail(s.todo) = << >> THEN Resting
                       ELSE [s EXCEPT !.todo = Tail(@), !.fails = 0, !.ran = {}]
           IN  Goes(p, IF verdict = "retry" THEN [s EXCEPT !.fails = @ + 1, !.ran = ran]
                       ELSE AppendsThen(<< event >>, next))
  /\ UNCHANGED <<attestLog, tree, head, covmap, pending, lock, verifyLock, extract, left, due, basis>>

-----------------------------------------------------------------------------
(* reviewcmd.rs: the cards are drawn once, each answer is appended at      *)
(* once. manualcmd.rs.                                                     *)

StartReview(p) ==
  /\ proc[p] = Resting /\ Use("reviews")
  /\ LET cards == InOrder({c \in Seen : NeedsAHuman(claims[c])}) IN
       /\ cards # << >>
       /\ Goes(p, [pc |-> "review", cards |-> cards])
  /\ UNCHANGED <<attestLog, tree, head, covmap, pending, lock, verifyLock, extract, due, basis>>

Answer(p, a) ==
  /\ proc[p].pc = "review"
  /\ LET rest == Tail(proc[p].cards) IN
       Goes(p, AppendsThen(<< [kind |-> "human", claim |-> Head(proc[p].cards), answer |-> a] >>,
                           IF rest = << >> THEN Resting ELSE [pc |-> "review", cards |-> rest]))
  /\ UNCHANGED <<attestLog, tree, head, covmap, pending, lock, verifyLock, extract, left, due, basis>>

ManualDeclare(p, severity) ==
  /\ proc[p] = Resting /\ Use("declares")
  /\ Goes(p, AppendsThen(<< [kind |-> "declare", claim |-> None, severity |-> severity] >>, Resting))
  /\ UNCHANGED <<attestLog, tree, head, covmap, pending, lock, verifyLock, extract, due, basis>>

-----------------------------------------------------------------------------
(* coveragecmd.rs: which claims is read from the log first, and the whole  *)
(* map is written in the end. A target that the crate does not build is    *)
(* skipped; a test that is gone executes nothing.                          *)

StartCoverage(p, ids, crate) ==
  /\ proc[p] = Resting /\ Use("coverages")
  /\ LET wanted == {t \in Tests : index[t] \in ids} IN
       /\ wanted # {}
       /\ Goes(p, [ pc |-> "measure",
            map |-> [c \in Claims |->
              UNION {(IF tree.tests[t] = None THEN {} ELSE Measured(t)) \cup OverStale(TargetOf(t)) :
                       t \in {u \in wanted : index[u] = c /\ TargetOf(u) \in crate}}] ])
  /\ UNCHANGED <<attestLog, tree, head, covmap, pending, lock, verifyLock, extract, due, basis>>

WriteMap(p) ==
  /\ proc[p].pc = "measure"
  /\ covmap' = proc[p].map
  /\ Goes(p, Resting)
  /\ UNCHANGED <<attestLog, tree, head, pending, lock, verifyLock, extract, left, due, basis>>

-----------------------------------------------------------------------------
(* AttestStaleMarker of the daemon: one note per claim that the burst      *)
(* touches, by the map as it is on disk now. The thread appends before it  *)
(* goes on.                                                                *)

TouchedBy(files) == {c \in Claims : covmap[c] \cap files # {}}

NotesOf(files) ==
  LET touched == InOrder(TouchedBy(files)) IN
    [i \in DOMAIN touched |-> [kind |-> "stale", claim |-> touched[i]]]

Flush ==
  /\ proc[Daemon] = Resting /\ pending # {}
  /\ Goes(Daemon, AppendsThen(NotesOf(pending), Resting))
  /\ due' = due \cup {c \in TouchedBy(pending) : ~ Refuted(c)}
  /\ pending' = {}
  /\ UNCHANGED <<attestLog, tree, head, covmap, lock, verifyLock, extract, left, basis>>

(* What a killed daemon had not yet noted is never noted. *)
KillDaemon ==
  /\ Use("kills")
  /\ Goes(Daemon, Resting)
  /\ due' = IF proc[Daemon] = Resting THEN due
            ELSE due \ {e.claim : e \in Range(proc[Daemon].batch)}
  /\ pending' = {}
  /\ lock' = IF lock = Daemon THEN None ELSE lock
  /\ UNCHANGED <<attestLog, tree, head, covmap, verifyLock, extract, basis>>

(* A command that is killed, or whose adapter reports an error. *)
KillCommand(p) ==
  /\ proc[p] # Resting /\ Use("kills")
  /\ Goes(p, Resting)
  /\ lock' = IF lock = p THEN None ELSE lock
  /\ verifyLock' = IF verifyLock = p THEN None ELSE verifyLock
  /\ UNCHANGED <<attestLog, tree, head, covmap, pending, extract, due, basis>>

-----------------------------------------------------------------------------
(* The user. *)

EditSource(v) ==
  /\ Use("edits") /\ v # tree.src
  /\ tree' = [tree EXCEPT !.src = v]
  /\ pending' = pending \cup {"src"}
  /\ UNCHANGED <<attestLog, head, covmap, proc, lock, verifyLock, extract, due, basis>>

EditTests(tests) ==
  /\ Use("refactors") /\ tests # tree.tests
  /\ tree' = [tree EXCEPT !.tests = tests]
  /\ pending' = pending \cup {"tests"}
  /\ UNCHANGED <<attestLog, head, covmap, proc, lock, verifyLock, extract, due, basis>>

Commit ==
  /\ head # tree /\ head' = tree
  /\ UNCHANGED <<attestLog, tree, covmap, pending, proc, lock, verifyLock, extract, left, due, basis>>

-----------------------------------------------------------------------------

Init ==
  /\ EmptyLog
  /\ left \in Bounds
  /\ tree \in [tests : left.tests, src : left.versions]
  /\ head = tree
  /\ covmap = [c \in Claims |-> {}]
  /\ pending = {}
  /\ proc = [p \in Writers |-> Resting]
  /\ lock = None /\ verifyLock = None
  /\ extract = tree
  /\ due = {}
  /\ basis = [c \in Claims |-> None]

Command(p) ==
  \/ \E crate \in left.crates : Discover(p, crate)
  \/ Plan(p)
  \/ RunTests(p)
  \/ WriteEvidence(p)
  \/ \E ids \in {{c} : c \in Claims} \cup {AllStale} : StartVerify(p, ids)
  \/ Select(p)
  \/ Extract(p)
  \/ ReplayRun(p)
  \/ StartReview(p)
  \/ \E a \in Answers : Answer(p, a)
  \/ \E severity \in Severities : ManualDeclare(p, severity)
  \/ \E ids \in {{c} : c \in Claims} \cup {Claims}, crate \in left.crates : StartCoverage(p, ids, crate)
  \/ WriteMap(p)
  \/ KillCommand(p)

Next ==
  \/ \E p \in Procs : Command(p)
  \/ \E p \in Writers : AppendLine(p)
  \/ Flush
  \/ KillDaemon
  \/ \E v \in left.versions : EditSource(v)
  \/ \E tests \in left.tests : EditTests(tests)
  \/ Commit

Spec == Init /\ [][Next]_vars
-----------------------------------------------------------------------------

(* A refuted claim stays refuted and out of the queue of stale claims,     *)
(* whatever is derived, run, noted, answered or replayed later, and as     *)
(* long as it is there no gate passes.                                     *)
RefutedForever ==
  [][\A c \in Claims : Refuted(c) => Refuted(c)' /\ ~ Stale(c)' /\ ~ GatePasses']_vars

(* Once the daemon has flushed a write that touches a claim, by the map    *)
(* that was on disk then, the claim is stale or its note is on the way     *)
(* until a verdict confirms or refutes it: no capture, no derive, no       *)
(* inconclusive replay and no new map makes it look verified.              *)
NotesKept ==
  \A c \in due :
    \/ Stale(c)
    \/ proc[Daemon] # Resting /\ \E e \in Range(proc[Daemon].batch) : e.claim = c

(* A verdict speaks of the commit it names: all its runs ran in an extract *)
(* of that commit although the directory is shared, the claim's test was   *)
(* in it, a confirmation took no failed run and a refutation took three.   *)
VerdictEarned ==
  \A c \in Claims : basis[c] # None =>
    /\ basis[c].ran = {basis[c].commit}
    /\ basis[c].verdict = "confirmed" => basis[c].fails = 0
    /\ basis[c].verdict = "claim-false" => basis[c].fails = MaxRuns
    /\ claims[c].status \in {"confirmed", "claim-false"} =>
         /\ claims[c].status = basis[c].verdict
         /\ basis[c].commit.tests[basis[c].test] # None

(* The index names for each identity the claim that carries it: no claim   *)
(* owns two tests, and none lends its history to a test it has left.       *)
IndexCurrent == \A t \in Tests : index[t] # None => claims[index[t]].test = t

(* A claim leaves the queue of stale claims only for a replay of what its  *)
(* file holds, once the daemon has seen every write. The code lets the     *)
(* verdict of an older commit drop a later note.                           *)
StaleUntilReplayed ==
  [][\A c \in Claims : Stale(c) /\ ~ Stale(c)' /\ pending = {} =>
       basis'[c].commit.src = tree.src]_vars

(* A test has one claim. Two derives at once give it two. *)
DerivedOnce ==
  \A c, d \in Claims : claims[c].test # None /\ claims[c].test = claims[d].test => c = d
=============================================================================
