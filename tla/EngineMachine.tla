---------------------------- MODULE EngineMachine ----------------------------
(***************************************************************************)
(* The turn engine as a state machine: its owner (the daemon) calls the    *)
(* methods of TurnEngine in any order, at the times of a monotonic         *)
(* millisecond clock, and keeps every turn they return.                    *)
(*                                                                         *)
(* `log`, `starts` and `gits` are history -- what was observed and under   *)
(* which turn, and when the signals came -- that only the properties read. *)
(***************************************************************************)
EXTENDS TurnEngine, FiniteSets, Functions

CONSTANTS
  Paths,        \* files of the watched root
  Statuses,     \* what staging can make of a file
  Tools,        \* agent tools that emit signals
  EmitterTurns, \* turn numbers an emitter may put in its signals
  MaxTime,      \* bound on the clock
  ActiveUntil,  \* bound: no activity and no signal after this time
  MaxBatches,   \* bound on the observed batches
  MaxIds,       \* bound on the turn ids reserved
  MaxGits,      \* bound on the git transitions
  MaxStarts,    \* bound on the start signals
  MaxStops      \* bound on the stop signals

ASSUME BoundsAssumption ==
  /\ {MaxTime, ActiveUntil, MaxBatches, MaxIds, MaxGits,
       MaxStarts, MaxStops} \subseteq Nat
  /\ Statuses \subseteq {"captured", "deleted", "skipped"}
  /\ Git \notin Tools \cup {None} /\ None \notin Tools \cup EmitterTurns

VARIABLES
  eng,     \* the engine
  now,     \* the clock
  closed,  \* the turns returned, in order
  nextId,  \* ids are reserved in order: 1, 2, ...
  stamp,   \* number of observed batches
  running, \* FALSE after the clean shutdown
  log,     \* history: the observations
  starts,  \* history: ids of the brackets and the times of their starts
  gits     \* history: times of the git transitions

vars == <<eng, now, closed, nextId, stamp, running, log, starts, gits>>

(* What `Recorder::stage` reports of a path in the n-th batch: the content *)
(* it had before (n itself, so that no two batches report the same one),   *)
(* what became of it, and why it was skipped if it was.                    *)
Observation(n, status) ==
  [ before |-> n, status |-> status,
    reason |-> IF status = "skipped" THEN "over_cap" ELSE None ]

Init ==
  /\ eng = NewEngine /\ now = 0 /\ closed = << >> /\ nextId = 1
  /\ stamp = 0 /\ running = TRUE
  /\ log = {} /\ starts = {} /\ gits = {}

(* Take the result of a method that returns turns. *)
Apply(r) ==
  /\ eng' = r.eng
  /\ closed' = closed \o r.closed
  /\ nextId' = IF r.reserved THEN nextId + 1 ELSE nextId

Active == running /\ now <= ActiveUntil

Advance ==
  /\ now < MaxTime
  /\ now' = now + 1
  /\ UNCHANGED <<eng, closed, nextId, stamp, running, log, starts, gits>>

(* A debounced burst of file events is flushed. *)
Changes(P, status) ==
  LET obs == [p \in P |-> Observation(stamp + 1, status[p])]
      r == ObserveChanges(eng, now, obs, nextId)
  IN /\ Active /\ stamp < MaxBatches /\ nextId <= MaxIds
     /\ Apply(r)
     /\ stamp' = stamp + 1
     /\ log' = log \cup {[path |-> p, at |-> now, turn |-> r.eng.open.id,
                          stamp |-> stamp + 1, status |-> status[p]] : p \in P}
     /\ UNCHANGED <<now, running, starts, gits>>

GitChange ==
  /\ Active /\ Cardinality(gits) < MaxGits
  /\ eng' = ObserveGitChange(eng, now)
  /\ gits' = gits \cup {now}
  /\ UNCHANGED <<now, closed, nextId, stamp, running, log, starts>>

Start(tool, k) ==
  /\ Active /\ nextId <= MaxIds /\ Cardinality(starts) < MaxStarts
  /\ Apply(ObserveStart(eng, now, tool, k, nextId))
  /\ starts' = starts \cup {[id |-> nextId, at |-> now]}
  /\ UNCHANGED <<now, stamp, running, log, gits>>

Stops == {i \in DOMAIN closed : closed[i].boundary \in {"bracket", "stop-only"}}

(* The daemon drops a stop that names another emitter turn than the open   *)
(* bracket's; every other stop reaches the engine.                         *)
Stop(tool, k) ==
  /\ Active /\ nextId <= MaxIds /\ Cardinality(Stops) < MaxStops
  /\ ~StopMismatchesOpenBracket(eng, tool, k)
  /\ Apply(ObserveStop(eng, now, tool, nextId))
  /\ UNCHANGED <<now, stamp, running, log, starts, gits>>

TickNow ==
  /\ running
  /\ Apply(Tick(eng, now))
  /\ UNCHANGED <<now, stamp, running, log, starts, gits>>

(* The daemon leaves its loop right after a tick, so nothing is pending.   *)
Shutdown ==
  /\ running /\ eng.pending = << >>
  /\ running' = FALSE
  /\ Apply(ForceClose(eng, now))
  /\ UNCHANGED <<now, stamp, log, starts, gits>>

Next ==
  \/ Advance
  \/ \E P \in (SUBSET Paths) \ {{}} : \E s \in [P -> Statuses] : Changes(P, s)
  \/ GitChange
  \/ \E tool \in Tools, k \in EmitterTurns \cup {None} : Start(tool, k)
  \/ \E tool \in Tools, k \in EmitterTurns \cup {None} : Stop(tool, k)
  \/ TickNow
  \/ Shutdown

Spec == Init /\ [][Next]_vars

(* The daemon's loop wakes at least every POLL (250 ms) and always ends in *)
(* a tick, and time passes whatever the program does.                      *)
LiveSpec == Spec /\ WF_vars(Advance) /\ WF_vars(TickNow)

-----------------------------------------------------------------------------
(* Types. *)

Times == 0 .. MaxTime
Ids == 1 .. MaxIds
FileRecords ==
  [ before : 1 .. MaxBatches, status : Statuses, reason : {"over_cap", None} ]
FileMaps == UNION {[P -> FileRecords] : P \in SUBSET Paths}

OpenTurns ==
  [ source : {"quiet", "git", "bracket"}, tool : Tools \cup {Git, None},
    openedAt : Nat, files : FileMaps, id : Ids,
    emitterTurn : EmitterTurns \cup {None} ]

ASSUME NoneAssumption == None \notin OpenTurns  \* an open turn is not no turn

ClosedTurns ==
  [ id : Ids, grade : {"rich", "bare"},
    boundary : {"quiet", "git", "timeout", "bracket", "stop-only"},
    truncated : BOOLEAN, tool : Tools \cup {Git, None}, openedAt : Nat,
    closedAt : Nat, files : FileMaps, merges : SUBSET Ids ]

Engines ==
  [ open : OpenTurns \cup {None}, lastChange : Nat \cup {None},
    gitUntil : Nat, recentBare : SUBSET ClosedTurns, lastRich : Nat,
    pending : Seq(ClosedTurns) ]

(* Every part of the engine and of its owner has its type. *)
TypeOK ==
  /\ eng \in Engines
  /\ now \in Times /\ nextId \in 1 .. MaxIds + 1
  /\ stamp \in 0 .. MaxBatches /\ running \in BOOLEAN
  /\ closed \in Seq(ClosedTurns)

-----------------------------------------------------------------------------
(* Safety. *)

Returned == Range(closed)
AllClosed == Returned \cup Range(eng.pending)
Family(t) == {t.id} \cup t.merges
ObservedBy(ids, p) == {l \in log : l.turn \in ids /\ l.path = p}
First(obs) == CHOOSE l \in obs : \A m \in obs : l.stamp <= m.stamp
Last(obs) == CHOOSE l \in obs : \A m \in obs : l.stamp >= m.stamp

(* No observation is lost or counted twice: it is in the open turn or in   *)
(* exactly one closed turn, the one it was observed under, however turns   *)
(* are converted, folded or set aside by a git transition.                 *)
NothingLost ==
  \A l \in log :
    LET holders == {t \in AllClosed : t.id = l.turn}
    IN IF eng.open # None /\ eng.open.id = l.turn
       THEN holders = {} /\ l.path \in DOMAIN eng.open.files
       ELSE /\ Cardinality(holders) = 1
            /\ \A t \in holders : l.path \in DOMAIN t.files

(* The ids under which turns are logged are unique: observe_git_change and *)
(* tick never both return a turn, and no turn is returned a second time.   *)
IdsUnique ==
  LET all == closed \o eng.pending
  IN \A i, j \in DOMAIN all : all[i].id = all[j].id => i = j

(* `before` is the content of the first observation of the path in the     *)
(* whole family of a turn -- itself and what it folded (C3, C4) -- and a   *)
(* turn that folded nothing says of each path what the last observation    *)
(* said.                                                                   *)
FilesMatchObservations ==
  \A t \in AllClosed : \A p \in DOMAIN t.files :
    LET obs == ObservedBy(Family(t), p)
    IN /\ obs # {}
       /\ t.files[p].before = First(obs).stamp
       /\ t.merges = {} => t.files[p].status = Last(obs).status

(* Fabricated attribution: a tool is never given work that is older than   *)
(* the fold window, work that precedes the start of its bracket, or a      *)
(* fragment that had closed before its bracket started (C1, item 1).       *)
NoFabricatedAttribution ==
  \A t \in AllClosed :
    /\ t.boundary = "stop-only" =>
         \A l \in log :
           l.turn \in Family(t) => l.at >= Monus(t.closedAt, FOLD_WINDOW_MS)
    /\ t.boundary = "bracket" =>
         \A s \in starts : s.id = t.id =>
           /\ \A l \in log : l.turn = t.id => l.at >= s.at
           /\ \A b \in AllClosed : b.id \in t.merges => b.closedAt >= s.at

(* A turn is attributed to git only when a ref transition happened within  *)
(* the settle window before it opened, or soon enough after (C2).          *)
GitNearTransition ==
  \A t \in AllClosed :
    t.tool = Git =>
      \E g \in gits :
        /\ g <= t.openedAt + GIT_SETTLE_MS + QUIET_MS
        /\ t.openedAt <= g + GIT_SETTLE_MS

-----------------------------------------------------------------------------
(* Liveness: what was observed is eventually returned in a closed turn,    *)
(* also when it was set aside by a git transition.                         *)
EventuallyReturned ==
  \A id \in Ids :
    (\E l \in log : l.turn = id) ~> (\E t \in Returned : t.id = id)

=============================================================================
