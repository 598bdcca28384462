----------------------------- MODULE TurnEngine -----------------------------
(***************************************************************************)
(* The turn engine (agentrec-core/src/engine.rs): it segments a stream of  *)
(* file observations, git transitions and start / stop signals into        *)
(* turns.  The engine is pure, so every method is an operator from the     *)
(* engine's state (a record) to its next state and the turns it returns;   *)
(* EngineMachine and RecorderDaemon put these operators into actions.      *)
(*                                                                         *)
(* Abstractions.  The file list of a turn is a function from the touched   *)
(* paths to what is recorded of each (the list's order is not observable). *)
(* `before_hash` and `baseline_unknown` are one field, `before`; the       *)
(* booleans deleted / snapshotted / withheld are one field, `status`.      *)
(* Prompt and session ride along with `tool` and are not kept apart.       *)
(* `recent_bare` is a set: the code drains it sorted by opening time, and  *)
(* two bare turns never open at the same time.                             *)
(***************************************************************************)
EXTENDS Integers, Sequences

CONSTANTS
  QUIET_MS,        \* quiet window that closes unattributed activity
  GIT_SETTLE_MS,   \* settle window of a git turn
  FOLD_WINDOW_MS,  \* how far back a stop-only turn may fold bare turns
  MAX_BRACKET_MS,  \* safety net for a bracket without a stop
  None             \* the Rust None: no open turn, no tool, no time

ASSUME WindowsAssumption ==
  {QUIET_MS, GIT_SETTLE_MS, FOLD_WINDOW_MS, MAX_BRACKET_MS} \subseteq Nat

Git == "git"  \* the tool the engine itself writes on a git turn

Later(a, b) == IF a >= b THEN a ELSE b
Monus(a, b) == IF a >= b THEN a - b ELSE 0  \* u64::saturating_sub

(***************************************************************************)
(* Engine state.                                                           *)
(***************************************************************************)
NewEngine ==
  [ open       |-> None,   \* the one open turn
    lastChange |-> None,   \* time of the last observation of the open turn
    gitUntil   |-> 0,      \* end of the current git window
    recentBare |-> {},     \* bare turns still eligible for folding
    lastRich   |-> 0,      \* close time of the last stop-closed turn
    pending    |-> << >> ] \* turns closed by a git transition, for `tick`

OpenTurn(source, tool, now, id, emitterTurn) ==
  [ source |-> source, tool |-> tool, openedAt |-> now, files |-> << >>,
    id |-> id, emitterTurn |-> emitterTurn ]

HasOpen(e, source) == e.open # None /\ e.open.source = source

(* What an operation returns: the next state, the closed turns in order,   *)
(* and whether it reserved the id it was offered.                          *)
Result(e, closed, reserved) ==
  [ eng |-> e, closed |-> closed, reserved |-> reserved ]

(* `finish`: the record of a closed turn.  Its caller also takes the open  *)
(* turn and forgets the last change, which is TakeOpen.                    *)
Finish(o, at, boundary, grade, truncated) ==
  [ id |-> o.id, grade |-> grade, boundary |-> boundary,
    truncated |-> truncated, tool |-> o.tool, openedAt |-> o.openedAt,
    closedAt |-> Later(at, o.openedAt), files |-> o.files, merges |-> {} ]

TakeOpen(e) == [e EXCEPT !.open = None, !.lastChange = None]

(* How a turn closes when something else than its own stop ends it at `at`.*)
CloseOnOwnTerms(o, at) ==
  CASE o.source = "quiet"   -> Finish(o, at, "quiet", "bare", FALSE)
    [] o.source = "git"     -> Finish(o, at, "git", "rich", FALSE)
    [] o.source = "bracket" -> Finish(o, at, "timeout", "rich", TRUE)

(***************************************************************************)
(* fold_recent_bares: what a rich turn closing on a stop absorbs.          *)
(***************************************************************************)
EligibleByCloseOnly(turn, b, lastRich) ==  \* mutant: the missing pre-turn bound
  /\ b.closedAt >= Monus(turn.closedAt, FOLD_WINDOW_MS)
  /\ b.closedAt >= lastRich
  /\ turn.boundary = "bracket" => b.closedAt >= turn.openedAt

Eligible(turn, b, lastRich) ==
  LET cutoff == Monus(turn.closedAt, FOLD_WINDOW_MS) IN
  /\ b.closedAt >= cutoff
  /\ b.openedAt >= cutoff
  /\ b.closedAt >= lastRich
  /\ turn.boundary = "bracket" => b.closedAt >= turn.openedAt

(* The fragment whose `before` is the true original of path p.             *)
OldestFragment(frags, p) ==
  CHOOSE b \in frags :
    /\ p \in DOMAIN b.files
    /\ \A c \in frags : p \in DOMAIN c.files => b.openedAt <= c.openedAt

FoldedFiles(turn, frags) ==
  LET touched == UNION {DOMAIN b.files : b \in frags}
      oldest(p) == OldestFragment(frags, p).files[p]
  IN [ p \in DOMAIN turn.files \cup touched |->
         IF p \notin touched THEN turn.files[p]
         ELSE IF p \in DOMAIN turn.files
              THEN [turn.files[p] EXCEPT !.before = oldest(p).before]
              ELSE oldest(p) ]

Earliest(times) == CHOOSE t \in times : \A u \in times : t <= u

FoldRecentBares(turn, recent, lastRich) ==
  LET frags == {b \in recent : Eligible(turn, b, lastRich)}
  IN [ turn EXCEPT
         !.merges   = {b.id : b \in frags},
         !.openedAt = Earliest({turn.openedAt} \cup {b.openedAt : b \in frags}),
         !.files    = FoldedFiles(turn, frags) ]

(* Close `turn` on a stop at `now`: fold, then remember the rich close.    *)
CloseOnStop(e, turn, before, now, reserved) ==
  Result([TakeOpen(e) EXCEPT !.recentBare = {}, !.lastRich = now],
         Append(before, FoldRecentBares(turn, e.recentBare, e.lastRich)),
         reserved)

(***************************************************************************)
(* The methods.                                                            *)
(***************************************************************************)

GitWindowUnguarded(e, now) == now <= e.gitUntil  \* mutant: no guard at time 0

(* A git window is open.  `gitUntil` is 0 until the first transition.      *)
InGitWindow(e, now) == e.gitUntil > 0 /\ now <= e.gitUntil

(* The turn a change at `now` belongs to. *)
TurnOfChange(e, now, id) ==
  IF e.open # None THEN e.open
  ELSE IF InGitWindow(e, now) THEN OpenTurn("git", Git, now, id, None)
       ELSE OpenTurn("quiet", None, now, id, None)

ObserveChangesOverwrites(e, now, obs, id) ==  \* mutant: `before` is refreshed too
  IF obs = << >> THEN Result(e, << >>, FALSE) ELSE
  LET o == TurnOfChange(e, now, id)
      files == [ p \in DOMAIN o.files \cup DOMAIN obs |->
                   IF p \in DOMAIN obs THEN obs[p] ELSE o.files[p] ]
  IN Result([e EXCEPT !.open = [o EXCEPT !.files = files],
                      !.lastChange = now],
            << >>, e.open = None)

(* observe_changes: `obs` maps each path of the batch to what the recorder *)
(* staged.  The first observation of a path fixes its `before`; a later    *)
(* one refreshes only the status -- not the skip reason.                   *)
ObserveChanges(e, now, obs, id) ==
  IF obs = << >> THEN Result(e, << >>, FALSE) ELSE
  LET o == TurnOfChange(e, now, id)
      files == [ p \in DOMAIN o.files \cup DOMAIN obs |->
                   IF p \notin DOMAIN o.files THEN obs[p]
                   ELSE IF p \in DOMAIN obs
                        THEN [o.files[p] EXCEPT !.status = obs[p].status]
                        ELSE o.files[p] ]
  IN Result([e EXCEPT !.open = [o EXCEPT !.files = files],
                      !.lastChange = now],
            << >>, e.open = None)

LastActivity(e) == IF e.lastChange # None THEN e.lastChange ELSE e.open.openedAt

SetAsideForFoldOnly(e, turn) ==  \* mutant: the turn is never returned
  [TakeOpen(e) EXCEPT !.recentBare = @ \cup {turn}]

SetAside(e, turn) ==
  [TakeOpen(e) EXCEPT !.recentBare = @ \cup {turn},
                      !.pending = Append(@, turn)]

(* observe_git_change: a young quiet turn becomes the git turn; an old one *)
(* closes bare at its last mutation and waits in `pending` for the tick.   *)
ObserveGitChange(e, now) ==
  LET w == [e EXCEPT !.gitUntil = now + GIT_SETTLE_MS]
  IN IF ~HasOpen(e, "quiet") THEN w
     ELSE IF Monus(now, e.open.openedAt) <= GIT_SETTLE_MS + QUIET_MS
          THEN [w EXCEPT !.open.source = "git", !.open.tool = Git]
          ELSE SetAside(w, CloseOnOwnTerms(e.open, LastActivity(e)))

(* observe_start: close whatever is open, open the bracket. *)
ObserveStart(e, now, tool, emitterTurn, id) ==
  Result([TakeOpen(e) EXCEPT
            !.open = OpenTurn("bracket", tool, now, id, emitterTurn)],
         IF e.open = None THEN << >> ELSE <<CloseOnOwnTerms(e.open, now)>>,
         TRUE)

(* stop_mismatches_open_bracket: both sides name an emitter turn, and they *)
(* differ.                                                                 *)
StopMismatchesOpenBracket(e, tool, emitterTurn) ==
  /\ HasOpen(e, "bracket")
  /\ e.open.tool = tool
  /\ e.open.emitterTurn # None /\ emitterTurn # None
  /\ e.open.emitterTurn # emitterTurn

(* observe_stop: close the tool's own bracket; or convert the open quiet   *)
(* turn, when it is not older than the fold window; or close what is open  *)
(* and record a turn that may hold nothing but folded bare turns.          *)
ObserveStop(e, now, tool, id) ==
  LET ownBracket == HasOpen(e, "bracket") /\ e.open.tool = tool
      convertible == /\ HasOpen(e, "quiet")
                     /\ Monus(now, e.open.openedAt) <= FOLD_WINDOW_MS
      stopOnly == Finish(OpenTurn("quiet", tool, now, id, None),
                         now, "stop-only", "rich", FALSE)
  IN IF ownBracket
     THEN CloseOnStop(e, Finish(e.open, now, "bracket", "rich", FALSE),
                      << >>, now, FALSE)
     ELSE IF convertible
     THEN CloseOnStop(e, [Finish(e.open, now, "stop-only", "rich", FALSE)
                            EXCEPT !.tool = tool],
                      << >>, now, FALSE)
     ELSE CloseOnStop(e, stopOnly,
                      IF e.open = None THEN << >>
                      ELSE <<CloseOnOwnTerms(e.open, now)>>,
                      now, TRUE)

ElapsedNoSafetyNet(e, now) ==  \* mutant: no crash rule for brackets
  CASE e.open.source = "quiet"   -> Monus(now, LastActivity(e)) > QUIET_MS
    [] e.open.source = "git"     -> Monus(now, LastActivity(e)) > GIT_SETTLE_MS
    [] e.open.source = "bracket" -> FALSE

(* The open turn's own window has elapsed; a bracket has no quiet window.  *)
Elapsed(e, now) ==
  CASE e.open.source = "quiet"   -> Monus(now, LastActivity(e)) > QUIET_MS
    [] e.open.source = "git"     -> Monus(now, LastActivity(e)) > GIT_SETTLE_MS
    [] e.open.source = "bracket" -> Monus(now, e.open.openedAt) > MAX_BRACKET_MS

StillRecent(recent, now) ==
  {b \in recent : Monus(now, b.closedAt) <= FOLD_WINDOW_MS}

PruneOnly(e, now) ==  \* mutant: `pending` is cloned, not taken
  [e EXCEPT !.recentBare = StillRecent(@, now)]

(* What tick does first: forget old fold candidates, take `pending`.       *)
Prune(e, now) == [e EXCEPT !.recentBare = StillRecent(@, now), !.pending = << >>]

(* tick: return what a git transition closed, and close the open turn when *)
(* its window has elapsed (a bracket at its last mutation, C5).            *)
Tick(e, now) ==
  LET p == Prune(e, now)
      turn == CloseOnOwnTerms(e.open, IF e.open.source = "bracket"
                                      THEN LastActivity(e) ELSE now)
      bares == p.recentBare
                 \cup (IF turn.grade = "bare" THEN {turn} ELSE {})
  IN IF e.open # None /\ Elapsed(e, now)
     THEN Result([TakeOpen(p) EXCEPT !.recentBare = bares],
                 Append(e.pending, turn), FALSE)
     ELSE Result(p, e.pending, FALSE)

(* force_close: clean shutdown.  What is in `pending` is left there.       *)
ForceClose(e, now) ==
  IF e.open = None THEN Result(e, << >>, FALSE)
  ELSE Result(TakeOpen(e), <<CloseOnOwnTerms(e.open, now)>>, FALSE)

=============================================================================
