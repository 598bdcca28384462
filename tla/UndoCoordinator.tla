--------------------------- MODULE UndoCoordinator ---------------------------
(***************************************************************************)
(* Agent-driven undo: undo_coordinator.rs (agentrec-core), with the two    *)
(* callers that write, approvecmd.rs and the execute arm of mcpcmd.rs, and *)
(* `undo --confirm` of readcmds.rs, which takes no lock.  Several          *)
(* processes work on one repository: MCP servers that preview and execute  *)
(* (auto mode) or request (confirm mode), a human who approves, denies or  *)
(* undoes on the command line, and an editor that ignores them all.        *)
(*                                                                         *)
(* undo.lock is an OS file lock: taken blocking, released when its holder  *)
(* dies.  Taking it is merged with the first step under it, which only     *)
(* reads what lock holders write.  One turn is undone; each of its files   *)
(* holds its content "before" the turn, "after" it, or some "other" one.   *)
(***************************************************************************)
EXTENDS Integers, Sequences, FiniteSets, TLC, Functions

CONSTANTS
  Procs,       \* the processes
  Paths,       \* the files of the turn
  TOKEN_TTL,   \* how long a reservation holds its paths
  REQUEST_TTL, \* how long a request can be approved
  GUARD_TTL,   \* the deadline of the undo guard
  LINGER,      \* how long a finished undo keeps its guard
  None,
  Instances,   \* what the processes do, see Begin, and over which files
  MaxTime,     \* bound on the clock
  MaxRows,     \* bound on the ledger within which operations begin
  MaxTurns,    \* bound on the undo turns, likewise
  MaxEdits,    \* bound on the edits, purges and failed writes
  MaxCrashes   \* bound on the crashes

Ids == 1 .. MaxRows + Cardinality(Procs)  \* of the grants, within the bounds

ASSUME BoundsAssumption ==
  /\ {GUARD_TTL, LINGER, MaxTime, MaxRows, MaxTurns, MaxEdits, MaxCrashes} \subseteq Nat
  /\ {TOKEN_TTL, REQUEST_TTL} \subseteq Nat \ {0}

ASSUME ProcsAssumption ==
  /\ IsFiniteSet(Procs) /\ None \notin Procs
  /\ None \notin [id : Ids, files : SUBSET Paths, once : BOOLEAN]

ASSUME InstancesAssumption == \A i \in Instances : i.paths \subseteq Paths

VARIABLES
  inst,    \* one of the instances
  ledger,  \* undo-requests.jsonl
  log,     \* log.jsonl: the undo turns
  guard,   \* the undo guard file: its deadline, or None
  work,    \* the working tree
  intact,  \* files whose `before` snapshot is readable in the store
  lock,    \* the holder of undo.lock, or None
  proc,    \* what each process is doing
  clock, edits, crashes,
  began,   \* history: grants (0: none), one entry per write phase begun
  touched  \* history: pairs of a grant (or 0) and a file written in its name

vars == <<inst, ledger, log, guard, work, intact, lock, proc, clock, edits, crashes,
          began, touched>>

Contents == {"before", "after", "other"}

-----------------------------------------------------------------------------
(* The ledger.                                                             *)

Reserving == {"reserve", "request"}
Terminal == {"deny", "expire", "execute", "fail"}

Row(event, id, paths, hashes, allow, expires) ==
  [ event |-> event, id |-> id, paths |-> paths, hashes |-> hashes,
    allow |-> allow, expires |-> expires ]

(* LedgerEvent::terminal, for the consume row too. *)
Resolution(event, r) == Row(event, r.id, r.paths, << >>, FALSE, r.expires)

Grants == {r \in Range(ledger) : r.event \in Reserving}
Grant(id) == CHOOSE r \in Grants : r.id = id
Events(id) == {r.event : r \in {x \in Range(ledger) : x.id = id}}
NewId == Cardinality(Grants) + 1

(* live_from_ledger: a consumed token and an approval still hold paths.    *)
Live(t) == {r \in Grants : Events(r.id) \cap Terminal = {} /\ r.expires > t}

(* state_from_events: by finality, not by order; the clock decides last.   *)
State(r) ==
  LET happened == Events(r.id) IN
  CASE "execute" \in happened -> "executed"
    [] "execute" \notin happened /\ "deny" \in happened -> "denied"
    [] happened \cap {"execute", "deny"} = {} /\ "fail" \in happened -> "failed"
    [] happened \cap {"execute", "deny", "fail"} = {}
         /\ ("expire" \in happened \/ r.expires <= clock) -> "expired"
    [] OTHER -> "pending"

Overlaps(P) == \E r \in Live(clock) : r.paths \cap P # {}

Append1(row) == ledger' = Append(ledger, row)

-----------------------------------------------------------------------------
(* Processes.                                                              *)

Idle == [ pc |-> "idle", grant |-> 0, paths |-> {}, allow |-> FALSE,
          todo |-> {}, done |-> {}, since |-> 0 ]

Become(p, state) == proc' = [proc EXCEPT ![p] = state]
Goto(p, pc) == proc' = [proc EXCEPT ![p].pc = pc]
At(p, pc) == proc[p].pc = pc
Free(p) == lock = None /\ At(p, "idle")
Unlock == lock' = None

(* build_plan, for one file: its snapshot can be read, and it still holds  *)
(* what the turn left, unless a modified file may be reverted.             *)
Executable(q, allow) == q \in intact /\ (work[q] = "after" \/ allow)
Plan(P, allow) == {q \in P : Executable(q, allow)}

Hashes(P) == [q \in P |-> work[q]]

(* Auto preview: the plan is made before the lock is taken.                *)
Preview(p, P) ==
  /\ At(p, "idle") /\ Plan(P, FALSE) # {}
  /\ Become(p, [Idle EXCEPT !.pc = "reserve", !.paths = Plan(P, FALSE)])
  /\ UNCHANGED <<ledger, log, guard, work, intact, lock, clock, edits, crashes,
                 began, touched>>

ReserveUnlocked(p) ==  \* mutant: the overlap check is made without the lock
  /\ At(p, "reserve")
  /\ IF Overlaps(proc[p].paths) THEN UNCHANGED ledger
     ELSE Append1(Row("reserve", NewId, proc[p].paths, Hashes(proc[p].paths),
                      FALSE, clock + TOKEN_TTL))
  /\ Become(p, Idle)
  /\ UNCHANGED <<log, guard, work, intact, lock, clock, edits, crashes,
                 began, touched>>

(* reserve: under the lock, refuse any overlap or append the reservation.  *)
Reserve(p) ==
  /\ At(p, "reserve") /\ lock = None
  /\ IF Overlaps(proc[p].paths) THEN UNCHANGED ledger
     ELSE Append1(Row("reserve", NewId, proc[p].paths, Hashes(proc[p].paths),
                      FALSE, clock + TOKEN_TTL))
  /\ Become(p, Idle)
  /\ UNCHANGED <<log, guard, work, intact, lock, clock, edits, crashes,
                 began, touched>>

(* request_human: the plan is made under the lock.                         *)
Request(p, P, allow) ==
  /\ Free(p) /\ Plan(P, allow) # {}
  /\ lock' = p
  /\ Become(p, [Idle EXCEPT !.pc = "request", !.paths = Plan(P, allow),
                            !.allow = allow])
  /\ UNCHANGED <<ledger, log, guard, work, intact, clock, edits, crashes,
                 began, touched>>

Lodge(p) ==
  /\ At(p, "request")
  /\ IF Overlaps(proc[p].paths) THEN UNCHANGED ledger
     ELSE Append1(Row("request", NewId, proc[p].paths, Hashes(proc[p].paths),
                      proc[p].allow, clock + REQUEST_TTL))
  /\ Unlock /\ Become(p, Idle)
  /\ UNCHANGED <<log, guard, work, intact, clock, edits, crashes, began, touched>>

(* claim_grant, its first half: any path that does not hold what it held   *)
(* when the grant was made fails the grant.                                *)
ClaimGrant(p, r) ==
  IF \E q \in r.paths : work[q] # r.hashes[q]
  THEN Append1(Resolution("fail", r)) /\ UNCHANGED <<lock, proc>>
  ELSE /\ lock' = p
       /\ Become(p, [Idle EXCEPT !.pc = "scope", !.grant = r.id,
                                 !.paths = r.paths, !.allow = r.allow])
       /\ UNCHANGED ledger

(* claim: an expired request gets its expire row, and is refused.          *)
Approve(p, r) ==
  /\ Free(p) /\ r.event = "request"
  /\ \/ State(r) = "pending" /\ ClaimGrant(p, r)
     \/ State(r) = "expired" /\ Append1(Resolution("expire", r))
                             /\ UNCHANGED <<lock, proc>>
  /\ UNCHANGED <<log, guard, work, intact, clock, edits, crashes, began, touched>>

(* claim_token: a spent, resolved or expired token is refused silently.    *)
Execute(p, r) ==
  /\ Free(p) /\ r.event = "reserve"
  /\ "consume" \notin Events(r.id) /\ r \in Live(clock)
  /\ ClaimGrant(p, r)
  /\ UNCHANGED <<log, guard, work, intact, clock, edits, crashes, began, touched>>

Deny(p, r) ==
  /\ Free(p) /\ r.event = "request"
  /\ \/ State(r) = "pending" /\ Append1(Resolution("deny", r))
     \/ State(r) = "expired" /\ Append1(Resolution("expire", r))
  /\ UNCHANGED <<log, guard, work, intact, lock, proc, clock, edits, crashes,
                 began, touched>>

ScopeUnchecked(p) ==  \* mutant: what is left of the grant is executed
  /\ At(p, "scope")
  /\ Become(p, [proc[p] EXCEPT
       !.pc = IF Grant(proc[p].grant).event = "reserve" THEN "guard" ELSE "recheck",
       !.paths = Plan(@, proc[p].allow)])
  /\ UNCHANGED <<ledger, log, guard, work, intact, lock, clock, edits, crashes,
                 began, touched>>

(* ... its second half: the executable files are still all those granted.  *)
Scope(p) ==
  /\ At(p, "scope")
  /\ LET r == Grant(proc[p].grant)
     IN IF Plan(r.paths, r.allow) = r.paths
        THEN /\ Goto(p, IF r.event = "reserve" THEN "guard" ELSE "recheck")
             /\ UNCHANGED <<ledger, lock>>
        ELSE /\ Append1(Resolution("fail", r))
             /\ Unlock /\ Become(p, Idle)
  /\ UNCHANGED <<log, guard, work, intact, clock, edits, crashes, began, touched>>

(* `undo --confirm`: a plan, and no lock.  What it selects is reverted.    *)
Undo(p, P, allow) ==
  /\ At(p, "idle") /\ Plan(P, allow) # {}
  /\ Become(p, [Idle EXCEPT !.pc = "recheck", !.paths = Plan(P, allow),
                            !.allow = allow])
  /\ UNCHANGED <<ledger, log, guard, work, intact, lock, clock, edits, crashes,
                 began, touched>>

-----------------------------------------------------------------------------
(* What follows is shared: execute_claim, and the same steps of `undo`.    *)

Locked(p) == lock = p
GuardLive == guard # None /\ guard > clock

(* live_undo_guard_reason refuses while another undo's guard is live.      *)
Refused(p) ==
  /\ GuardLive
  /\ IF Locked(p) THEN Unlock ELSE UNCHANGED lock
  /\ Become(p, Idle)
  /\ UNCHANGED ledger

CheckGuard(p) ==
  /\ At(p, "guard")
  /\ \/ Refused(p)
     \/ ~GuardLive /\ Goto(p, "consume") /\ UNCHANGED <<lock, ledger>>
  /\ UNCHANGED <<log, guard, work, intact, clock, edits, crashes, began, touched>>

NoConsume(p) ==  \* mutant: the token is only spent by the execute row
  /\ At(p, "consume")
  /\ Goto(p, "recheck")
  /\ UNCHANGED <<ledger, log, guard, work, intact, lock, clock, edits, crashes,
                 began, touched>>

(* consume_token: before the first write.                                  *)
Consume(p) ==
  /\ At(p, "consume")
  /\ Append1(Resolution("consume", Grant(proc[p].grant)))
  /\ Goto(p, "recheck")
  /\ UNCHANGED <<log, guard, work, intact, lock, clock, edits, crashes,
                 began, touched>>

RecheckGuard(p) ==
  /\ At(p, "recheck")
  /\ \/ Refused(p)
     \/ ~GuardLive /\ Goto(p, "arm") /\ UNCHANGED <<lock, ledger>>
  /\ UNCHANGED <<log, guard, work, intact, clock, edits, crashes, began, touched>>

WriteGuard(p) ==
  /\ At(p, "arm")
  /\ guard' = clock + GUARD_TTL
  /\ began' = Append(began, proc[p].grant)
  /\ Become(p, [proc[p] EXCEPT !.pc = "write", !.todo = proc[p].paths])
  /\ UNCHANGED <<ledger, log, work, intact, lock, clock, edits, crashes, touched>>

(* execute_revert of one file, when its snapshot can (still) be read.      *)
Revert(p, q) ==
  /\ At(p, "write") /\ q \in proc[p].todo /\ q \in intact
  /\ work' = [work EXCEPT ![q] = "before"]
  /\ touched' = touched \cup {<<proc[p].grant, q>>}
  /\ Become(p, [proc[p] EXCEPT !.todo = @ \ {q}, !.done = @ \cup {q}])
  /\ UNCHANGED <<ledger, log, guard, intact, lock, clock, edits, crashes, began>>

(* The first file that cannot be reverted ends the loop: its snapshot is   *)
(* gone, or the write fails, which may leave the file half written.        *)
RevertFails(p, q) ==
  /\ At(p, "write") /\ q \in proc[p].todo
  /\ \/ q \notin intact /\ UNCHANGED <<work, edits, touched>>
     \/ /\ edits < MaxEdits /\ edits' = edits + 1
        /\ \/ UNCHANGED <<work, touched>>
           \/ /\ work' = [work EXCEPT ![q] = "other"]
              /\ touched' = touched \cup {<<proc[p].grant, q>>}
  /\ Goto(p, "failed")
  /\ UNCHANGED <<ledger, log, guard, intact, lock, clock, crashes, began>>

UndoTurn(p, truncated) ==
  [grant |-> proc[p].grant, paths |-> proc[p].done, truncated |-> truncated]

(* On the failure path an append that fails is a warning, no more.         *)
WarnOnly == edits < MaxEdits /\ edits' = edits + 1

(* A partial revert is recorded as a truncated turn, then as a fail row.   *)
RecordPartial(p) ==
  /\ At(p, "failed")
  /\ \/ /\ log' = IF proc[p].done = {} THEN log ELSE Append(log, UndoTurn(p, TRUE))
        /\ UNCHANGED edits
     \/ proc[p].done # {} /\ WarnOnly /\ UNCHANGED log
  /\ Become(p, [proc[p] EXCEPT
       !.pc = IF proc[p].grant = 0 THEN "linger" ELSE "failrow", !.since = clock])
  /\ UNCHANGED <<ledger, guard, work, intact, lock, clock, crashes, began, touched>>

FailRow(p) ==
  /\ At(p, "failrow")
  /\ \/ Append1(Resolution("fail", Grant(proc[p].grant))) /\ UNCHANGED edits
     \/ WarnOnly /\ UNCHANGED ledger
  /\ Become(p, [proc[p] EXCEPT !.pc = "linger", !.since = clock])
  /\ UNCHANGED <<log, guard, work, intact, lock, clock, crashes, began, touched>>

AppendTurn(p) ==
  /\ At(p, "write") /\ proc[p].todo = {}
  /\ log' = Append(log, UndoTurn(p, FALSE))
  /\ Become(p, [proc[p] EXCEPT
       !.pc = IF proc[p].grant = 0 THEN "linger" ELSE "execrow", !.since = clock])
  /\ UNCHANGED <<ledger, guard, work, intact, lock, clock, edits, crashes,
                 began, touched>>

(* The terminal row is last; then the lock is released.                    *)
ExecuteRow(p) ==
  /\ At(p, "execrow")
  /\ Append1(Resolution("execute", Grant(proc[p].grant)))
  /\ Unlock
  /\ Become(p, [proc[p] EXCEPT !.pc = "linger", !.since = clock])
  /\ UNCHANGED <<log, guard, work, intact, clock, edits, crashes, began, touched>>

(* finish_undo_guard; after a failure the lock is held until here.         *)
RemoveGuard(p) ==
  /\ At(p, "linger") /\ clock >= proc[p].since + LINGER
  /\ guard' = None
  /\ IF Locked(p) THEN Unlock ELSE UNCHANGED lock
  /\ Become(p, Idle)
  /\ UNCHANGED <<ledger, log, work, intact, clock, edits, crashes, began, touched>>

-----------------------------------------------------------------------------
(* The rest of the world.                                                  *)

(* kill -9; also an append that fails (the process ends with an error and  *)
(* leaves everything as it is).                                            *)
Crash(p) ==
  /\ ~At(p, "idle") /\ crashes < MaxCrashes
  /\ crashes' = crashes + 1
  /\ IF Locked(p) THEN Unlock ELSE UNCHANGED lock
  /\ Become(p, Idle)
  /\ UNCHANGED <<ledger, log, guard, work, intact, clock, edits, began, touched>>

Edit(q, c) ==
  /\ edits < MaxEdits /\ work[q] # c
  /\ work' = [work EXCEPT ![q] = c] /\ edits' = edits + 1
  /\ UNCHANGED <<ledger, log, guard, intact, lock, proc, clock, crashes,
                 began, touched>>

(* purge, or damage: a snapshot can no longer be read.                     *)
Purge(q) ==
  /\ edits < MaxEdits /\ q \in intact
  /\ intact' = intact \ {q} /\ edits' = edits + 1
  /\ UNCHANGED <<ledger, log, guard, work, lock, proc, clock, crashes,
                 began, touched>>

Tick ==
  /\ clock < MaxTime
  /\ clock' = clock + 1
  /\ UNCHANGED <<ledger, log, guard, work, intact, lock, proc, edits, crashes,
                 began, touched>>

-----------------------------------------------------------------------------

Init ==
  /\ inst \in Instances
  /\ ledger = << >> /\ log = << >> /\ guard = None /\ lock = None
  /\ work \in [inst.paths -> {"after", "other"}] /\ intact = inst.paths
  /\ proc = [p \in Procs |-> Idle]
  /\ clock = 0 /\ edits = 0 /\ crashes = 0
  /\ began = << >> /\ touched = {}

Selections == (SUBSET inst.paths) \ {{}}

(* Operations begin within the bounds, and finish whatever they append.    *)
Begin(p) ==
  /\ Len(ledger) < MaxRows /\ Len(log) < MaxTurns
  /\ \/ "preview" \in inst.kinds /\ \E P \in Selections : Preview(p, P)
     \/ "request" \in inst.kinds /\ \E P \in Selections, a \in BOOLEAN : Request(p, P, a)
     \/ "approve" \in inst.kinds /\ \E r \in Grants : Approve(p, r)
     \/ "deny" \in inst.kinds /\ \E r \in Grants : Deny(p, r)
     \/ "execute" \in inst.kinds /\ \E r \in Grants : Execute(p, r)
     \/ "undo" \in inst.kinds /\ \E P \in Selections, a \in BOOLEAN : Undo(p, P, a)

Continue(p) ==
  \/ Reserve(p) \/ Lodge(p) \/ Scope(p) \/ CheckGuard(p) \/ Consume(p)
  \/ RecheckGuard(p) \/ WriteGuard(p)
  \/ \E q \in inst.paths : Revert(p, q) \/ RevertFails(p, q)
  \/ RecordPartial(p) \/ FailRow(p) \/ AppendTurn(p)
  \/ ExecuteRow(p) \/ RemoveGuard(p)

World ==
  \/ \E q \in inst.paths, c \in Contents : Edit(q, c)
  \/ \E q \in inst.paths : Purge(q)
  \/ Tick

Next ==
  /\ \/ World
     \/ \E p \in Procs : Begin(p) \/ Continue(p) \/ Crash(p)
  /\ UNCHANGED inst

Spec == Init /\ [][Next]_vars

-----------------------------------------------------------------------------
(* Safety.                                                                 *)

PCs == {"idle", "reserve", "request", "scope", "guard", "consume", "recheck",
        "arm", "write", "failed", "failrow", "execrow", "linger"}

(* The types of the variables. *)
TypeOK ==
  /\ \A r \in Range(ledger) :
       /\ r.event \in Reserving \cup Terminal \cup {"consume"}
       /\ r.id \in Nat \ {0} /\ r.paths \in Selections
       /\ r.allow \in BOOLEAN /\ r.expires \in Nat
       /\ r.hashes \in [r.paths -> Contents] \cup {<< >>}
  /\ log \in Seq([grant : Nat, paths : Selections, truncated : BOOLEAN])
  /\ guard \in Nat \cup {None} /\ lock \in Procs \cup {None}
  /\ work \in [inst.paths -> Contents] /\ intact \subseteq inst.paths
  /\ proc \in [Procs -> [ pc : PCs, grant : Nat, paths : SUBSET Paths,
                          allow : BOOLEAN, todo : SUBSET Paths,
                          done : SUBSET Paths, since : 0 .. MaxTime ]]

Writing(p) == proc[p].pc \in {"arm", "write", "failed", "failrow", "execrow"}

(* No live grant holds a file that an executor of another grant is writing *)
(* -- also when the grant being executed has meanwhile expired.            *)
WritesUncontested ==
  \A p \in Procs : Writing(p) /\ proc[p].grant # 0 =>
    \A r \in Live(clock) : r.id # proc[p].grant => r.paths \cap proc[p].paths = {}

(* The ledger never claims an execution that has no evidence: a complete   *)
(* undo turn of exactly the granted files is in the log.                   *)
ExecutedIsRecorded ==
  \A r \in Grants : "execute" \in Events(r.id) =>
    \E t \in Range(log) : /\ t.grant = r.id /\ ~t.truncated
                          /\ t.paths = r.paths

-----------------------------------------------------------------------------
(* Refinement.  A grant is live as long as the ledger and the clock say;   *)
(* it is exercised from its claim until the lock is released.              *)

View(r) == [id |-> r.id, files |-> r.paths, once |-> r.event = "reserve"]
Writer ==
  IF lock = None \/ proc[lock].grant = 0 THEN None
  ELSE View(Grant(proc[lock].grant))

Promise == INSTANCE OneTimeGrants WITH
  Files   <- Paths,
  Ids     <- Ids,
  issued  <- {View(r) : r \in Grants},
  live    <- {View(r) : r \in Live(clock)},
  spent   <- {View(r) : r \in {x \in Grants : "consume" \in Events(x.id)}},
  writer  <- Writer,
  written <- {<<View(Grant(w[1])), w[2]>> : w \in {t \in touched : t[1] # 0}}

(* The undo coordinator keeps the promise of one-time grants: with a lock, *)
(* a ledger and crashes at any step, files are written only by the one     *)
(* holder of a live grant, and in the name of a token only once it is      *)
(* spent.                                                                  *)
KeepsPromise == Promise!Spec

=============================================================================
