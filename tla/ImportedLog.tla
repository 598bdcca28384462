---------------------------- MODULE ImportedLog ----------------------------
(* One log: import appends to it, so does the daemon, an undo of an        *)
(* imported turn reverts files, purge --log-duplicates rewrites it, and a  *)
(* client pages through it.                                                *)
EXTENDS TranscriptImport, McpServer

VARIABLE undone   \* history: what the files of an undone turn held before it

vars == <<disk, head, backups, reaped, transcript, importer, foreign, left,
          log, written, reader, prompt, config, server, answer, undone>>

NoImport == UNCHANGED importVars
NoClient == UNCHANGED <<viewVars, mcpVars>>

-----------------------------------------------------------------------------
(* undo of an imported turn: build_plan over its entries, execute_revert   *)
(* of those it lets through. No other process acts in between; that is     *)
(* UndoCoordinator's subject.                                              *)

Holds(p) == IF disk[p] = Absent THEN None ELSE disk[p]

(* The whole undo is refused when an entry has nothing to go back to.      *)
Unreconstructible(t) == \E e \in Range(t.files) : e.op # "create" /\ e.before = None

Reverts(e, allowModified) ==
  /\ ~ e.withheld /\ ~ e.skipped
  /\ allowModified \/ Holds(e.path) = e.after

Plan(t, allowModified) == SelectSeq(t.files, LAMBDA e : Reverts(e, allowModified))

Revert(d, e) ==
  [d EXCEPT ![e.path] = IF e.op = "create" THEN Absent ELSE e.before]

InverseOp(op) ==
  CASE op = "create" -> "delete" [] op = "delete" -> "create" [] OTHER -> op

InverseEntry(d, e) ==
  Entry(e.path, IF d[e.path] = Absent THEN None ELSE d[e.path],
        IF e.op = "create" THEN None ELSE e.before, InverseOp(e.op), FALSE, FALSE)

(* The tree and the entries of the undo turn after each revert in turn. *)
RevertAll(plan) ==
  FoldLeft(LAMBDA s, e : [disk |-> Revert(s.disk, e), files |-> Append(s.files, InverseEntry(s.disk, e))],
           [disk |-> disk, files |-> << >>], plan)

FirstOf(t, p) == Min({k \in DOMAIN t.files : t.files[k].path = p})

UndoImported(id, allowModified) ==
  LET t    == Resolve(log, id)
      plan == Plan(t, allowModified)
      end  == RevertAll(plan)
  IN  /\ left.undos > 0
      /\ t # None /\ t.kind = "imported" /\ ~ Unreconstructible(t) /\ plan # << >>
      /\ disk' = end.disk
      /\ foreign' = [f \in Files |-> [p \in Paths |->
           IF disk'[p] = disk[p] THEN foreign[f][p] ELSE {"backup", "git"}]]
      /\ AppendTurn(<<"live", written + 1>>, "undo", {}, end.files, None)
      /\ undone' = IF plan # t.files \/ \E k \in DOMAIN t.files : ~ Honest(t, k) THEN {}
                   ELSE {[path |-> e.path, pre |-> LineOf(t, FirstOf(t, e.path)).pre] :
                           e \in Range(plan)}
      /\ Use("undos")
      /\ UNCHANGED <<head, backups, reaped, transcript, importer>> /\ NoClient

-----------------------------------------------------------------------------

(* The daemon appends a turn; a rich one may merge turns without an agent, *)
(* and puts its prompt.                                                    *)
Record(kind) ==
  /\ left.records > 0
  /\ \E merges \in SUBSET {t.id : t \in {u \in Range(log) : u.kind = "bare"}} :
       /\ kind # "rich" => merges = {}
       /\ AppendTurn(<<"live", written + 1>>, kind, merges, << >>, None)
  /\ Use("records")
  /\ IF kind = "rich" THEN PromptBlob(TRUE) ELSE UNCHANGED viewVars
  /\ UNCHANGED <<disk, head, backups, reaped, transcript, importer, foreign, mcpVars, undone>>

PurgeDuplicates ==
  /\ WithoutDuplicates(log) # log
  /\ log' = WithoutDuplicates(log)
  /\ RecordsLeft({t.n : t \in Range(log')})
  /\ NoImport /\ UNCHANGED <<mcpVars, written, undone>>

PurgePrompts ==
  /\ left.reads /\ prompt
  /\ PromptBlob(FALSE)
  /\ NoImport /\ LogUnchanged /\ UNCHANGED <<mcpVars, undone>>

Reading ==
  /\ left.reads
  /\ Read
  /\ NoImport /\ LogUnchanged /\ UNCHANGED <<mcpVars, undone>>

Serving ==
  /\ \/ left.sessions > 0 /\ Use("sessions") /\ Load
     \/ UNCHANGED left /\ McpStep
     \/ left.configs > 0 /\ Use("configs") /\ \E mode \in Modes \cup {None} : EditConfig(mode)
  /\ UNCHANGED <<disk, head, backups, reaped, transcript, importer, foreign, undone, viewVars>>
  /\ LogUnchanged

-----------------------------------------------------------------------------

Begin(bounds) ==
  /\ left = [bounds EXCEPT !.logs = {}, !.initial = {}, !.tracked = {}]
  /\ disk \in [Paths -> bounds.initial]
  /\ \E tracked \in bounds.tracked : head = IF tracked THEN disk ELSE [p \in Paths |-> None]
  /\ log \in bounds.logs
  /\ config \in [mode : IF bounds.sessions = 0 THEN {"off"} ELSE Modes, mtime : {1}]

Init ==
  /\ \E bounds \in Bounds : Begin(bounds)
  /\ backups = [s \in Range(Session) |-> [p \in Paths |-> << >>]]
  /\ reaped = {}
  /\ transcript = [f \in Files |-> << >>]
  /\ importer = Resting
  /\ foreign = [f \in Files |-> [p \in Paths |-> IF head[p] = None THEN {"git"} ELSE {}]]
  /\ written = Len(log)
  /\ reader = NotReading /\ prompt = TRUE
  /\ server = NotServing /\ answer = Silence
  /\ undone = {}

SessionStep ==
  /\ \/ \E f \in left.files :
          \/ \E side \in BOOLEAN : (side => Claude(f) /\ left.others > 0) /\ Prompt(f, side)
          \/ \E p \in left.paths :
               \/ Snapshot(f, p)
               \/ Reap(f, p)
               \/ \E at \in 1 .. Lines, w \in Words, shape \in Shapes : Edit(f, p, at, w, shape)
               \/ \E c \in left.contents :
                    \/ \E shape \in Shapes : Overwrite(f, p, c, shape)
                    \/ Subagent(f, p, c)
               \/ \E c \in left.contents \cup {Absent} : Patch(f, p, c)
          \/ \E i \in 1 .. Len(transcript[f]) : Announce(f, i)
     \/ \E p \in left.paths, c \in left.contents \cup {Absent} : ElsewhereEdit(p, c)
     \/ Commit
  /\ LogUnchanged /\ NoClient /\ undone' = {}

ImportStep ==
  /\ \/ \E codex \in BOOLEAN : StartImport(codex)
     \/ ReadFile
     \/ Persist
     \/ EndImport
     \/ KillImport
  /\ NoClient /\ UNCHANGED undone

Next ==
  \/ SessionStep
  \/ ImportStep
  \/ \E id \in Ids(log), allowModified \in BOOLEAN : UndoImported(id, allowModified)
  \/ \E kind \in {"bare", "rich", "git"} : Record(kind)
  \/ PurgeDuplicates
  \/ PurgePrompts
  \/ Reading
  \/ Serving

Spec == Init /\ [][Next]_vars

-----------------------------------------------------------------------------

(* An undo that reverted every entry of an imported turn, none of them     *)
(* taken from a backup or a commit that other changes had made stale, has  *)
(* brought each of its files back to what it held before the turn.         *)
UndoRestoresTurn == \A u \in undone : disk[u.path] = u.pre
=============================================================================
