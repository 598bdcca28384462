-------------------------- MODULE TranscriptImport --------------------------
(* agentrec import claude and import codex (importcmd.rs): the session     *)
(* files an agent writes while it edits, and the run that turns them into  *)
(* turns of the log.                                                       *)
(*                                                                         *)
(* A content is the sequence of the words on its lines, so that the text   *)
(* an edit replaces can stand in a content that differs elsewhere. What    *)
(* the agents, git and people do is external; the reading of it is not.    *)
EXTENDS TurnLog

CONSTANTS
  Words,
  BigWords,   \* a content with one of these is over the cap of the store
  Lines,      \* lines of a content
  Paths,
  Secrets,    \* paths is_secret_path holds for
  Outside,    \* paths not under the cwd of the sessions
  Files,      \* session files: 1 .. n, in the order in which they are read
  Codex,      \* those of Codex; the others are Claude's
  Session,    \* the session id of each file
  Absent,
  Bounds      \* what may happen, and how often: one record per exploration

Contents == [1 .. Lines -> Words]

Shapes == {"edit", "patched", "original", "write", "written", "create"}

ASSUME ImportAssumption ==
  /\ Lines \in Nat \ {0} /\ BigWords \subseteq Words
  /\ Secrets \cup Outside \subseteq Paths
  /\ Files = 1 .. Cardinality(Files)
  /\ Codex \subseteq Files /\ DOMAIN Session = Files
  /\ Absent \notin Contents \cup {None} /\ None \notin Contents

VARIABLES
  disk,        \* the working tree
  head,        \* per path: the content in the latest commit of it, or None
  backups,     \* file-history of each session: the versions of each path
  reaped,      \* versions that are no longer on disk
  transcript,  \* the lines of each session file
  importer,    \* a running import
  foreign,     \* history: what a change that the file does not record has
               \* made unreliable for it: "backup", "git"
  left         \* what may still happen

importVars == <<disk, head, backups, reaped, transcript, importer, foreign, left>>

Use(what) == left' = [left EXCEPT ![what] = @ - 1]

-----------------------------------------------------------------------------
(* The agents and everybody else. A line has the fields of its JSON that   *)
(* the importer reads, and as history the contents around the edit, the    *)
(* commit that git log --before finds for its time, and what is foreign.   *)

Line(f, kind, p) ==
  [ kind |-> kind, path |-> p, name |-> None, relative |-> FALSE, side |-> FALSE,
    old |-> None, new |-> None, at |-> 0, original |-> FALSE, content |-> FALSE,
    op |-> "modify", pre |-> disk[p], post |-> disk[p], head |-> head[p],
    dirty |-> foreign[f][p] ]

WriteLine(f, l) ==
  /\ left.lines > 0
  /\ transcript' = [transcript EXCEPT ![f] = Append(@, l)]

(* A change of p that the session files in "by" record. *)
Change(p, c, by) ==
  /\ disk' = [disk EXCEPT ![p] = c]
  /\ foreign' = [f \in Files |->
       IF f \in by THEN foreign[f] ELSE [foreign[f] EXCEPT ![p] = {"backup", "git"}]]

Prompt(f, side) ==
  /\ WriteLine(f, [Line(f, "prompt", CHOOSE p \in Paths : TRUE) EXCEPT !.side = side])
  /\ Use("lines")
  /\ UNCHANGED <<disk, head, backups, reaped, importer, foreign>>

Versions(f, p) == backups[Session[f]][p]

(* A snapshot line with a backup of the content of now; its key is         *)
(* relative for a path under the cwd.                                      *)
Snapshot(f, p) ==
  /\ f \notin Codex /\ disk[p] # Absent /\ left.snapshots > 0
  /\ WriteLine(f, [Line(f, "snapshot", p) EXCEPT
       !.name = Len(Versions(f, p)) + 1, !.relative = (p \notin Outside)])
  /\ backups' = [backups EXCEPT ![Session[f]][p] = Append(@, disk[p])]
  /\ foreign' = [foreign EXCEPT ![f][p] = @ \ {"backup"}]
  /\ left' = [left EXCEPT !.lines = @ - 1, !.snapshots = @ - 1]
  /\ UNCHANGED <<disk, head, reaped, importer>>

(* The same backup is announced again, whatever was edited since. *)
Announce(f, i) ==
  /\ i \in DOMAIN transcript[f] /\ transcript[f][i].kind = "snapshot"
  /\ \A j \in i + 1 .. Len(transcript[f]) :
       ~ (transcript[f][j].kind = "snapshot" /\ transcript[f][j].path = transcript[f][i].path)
  /\ WriteLine(f, transcript[f][i])
  /\ Use("lines")
  /\ UNCHANGED <<disk, head, backups, reaped, importer, foreign>>

Claude(f) == f \in Files \ Codex

(* An edit of one line: old must be unique in the file. The result names   *)
(* the file before ("original"), the line ("patched") or neither.          *)
Edit(f, p, at, w, shape) ==
  /\ Claude(f) /\ shape \in {"edit", "patched", "original"} \cap left.shapes
  /\ disk[p] # Absent /\ w \in left.words /\ w # disk[p][at]
  /\ \A k \in 1 .. Lines \ {at} : disk[p][k] # disk[p][at]
  /\ LET post == [disk[p] EXCEPT ![at] = w] IN
       /\ WriteLine(f, [Line(f, "tool", p) EXCEPT
            !.old = disk[p][at], !.new = w, !.at = IF shape = "edit" THEN 0 ELSE at,
            !.original = (shape = "original"), !.post = post])
       /\ Change(p, post, {f})
  /\ Use("lines")
  /\ UNCHANGED <<head, backups, reaped, importer>>

(* The whole file is written; nothing says what was replaced. *)
Overwrite(f, p, c, shape) ==
  /\ Claude(f) /\ shape \in {"write", "written", "create"} \cap left.shapes
  /\ (shape = "create") = (disk[p] = Absent)
  /\ c # disk[p]
  /\ WriteLine(f, [Line(f, "tool", p) EXCEPT
       !.content = TRUE, !.post = c, !.original = (shape = "written"),
       !.op = IF shape = "create" THEN "create" ELSE "modify"])
  /\ Change(p, c, {f})
  /\ Use("lines")
  /\ UNCHANGED <<head, backups, reaped, importer>>

(* A patch_apply_end with one change: add, delete or update. *)
Patch(f, p, c) ==
  /\ f \in Codex /\ c # disk[p]
  /\ WriteLine(f, [Line(f, "tool", p) EXCEPT
       !.post = c, !.content = (disk[p] = Absent), !.original = (c = Absent),
       !.op = IF disk[p] = Absent THEN "create" ELSE IF c = Absent THEN "delete" ELSE "modify"])
  /\ Change(p, c, {f})
  /\ Use("lines")
  /\ UNCHANGED <<head, backups, reaped, importer>>

(* A subagent edits: a line that is flagged as a sidechain. *)
Subagent(f, p, c) ==
  /\ Claude(f) /\ left.others > 0 /\ c # disk[p] /\ disk[p] # Absent
  /\ WriteLine(f, [Line(f, "tool", p) EXCEPT
       !.side = TRUE, !.content = TRUE, !.post = c, !.original = TRUE])
  /\ Change(p, c, {})
  /\ left' = [left EXCEPT !.lines = @ - 1, !.others = @ - 1]
  /\ UNCHANGED <<head, backups, reaped, importer>>

(* Somebody edits or deletes, or the agent does with a shell command. *)
ElsewhereEdit(p, c) ==
  /\ left.others > 0 /\ c # disk[p]
  /\ Change(p, c, {})
  /\ Use("others")
  /\ UNCHANGED <<head, backups, reaped, transcript, importer>>

Commit ==
  /\ left.commits > 0 /\ head # disk
  /\ head' = disk
  /\ foreign' = [f \in Files |-> [p \in Paths |-> foreign[f][p] \ {"git"}]]
  /\ Use("commits")
  /\ UNCHANGED <<disk, backups, reaped, transcript, importer>>

(* The agent's retention removes its oldest backups. *)
Reap(f, p) ==
  /\ left.reaps > 0 /\ Versions(f, p) # << >>
  /\ reaped' = reaped \cup {<<Session[f], p, 1>>}
  /\ reaped' # reaped
  /\ Use("reaps")
  /\ UNCHANGED <<disk, head, backups, transcript, importer, foreign>>

-----------------------------------------------------------------------------
(* Backups as a scan meets them: which is current, and how many edits of   *)
(* the path were seen since.                                               *)

Unread == [ cwd |-> FALSE, pending |-> << >>,
            current |-> [p \in Paths |-> None], since |-> [p \in Paths |-> 0] ]

ResetAlways(s, b) ==  \* mutant: a backup announced again counts as a new one
  [s EXCEPT !.current[b.path] = b.name, !.since[b.path] = 0]

(* record_backup. *)
RecordBackup(s, b) ==
  [s EXCEPT !.current[b.path] = b.name,
            !.since[b.path] = IF s.current[b.path] = b.name THEN @ ELSE 0]

(* The first line with a cwd resolves the keys that waited for one.        *)
KnowCwd(s) ==
  IF s.cwd THEN s
  ELSE [FoldLeft(RecordBackup, s, s.pending) EXCEPT !.cwd = TRUE, !.pending = << >>]

(* normalize_backup_key. *)
NeedsCwd(s, l) == l.relative /\ ~ s.cwd

Harvest(s, l) ==
  IF NeedsCwd(s, l)
  THEN [s EXCEPT !.pending = Append(@, [path |-> l.path, name |-> l.name])]
  ELSE RecordBackup(s, [path |-> l.path, name |-> l.name])

(* mark_edit: only a path with a backup is counted. *)
MarkEdit(s, p) ==
  IF s.current[p] = None THEN s ELSE [s EXCEPT !.since[p] = @ + 1]

(* Why the current backup of a path is not taken (T15Counters): an edit of *)
(* the path was seen since, it cannot be read, or it does not have the     *)
(* text the edit replaced. None when it is taken.                          *)
Rejection(f, s, l) ==
  LET v == s.current[l.path] IN
    CASE s.since[l.path] > 0                -> "stale"
      [] s.since[l.path] = 0 /\ <<Session[f], l.path, v>> \in reaped -> "missing"
      [] s.since[l.path] = 0 /\ <<Session[f], l.path, v>> \notin reaped ->
           IF l.old # None /\ ~ Contains(Versions(f, l.path)[v], l.old) THEN "unverifiable" ELSE None

(* Tier 1.5. *)
BackupBefore(f, s, l) ==
  LET v == s.current[l.path] IN
    IF v = None \/ Rejection(f, s, l) # None THEN None ELSE Versions(f, l.path)[v]

(* expected_old_start_line, when the line says where its hunk starts. *)
InHunk(l, found) == l.at = 0 \/ l.at \in found

(* resolve_t2_before: the latest commit, for the first edit of the path in *)
(* the file only, with old in it exactly once and on the line of the hunk. *)
GitBefore(s, l) ==
  IF \/ s.edits[l.path] > 0 \/ l.head = None \/ l.head = Absent \/ l.old = None
  THEN None
  ELSE LET found == {k \in 1 .. Lines : l.head[k] = l.old} IN
         IF Cardinality(found) = 1 /\ InHunk(l, found) THEN l.head ELSE None

-----------------------------------------------------------------------------
(* From a line to an entry: classify_and_resolve, resolve_codex_file_entry. *)

(* Codex records what a delete removed and what an add wrote; there are no *)
(* backups, and git is not asked.                                          *)
CodexSource(l) ==
  CASE l.op = "create" -> "create" [] l.op = "delete" -> "original" [] OTHER -> "none"

(* The first source that gives the content before. *)
Source(f, s, l) ==
  IF f \in Codex THEN CodexSource(l)
  ELSE IF l.original THEN "original"
  ELSE IF l.op = "create" THEN "create"
  ELSE IF BackupBefore(f, s, l) # None THEN "backup"
  ELSE IF GitBefore(s, l) # None THEN "git" ELSE "none"

Before(f, s, l) ==
  LET source == Source(f, s, l) IN
    CASE source = "original" -> l.pre
      [] source = "backup"   -> BackupBefore(f, s, l)
      [] source = "git"      -> GitBefore(s, l)
      [] OTHER               -> None

ReplaceFirst(c, old, new) ==
  LET found == {k \in DOMAIN c : c[k] = old} IN
    IF found = {} THEN c ELSE [c EXCEPT ![Min(found)] = new]

(* Recorded, or the edit applied to the content before. *)
After(before, l) ==
  IF l.content THEN l.post
  ELSE IF l.old = None \/ before = None THEN None
  ELSE ReplaceFirst(before, l.old, l.new)

Entry(p, before, after, op, withheld, skipped) ==
  [ path |-> p, before |-> before, after |-> after, op |-> op,
    withheld |-> withheld, skipped |-> skipped ]

OverCap(c) == c # None /\ Range(c) \cap BigWords # {}

EntryOf(f, s, l) ==
  LET before == Before(f, s, l)
      after  == After(before, l)
  IN  IF l.path \in Secrets THEN Entry(l.path, None, None, l.op, TRUE, FALSE)
      ELSE IF OverCap(before) \/ OverCap(after)
      THEN Entry(l.path, None, None, l.op, FALSE, TRUE)
      ELSE Entry(l.path, before, after, l.op, FALSE, FALSE)

-----------------------------------------------------------------------------
(* persist_session_file: one session file from its first line on.          *)

Start == Unread @@
  [ edits |-> [p \in Paths |-> 0], index |-> 0, prompt |-> FALSE,
    files |-> << >>, of |-> << >>, done |-> << >> ]

EndTurn(s) ==
  [s EXCEPT !.done = Append(@, [index |-> s.index, files |-> s.files, of |-> s.of]),
            !.index = @ + 1, !.prompt = FALSE, !.files = << >>, !.of = << >>]

Busy(s) == s.prompt \/ s.files # << >>

PersistPrompt(s) == [(IF Busy(s) THEN EndTurn(s) ELSE s) EXCEPT !.prompt = TRUE]

(* Paths outside the cwd of the session are Codex's only. *)
Counted(f, l) == ~ l.side /\ (f \in Codex \/ l.path \notin Outside)

AddEntry(f, s, l, i) ==
  [s EXCEPT !.files = Append(@, EntryOf(f, s, l)),
            !.of = Append(@, [line |-> i, source |-> Source(f, s, l)])]

PersistTool(f, s, l, i) ==
  MarkEdit([AddEntry(f, s, l, i) EXCEPT !.edits[l.path] = @ + 1], l.path)

(* A user_message or a patch_apply_end of Codex. *)
PersistCodexLine(f, s, i) ==
  LET l == transcript[f][i] IN
    IF l.kind = "prompt" THEN PersistPrompt(s) ELSE AddEntry(f, s, l, i)

(* is_genuine_user_prompt, of a line that is no sidechain. *)
Genuine(l) == l.kind = "prompt" /\ ~ l.side

PersistLine(f, s, i) ==
  LET l == transcript[f][i] IN
    CASE l.kind = "snapshot"                   -> Harvest(s, l)
      [] Genuine(l)                            -> PersistPrompt(KnowCwd(s))
      [] l.kind = "tool" /\ Counted(f, l)      -> PersistTool(f, KnowCwd(s), l, i)
      [] OTHER                                 -> KnowCwd(s)

Numbered(s) == [i \in DOMAIN s |-> i]

AllTurns(s) == IF Busy(s) THEN EndTurn(s).done ELSE s.done

(* A turn without files is left out; it keeps its index.                   *)
TurnsOf(f) ==
  LET line(t, i) == IF f \in Codex THEN PersistCodexLine(f, t, i) ELSE PersistLine(f, t, i)
      s == FoldLeft(line, Start, Numbered(transcript[f]))
  IN  SelectSeq(AllTurns(s), LAMBDA t : t.files # << >>)

(* deterministic_turn_id. *)
TurnId(f, t) == <<Session[f], t.index>>

-----------------------------------------------------------------------------
(* persist::run of both importers.                                         *)

Resting == [ pc |-> "idle", existing |-> {}, run |-> {}, files |-> << >>, file |-> 0,
             queue |-> << >>, read |-> {}, lost |-> {} ]

SessionFiles == SelectSeq(Numbered(Session), LAMBDA f : f \notin Codex)
RolloutFiles == SelectSeq(Numbered(Session), LAMBDA f : f \in Codex)

(* load_log, once, and the list of the files. *)
StartImport(codex) ==
  /\ importer.pc \in {"idle", "done"} /\ left.runs > 0
  /\ importer' = [Resting EXCEPT !.pc = "run", !.existing = Ids(log),
       !.files = IF codex THEN RolloutFiles ELSE SessionFiles]
  /\ Use("runs")
  /\ UNCHANGED <<disk, head, backups, reaped, transcript, foreign>> /\ LogUnchanged

Importing == importer.pc = "run"

SessionsOnly == UNCHANGED <<disk, head, backups, reaped, transcript, foreign, left>>

(* The edits that skipped_out_of_cwd counts. *)
SkippedOutOfCwd(f) ==
  {<<f, i>> : i \in {j \in DOMAIN transcript[f] :
     LET l == transcript[f][j] IN l.kind = "tool" /\ ~ l.side /\ ~ Counted(f, l)}}

ReadFile ==
  /\ Importing /\ importer.queue = << >> /\ importer.files # << >>
  /\ LET f == Head(importer.files) IN
     importer' = [importer EXCEPT !.files = Tail(@), !.file = f,
       !.read  = @ \cup {[file |-> f, upto |-> Len(transcript[f])]},
       !.lost  = @ \cup SkippedOutOfCwd(f),
       !.queue = [k \in DOMAIN TurnsOf(f) |->
                    TurnsOf(f)[k] @@ [upto |-> Len(transcript[f])]]]
  /\ SessionsOnly /\ LogUnchanged

KnownBeforeRun(id) == id \in importer.existing  \* mutant: no run_ids

(* Imported before this run, or by this run from another file. *)
Known(id) == id \in importer.existing \/ id \in importer.run

(* The next turn of the file: skipped, in silence if it was imported       *)
(* before this run, or appended under log.lock.                            *)
Persist ==
  /\ Importing /\ importer.queue # << >>
  /\ LET t  == Head(importer.queue)
         f  == importer.file
         id == TurnId(f, t)
     IN  IF Known(id)
         THEN /\ importer' = [importer EXCEPT !.queue = Tail(@),
                   !.lost = @ \cup IF id \in importer.existing THEN {}
                                   ELSE {<<f, l.line>> : l \in Range(t.of)}]
              /\ LogUnchanged
         ELSE /\ importer' = [importer EXCEPT !.queue = Tail(@), !.run = @ \cup {id}]
              /\ AppendTurn(id, "imported", {}, t.files,
                            [file |-> f, upto |-> t.upto, lines |-> t.of])
  /\ SessionsOnly

EndImport ==
  /\ Importing /\ importer.queue = << >> /\ importer.files = << >>
  /\ importer' = [importer EXCEPT !.pc = "done"]
  /\ SessionsOnly /\ LogUnchanged

KillImport ==
  /\ Importing /\ left.kills > 0
  /\ importer' = Resting
  /\ Use("kills")
  /\ UNCHANGED <<disk, head, backups, reaped, transcript, foreign>> /\ LogUnchanged

-----------------------------------------------------------------------------
(* import --dry-run: the reports of process_session_file, which has a      *)
(* ladder of its own (classify_file_entry) and opens no commit, and of     *)
(* scan_session_file.                                                      *)

(* GitTrackCache: git ls-files, once per cwd. *)
Tracked(p) == head[p] \notin {None, Absent}

CandidateOrNot(p) == IF Tracked(p) THEN "t2_candidate" ELSE "t3"

Tier(f, s, l) ==
  CASE l.path \in Secrets -> "secret"
    [] l.path \notin Secrets ->
         IF l.original \/ l.op = "create" THEN "t1"
         ELSE IF s.current[l.path] # None /\ Rejection(f, s, l) = None THEN "t1_5"
         ELSE CandidateOrNot(l.path)

(* classify_codex_change. *)
CodexTier(l) ==
  CASE l.path \in Secrets                          -> "secret"
    [] l.path \notin Secrets /\ l.op # "modify"     -> "t1"
    [] l.path \notin Secrets /\ l.op = "modify"     -> CandidateOrNot(l.path)

(* A counter goes up, for a line of the file. *)
Count(s, i, tier) == [s EXCEPT !.tiers = Append(@, [line |-> i, tier |-> tier])]

UnmarkedTool(f, s, l, i) ==  \* mutant: the report does not count the edits
  Count(s, i, Tier(f, s, l))

ReportTool(f, s, l, i) == Count(MarkEdit(s, l.path), i, Tier(f, s, l))

ReportLine(f, s, i) ==
  LET l == transcript[f][i] IN
    CASE l.kind = "snapshot"             -> Harvest(s, l)
      [] l.kind = "tool" /\ l.side       -> Count(KnowCwd(s), i, "sidechain")
      [] l.kind = "tool" /\ ~ l.side     -> ReportTool(f, KnowCwd(s), l, i)
      [] OTHER                           -> KnowCwd(s)

ReportCodexLine(f, s, i) ==
  LET l == transcript[f][i] IN IF l.kind = "tool" THEN Count(s, i, CodexTier(l)) ELSE s

Report(f) ==
  LET line(s, i) == IF f \in Codex THEN ReportCodexLine(f, s, i) ELSE ReportLine(f, s, i) IN
    FoldLeft(line, Unread @@ [tiers |-> << >>], Numbered(transcript[f])).tiers

-----------------------------------------------------------------------------
(* Properties.                                                             *)

Imported == {t \in Range(log) : t.kind = "imported"}

LineOf(t, k) == transcript[t.of.file][t.of.lines[k].line]

Honest(t, k) == t.of.lines[k].source \notin LineOf(t, k).dirty

(* An imported entry never shows a content the file did not have around    *)
(* the edit: before is the content before it, after the content after it,  *)
(* a create replaced nothing, a delete left nothing. The one excuse is a   *)
(* change that the session file does not record, between the edit and the  *)
(* backup or the commit the content was taken from.                        *)
NeverFabricated ==
  \A t \in Imported : \A k \in DOMAIN t.files :
    LET e == t.files[k]
        l == LineOf(t, k)
    IN  /\ e.before # None /\ Honest(t, k) => e.before = l.pre
        /\ e.after # None /\ Honest(t, k) => e.after = l.post
        /\ e.op = "create" => l.pre = Absent
        /\ e.op = "delete" => l.post = Absent

(* The tool lines of a file that name a path to import, up to a line.      *)
ToolLines(f, upto) ==
  {i \in 1 .. upto : transcript[f][i].kind = "tool" /\ Counted(f, transcript[f][i])}

(* The turn a line belongs to: prompts before it, but for one that starts  *)
(* the file.                                                               *)
TurnIndex(f, i) ==
  Cardinality({j \in 1 .. i :
    /\ transcript[f][j].kind = "prompt" /\ ~ transcript[f][j].side
    /\ \E k \in 1 .. j - 1 :
         \/ transcript[f][k].kind = "prompt" /\ ~ transcript[f][k].side
         \/ k \in ToolLines(f, j) })

(* However often import runs, is killed and runs again, while the sessions *)
(* go on and one session has two files: an id is in the log once; its turn *)
(* holds exactly the edits the file had between two prompts when it was    *)
(* read, in their order; and when a run has ended no turn that a file had  *)
(* when it was read is missing, and no edit of it that is missing is not   *)
(* counted, but for those of turns that were imported before the run.      *)
ImportedOnce ==
  /\ \A t, u \in Imported : t.id = u.id => t = u
  /\ \A t \in Imported :
       [k \in DOMAIN t.of.lines |-> t.of.lines[k].line]
         = SelectSeq(Numbered(transcript[t.of.file]),
             LAMBDA i : /\ i \in ToolLines(t.of.file, t.of.upto)
                        /\ <<Session[t.of.file], TurnIndex(t.of.file, i)>> = t.id)
  /\ importer.pc = "done" =>
       \A r \in importer.read : \A i \in ToolLines(r.file, r.upto) :
         \E t \in Imported :
           /\ t.id = <<Session[r.file], TurnIndex(r.file, i)>>
           /\ \/ t.of.file = r.file /\ \E k \in DOMAIN t.of.lines : t.of.lines[k].line = i
              \/ <<r.file, i>> \in importer.lost
              \/ t.id \in importer.existing

(* What the code says of what an import leaves out: every loss is counted. *)
LossCounted ==
  importer.pc = "done" =>
    \A r \in importer.read : \A i \in ToolLines(r.file, r.upto) :
      \/ <<r.file, i>> \in importer.lost
      \/ \E t \in Imported : t.of.file = r.file /\ \E l \in Range(t.of.lines) : l.line = i

(* The report of --dry-run tells the truth about the import: the edits it  *)
(* counts are those that import would persist now, but for those of a      *)
(* subagent and of paths outside the cwd; and it says withheld, recorded   *)
(* or backed up exactly when import takes the content from there, and not  *)
(* a candidate for git of none that git would give, unless a later commit  *)
(* has removed the file.                                                   *)
DryRunAgrees ==
  \A f \in Files :
    LET report   == Report(f)
        imported == UNION {Range(t.of) : t \in Range(TurnsOf(f))}
        files    == UNION {{<<t.of[k].line, t.files[k].withheld>> : k \in DOMAIN t.of} : t \in Range(TurnsOf(f))}
    IN  \A r \in Range(report) :
          LET l      == transcript[f][r.line]
              source == (CHOOSE o \in imported : o.line = r.line).source
          IN  IF r.tier = "sidechain" \/ (f \notin Codex /\ l.path \in Outside)
              THEN \A o \in imported : o.line # r.line
              ELSE /\ \E o \in imported : o.line = r.line
                   /\ r.tier = "secret" <=> <<r.line, TRUE>> \in files
                   /\ r.tier # "secret" =>
                        /\ r.tier = "t1" <=> source \in {"original", "create"}
                        /\ r.tier = "t1_5" <=> source = "backup"
                        /\ source = "git" /\ head[l.path] # Absent => r.tier = "t2_candidate"
=============================================================================
