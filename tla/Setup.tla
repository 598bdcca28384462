------------------------------- MODULE Setup -------------------------------
(* init and uninstall (cli/src/initcmd.rs, uninstallcmd.rs, service.rs):   *)
(* they merge agentrec's entries into configuration files that belong to   *)
(* the user and to two agents, and take them out again, file by file; a    *)
(* kill may stop them anywhere and the user edits between two files.       *)
(*                                                                         *)
(* One command runs at a time. A file is what its parser makes of it: the  *)
(* commands hooked to each event, group by group, whatever the order of    *)
(* the groups, and the MCP servers it declares.                            *)
EXTENDS Naturals, Sequences, FiniteSets, Functions

CONSTANTS
  Events,    \* the hook events, one list for both agents
  Bounds,    \* how often what may happen: one record per exploration
  None, Torn \* no such file; bytes that do not parse

Json == {"claude", "hooks", "mcp"}  \* settings.local.json, hooks.json, .mcp.json
Files == Json \cup {"toml"}         \* .codex/config.toml
Servers == {"ours", "foreign", "other"}  \* the first two under the key agentrec

VARIABLES
  file,      \* the configuration files
  bak,       \* the backup beside each
  ignore,    \* .gitignore
  unit,      \* whether the service unit is there
  store,     \* .agentrec: which one since the first init
  archives,  \* .agentrec.archived.<second>
  now,       \* the second of the wall clock
  cmd,       \* the command that runs
  left,      \* what may still happen
  theirs,    \* history: what the user has put into each file
  born,      \* history: how many stores were made
  done       \* history: the command that has last run to its end

config == <<file, bak>>
place == <<store, archives, born>>
vars == <<config, ignore, unit, place, now, cmd, left, theirs, done>>

Blank == [hooks |-> None, servers |-> None]
NoEvents == [e \in Events |-> None]
Idle == [op |-> "idle", stage |-> "next"]

Use(what) == left[what] > 0 /\ left' = [left EXCEPT ![what] = @ - 1]

-----------------------------------------------------------------------------
(* What is in a file. *)

Listed(c) == IF c \in {None, Torn} \/ c.hooks = None THEN {} ELSE {e \in Events : c.hooks[e] # None}
Commands(c) == {x \in Events \X {"ours", "theirs"} :
                  x[1] \in Listed(c) /\ \E g \in c.hooks[x[1]] : x[2] \in g}
Declared(c) == IF c \in {None, Torn} \/ c.servers = None THEN {} ELSE c.servers

Marked(c, e) == <<e, "ours">> \in Commands(c)
Entries(c) == Commands(c) \cup ({"server"} \X Declared(c))
OursIn(c) == {x \in Entries(c) : x[2] = "ours"}
TheirsIn(c) == Entries(c) \ OursIn(c)

(* What a write that is stopped leaves: half a JSON text never parses, but *)
(* the first half of a TOML text may, and an empty one does.               *)
Stumps(f) == IF f = "toml" THEN {Torn, Blank} ELSE {Torn}

-----------------------------------------------------------------------------
(* What init and uninstall make of a file that parses.                     *)

Present(c) == IF c = None THEN Blank ELSE c

(* merge_hook, for each event. *)
Hooked(c) ==
  LET had == IF c.hooks = None THEN NoEvents ELSE c.hooks
      Of(e) == IF had[e] = None THEN {} ELSE had[e]
  IN  IF \A e \in Events : Marked(c, e) THEN c
      ELSE [c EXCEPT !.hooks = [e \in Events |->
              IF Marked(c, e) THEN had[e] ELSE Of(e) \cup {{"ours"}}]]

(* Our commands go, and then the groups that hold none. *)
Stripped(groups) == {g \ {"ours"} : g \in groups} \ {{}}

UnhookedFew(c) ==  \* mutant: a copy of the list of the events is short
  LET e == CHOOSE e \in Events : TRUE IN
    IF e \in Listed(c) THEN [c EXCEPT !.hooks[e] = Stripped(@)] ELSE c

(* remove_claude_hooks and its two copies: what is stripped of all its      *)
(* groups goes too, an event first and then the table.                      *)
Unhooked(c) ==
  LET Rest(groups) ==
        IF Stripped(groups) = {} /\ groups # {} THEN None ELSE Stripped(groups)
      after == [e \in Events |-> IF e \in Listed(c) THEN Rest(c.hooks[e]) ELSE None]
  IN  IF c.hooks = None \/ after = c.hooks THEN c
      ELSE [c EXCEPT !.hooks = IF after = NoEvents THEN None ELSE after]

(* install_mcp_json, install_codex_mcp. *)
Registered(c) ==
  IF Declared(c) \cap {"ours", "foreign"} # {} THEN c
  ELSE [c EXCEPT !.servers = Declared(c) \cup {"ours"}]

Unregistered(c) ==
  IF "ours" \notin Declared(c) THEN c
  ELSE [c EXCEPT !.servers = IF @ = {"ours"} THEN None ELSE @ \ {"ours"}]

CodexTargetFirst == "hooks"  \* mutant: the preferred file, whatever the other holds

(* codex_hooks_target, where config.toml parses: the file that has hooks   *)
(* already, hooks.json where neither does, none where both do.             *)
CodexTarget ==
  LET inline == file["toml"] # None /\ file["toml"].hooks # None IN
    IF file["hooks"] # None THEN (IF inline THEN None ELSE "hooks")
    ELSE IF inline THEN "toml" ELSE "hooks"

-----------------------------------------------------------------------------
(* One step of a command on a file: what it would write, or why it stops   *)
(* (every ? of the code), or why it goes on without (a reported skip).     *)

Write(f, text) == IF text = Present(file[f]) THEN [act |-> "skip"] ELSE [act |-> "write", file |-> f, text |-> text]
Abort == [act |-> "abort"]
Skip == [act |-> "skip"]

ParsedAnyway(f) == TRUE  \* mutant: what does not parse counts as an empty file

Parsed(f) == file[f] # Torn

Readable(c) == IF c = Torn THEN Blank ELSE Present(c)

Intent(step) ==
  CASE step = "claude" -> IF Parsed("claude") THEN Write("claude", Hooked(Readable(file["claude"]))) ELSE Abort
    [] step = "mcp"    -> IF Parsed("mcp") THEN Write("mcp", Registered(Readable(file["mcp"]))) ELSE Skip
    [] step = "codex"  -> IF ~ Parsed("toml") THEN Abort
                          ELSE IF CodexTarget = None THEN [act |-> "refuse"]
                          ELSE IF ~ Parsed(CodexTarget) THEN Abort
                          ELSE Write(CodexTarget, Hooked(Readable(file[CodexTarget])))
    [] step = "codexMcp" -> IF Parsed("toml") THEN Write("toml", Registered(Readable(file["toml"]))) ELSE Skip
    [] step \in {"unclaude", "uncodex", "untoml"} ->
         LET f == CASE step = "unclaude" -> "claude" [] step = "uncodex" -> "hooks" [] step = "untoml" -> "toml" IN
           IF file[f] = None THEN Skip
           ELSE IF Parsed(f) THEN Write(f, Unhooked(Readable(file[f]))) ELSE Abort
    [] step \in {"unmcp", "untomlMcp"} ->
         LET f == IF step = "unmcp" THEN "mcp" ELSE "toml" IN
           IF file[f] = None THEN Skip
           ELSE IF Parsed(f) THEN Write(f, Unregistered(Readable(file[f]))) ELSE Abort

-----------------------------------------------------------------------------
(* The commands, file by file. *)

Wants(flags) ==  \* service_decision
  IF flags.service = "no" THEN FALSE ELSE flags.service = "force" \/ ~ left.temp

InitSteps(flags) ==
  <<"scaffold", "ignore">>
    \o (IF flags.hook THEN <<"claude", "mcp">> ELSE << >>)
    \o (IF flags.hook /\ flags.codex THEN <<"codex", "codexMcp">> ELSE << >>)
    \o (IF Wants(flags) THEN <<"service">> ELSE << >>)

UninstallSteps(flags) ==
  <<"unclaude", "uncodex", "untoml", "unmcp", "untomlMcp">>
    \o (IF flags.service = "no" THEN << >> ELSE <<"unservice">>) \o <<"archive">>

Start(op, flags) ==
  /\ cmd = Idle /\ Use("commands")
  /\ cmd' = [ op |-> op, flags |-> flags, refused |-> FALSE, edited |-> {},
              stage |-> "next", on |-> None, text |-> None,
              todo |-> IF op = "init" THEN InitSteps(flags) ELSE UninstallSteps(flags) ]
  /\ done' = None
  /\ UNCHANGED <<config, ignore, unit, place, now, theirs>>

At(step) == cmd # Idle /\ cmd.stage = "next" /\ Head(cmd.todo) = step

(* What follows a step: the next one, or the end of the command. *)
Passes(c) ==
  LET rest == Tail(c.todo) IN
    IF rest = << >>
    THEN /\ cmd' = Idle
         /\ done' = [op |-> c.op, flags |-> c.flags, refused |-> c.refused, edited |-> c.edited]
    ELSE /\ cmd' = [c EXCEPT !.todo = rest, !.stage = "next", !.on = None, !.text = None]
         /\ UNCHANGED done

FileSteps == {"claude", "mcp", "codex", "codexMcp", "unclaude", "uncodex", "untoml", "unmcp", "untomlMcp"}

(* The file is read and merged; a change opens the backup, or the file     *)
(* itself when it is new.                                                  *)
Merge ==
  /\ \E step \in FileSteps : At(step)
  /\ LET it == Intent(Head(cmd.todo)) IN
       \/ /\ it.act = "abort"
          /\ cmd' = Idle
          /\ UNCHANGED <<config, done>>
       \/ /\ it.act = "skip"
          /\ Passes(cmd)
          /\ UNCHANGED config
       \/ /\ it.act = "refuse"  \* and the registration that would follow
          /\ Passes([cmd EXCEPT !.todo = Tail(@), !.refused = TRUE])
          /\ UNCHANGED config
       \/ /\ it.act = "write"
          /\ UNCHANGED done
          /\ \E stump \in Stumps(it.file) :
               IF file[it.file] = None
               THEN /\ file' = [file EXCEPT ![it.file] = stump]
                    /\ cmd' = [cmd EXCEPT !.stage = "write", !.on = it.file, !.text = it.text]
                    /\ UNCHANGED bak
               ELSE /\ bak' = [bak EXCEPT ![it.file] = stump]
                    /\ cmd' = [cmd EXCEPT !.stage = "copy", !.on = it.file, !.text = it.text]
                    /\ UNCHANGED file
  /\ UNCHANGED <<ignore, unit, place, now, left, theirs>>

Rewriting(stage) == cmd.stage = stage

CopyBackup ==
  /\ Rewriting("copy")
  /\ bak' = [bak EXCEPT ![cmd.on] = file[cmd.on]]
  /\ cmd' = [cmd EXCEPT !.stage = "open"]
  /\ UNCHANGED <<file, ignore, unit, place, now, left, theirs, done>>

OpenFile ==
  /\ Rewriting("open")
  /\ \E stump \in Stumps(cmd.on) : file' = [file EXCEPT ![cmd.on] = stump]
  /\ cmd' = [cmd EXCEPT !.stage = "write"]
  /\ UNCHANGED <<bak, ignore, unit, place, now, left, theirs, done>>

WriteFile ==
  /\ Rewriting("write")
  /\ file' = [file EXCEPT ![cmd.on] = cmd.text]
  /\ Passes(cmd)
  /\ UNCHANGED <<bak, ignore, unit, place, now, left, theirs>>

Scaffold ==
  /\ At("scaffold")
  /\ Passes(cmd)
  /\ IF store = None THEN store' = born + 1 /\ born' = born + 1 ELSE UNCHANGED <<store, born>>
  /\ UNCHANGED <<config, ignore, unit, archives, now, left, theirs>>

(* A .gitignore that is not UTF-8 is read as an empty one.  One step: the  *)
(* file is truncated and written without a backup, so that a kill between  *)
(* the two loses the user's lines; the properties are about the files of   *)
(* which a backup is kept.                                                 *)
EnsureIgnored ==
  /\ At("ignore")
  /\ Passes(cmd)
  /\ ignore' = IF ignore.utf8 THEN [ignore EXCEPT !.ours = TRUE]
               ELSE [ours |-> TRUE, theirs |-> FALSE, utf8 |-> TRUE]
  /\ UNCHANGED <<config, unit, place, now, left, theirs>>

(* service::install, whose loading may fail.                               *)
InstallService ==
  /\ At("service")
  /\ Passes(cmd)
  /\ unit' = TRUE
  /\ UNCHANGED <<config, ignore, place, now, left, theirs>>

(* service::uninstall: a unit that would not unload is removed all the same. *)
RemoveService ==
  /\ At("unservice")
  /\ Passes(cmd)
  /\ unit' = FALSE
  /\ UNCHANGED <<config, ignore, place, now, left, theirs>>

(* The rename fails where an archive of that second is. *)
Archive ==
  /\ At("archive")
  /\ IF store # None /\ archives[now] # None
     THEN cmd' = Idle /\ UNCHANGED <<archives, store, done>>
     ELSE /\ Passes(cmd)
          /\ archives' = IF store = None THEN archives ELSE [archives EXCEPT ![now] = store]
          /\ store' = None
  /\ UNCHANGED <<config, ignore, unit, born, now, left, theirs>>

Kill ==
  /\ cmd # Idle /\ Use("kills")
  /\ cmd' = Idle
  /\ UNCHANGED <<config, ignore, unit, place, now, theirs, done>>

-----------------------------------------------------------------------------
(* The user, while no file is being rewritten.                             *)

Between == cmd.stage = "next"

Edits(f, text, put) ==
  /\ Between /\ Use("edits")
  /\ file' = [file EXCEPT ![f] = text]
  /\ theirs' = [theirs EXCEPT ![f] = put]
  /\ cmd' = IF cmd = Idle THEN cmd ELSE [cmd EXCEPT !.edited = @ \cup {f}]
  /\ done' = IF done = None THEN None ELSE [done EXCEPT !.edited = @ \cup {f}]
  /\ UNCHANGED <<bak, ignore, unit, place, now>>

(* A command of the user's, in a group of its own or in one that is there. *)
AddHook(f, e) ==
  /\ f # "mcp" /\ file[f] # Torn
  /\ LET c == Present(file[f])
         had == IF c.hooks = None THEN NoEvents ELSE c.hooks
         groups == IF had[e] = None THEN {} ELSE had[e]
         next == {groups \cup {{"theirs"}}}
                   \cup {(groups \ {g}) \cup {g \cup {"theirs"}} : g \in groups}
     IN  \E g \in next : Edits(f, [c EXCEPT !.hooks = [had EXCEPT ![e] = g]], theirs[f] \cup {<<e, "theirs">>})

AddServer(f, w) ==
  /\ f \in {"mcp", "toml"} /\ file[f] # Torn /\ w # "ours"
  /\ LET c == Present(file[f])
         kept == IF w = "foreign" THEN Declared(c) \ {"ours"} ELSE Declared(c)
     IN  Edits(f, [c EXCEPT !.servers = kept \cup {w}], theirs[f] \cup {<<"server", w>>})

Delete(f) == file[f] # None /\ Edits(f, None, {})

Restore(f) ==
  /\ file[f] \in {Torn, Blank} /\ bak[f] \notin {None, Torn}
  /\ Edits(f, bak[f], TheirsIn(bak[f]))

SetClock(second) ==
  /\ second # now /\ Use("ticks")
  /\ now' = second
  /\ UNCHANGED <<config, ignore, unit, place, cmd, theirs, done>>

-----------------------------------------------------------------------------

Seconds == 1 .. 2

Init ==
  /\ left \in Bounds
  /\ file \in [Files -> {None, Blank}]
  /\ bak = [f \in Files |-> None]
  /\ ignore \in left.ignores
  /\ unit = FALSE
  /\ store = None /\ born = 0
  /\ archives = [s \in Seconds |-> None]
  /\ now = 1
  /\ cmd = Idle
  /\ theirs = [f \in Files |-> {}]
  /\ done = None

Next ==
  \/ \E op \in {"init", "uninstall"}, flags \in left.flags : Start(op, flags)
  \/ Scaffold \/ EnsureIgnored
  \/ Merge \/ CopyBackup \/ OpenFile \/ WriteFile
  \/ InstallService \/ RemoveService \/ Archive
  \/ Kill
  \/ \E f \in Files, e \in Events : AddHook(f, e)
  \/ \E f \in Files, w \in Servers : AddServer(f, w)
  \/ \E f \in Files : Delete(f) \/ Restore(f)
  \/ \E second \in Seconds : SetClock(second)

Spec == Init /\ [][Next]_vars

-----------------------------------------------------------------------------
(* Types: what a file can hold. Claude Code and Codex have their hooks and *)
(* their servers in files of their own, but for config.toml.               *)

Groups == SUBSET {"ours", "theirs"}
Tables == [Events -> {None} \cup SUBSET Groups]
Texts == [hooks : {None} \cup Tables, servers : {None} \cup SUBSET Servers]

TextsOf(f) ==
  {c \in Texts : /\ f = "mcp" => c.hooks = None
                 /\ f \in {"claude", "hooks"} => c.servers = None}

ASSUME AbsentAssumption ==
  /\ None # Torn /\ None \notin Texts /\ Torn \notin Texts
  /\ None \notin Tables
  /\ \A set \in SUBSET Groups : set # None
  /\ \A set \in SUBSET Servers : set # None
  /\ None \notin Nat \cup Files

ASSUME BoundsAssumption ==
  \A b \in Bounds : "edits" \in DOMAIN b /\ b["edits"] \in Nat

-----------------------------------------------------------------------------
(* Safety.                                                                 *)

Survives(f) == theirs[f] \subseteq TheirsIn(file[f]) \/ theirs[f] \subseteq TheirsIn(bak[f])

(* Whatever the user has put into a JSON file that agentrec also writes is *)
(* in the file or in the backup beside it: no merge, no removal and no     *)
(* kill in the middle of either loses it, and a rerun after a kill leaves  *)
(* the backup alone.                                                       *)
TheirsKept == \A f \in Json : Survives(f)

(* The same of config.toml, which a kill may leave empty and yet readable. *)
TomlKept == Survives("toml")

(* .gitignore keeps its rules. *)
RulesKept == [][ignore.theirs => ignore'.theirs]_vars

Both(f) == f["hooks"] # None /\ f["toml"] \notin {None, Torn} /\ f["toml"].hooks # None

(* Codex warns of hooks in two files: what init sets out to write never    *)
(* makes a second representation beside one that is there, and an init     *)
(* that refused because both are there leaves both alone to its end.       *)
NoSecondSource ==
  [][left = left' /\ cmd.op = "init" =>
       /\ cmd.stage = "next" /\ cmd'.stage # "next" =>
            (Both([file EXCEPT ![cmd'.on] = cmd'.text]) => Both(file))
       /\ cmd.refused => file'["toml"] = file["toml"] /\ file'["hooks"] = file["hooks"]]_vars

(* A command that ran to its end did what it says, but for the files that  *)
(* were edited since it began: after init every event of Claude Code is    *)
(* hooked and, unless it refused, every event of Codex, in one of its two  *)
(* files; after uninstall no entry of ours is anywhere, the unit is gone   *)
(* unless it was to stay, and "nothing was deleted": every store that was  *)
(* ever recorded into is in an archive of its own.                         *)
AsReported ==
  done # None =>
    LET Untouched(files) == files \cap done.edited = {} IN
    IF done.op = "init"
    THEN /\ store # None
         /\ done.flags.hook /\ Untouched({"claude"}) => \A e \in Events : Marked(file["claude"], e)
         /\ done.flags.hook /\ done.flags.codex /\ ~ done.refused /\ Untouched({"hooks", "toml"}) =>
              \E f \in {"hooks", "toml"} : \A e \in Events : Marked(file[f], e)
    ELSE /\ \A f \in Files : Untouched({f}) => OursIn(file[f]) = {}
         /\ store = None /\ 1 .. born = Range(archives) \ {None}
         /\ done.flags.service # "no" => ~ unit

=============================================================================
