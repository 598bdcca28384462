----------------------------- MODULE McpServer ------------------------------
(* agentrec mcp: one client, one process, one line at a time (mcpcmd.rs).  *)
(* What its read tools return is LogView; what becomes of an undo that it  *)
(* lets through is UndoCoordinator.  The configuration is read once, when  *)
(* the server starts, and is edited by others.                             *)
EXTENDS LogView

Modes == {"off", "confirm", "auto"}
Revisions == {"2025-11-25", "2025-06-18"}
Pinned == "2025-11-25"
Actions == {"preview", "request", "status", "execute"}
ReadTools == {"agentrec_log", "agentrec_diff", "agentrec_blame", "agentrec_recall", "agentrec_status"}

VARIABLES
  config,   \* config.toml: the mode it gives, None when it does not parse; its mtime
  server,   \* the process
  answer    \* what the last line was answered, and as history what config.toml held

mcpVars == <<config, server, answer>>

NotServing == [pc |-> "down", mode |-> "off", stamp |-> 0, revision |-> None, missed |-> FALSE]

Silence == [kind |-> "silence"]
Error(code) == [kind |-> "error", code |-> code]         \* of JSON-RPC
Failure(code) == [kind |-> "failure", code |-> code]     \* a result with isError
Success(what) == [kind |-> "result", what |-> what]

-----------------------------------------------------------------------------
(* run: config::load, and then config_mtime.                               *)

Load ==
  /\ server.pc = "down" /\ config.mode # None
  /\ server' = [NotServing EXCEPT !.pc = "loaded", !.mode = config.mode]
  /\ answer' = Silence /\ UNCHANGED config

Stamp ==
  /\ server.pc = "loaded"
  /\ server' = [server EXCEPT !.pc = "up", !.stamp = config.mtime]
  /\ UNCHANGED <<config, answer>>

(* Somebody writes config.toml. *)
EditConfig(mode) ==
  /\ config' = [mode |-> mode, mtime |-> config.mtime + 1]
  /\ server' = [server EXCEPT !.missed = @ \/ server.pc = "loaded"]
  /\ UNCHANGED answer

(* stdin ends. *)
Shutdown ==
  /\ server.pc = "up"
  /\ server' = NotServing /\ answer' = Silence /\ UNCHANGED config

-----------------------------------------------------------------------------
(* agentrec_status.                                                        *)

NeverStale == FALSE  \* mutant: an edited configuration is not noticed

RestartRequired == config.mtime # server.stamp

(* "held" is history. *)
Status ==
  [ kind |-> "status", mode |-> server.mode, revision |-> server.revision,
    restart |-> RestartRequired, held |-> config.mode ]

(* agentrec_undo: the rail before the matrix; all the rest is the          *)
(* coordinator's.                                                          *)
RequiredMode(action) ==
  CASE action = "request" -> "confirm" [] action = "execute" -> "auto" [] OTHER -> server.mode

UndoTool(args) ==
  CASE args.action \notin Actions -> Error("invalid params")
    [] args.action \in Actions ->
         IF server.mode = "auto" /\ args.allowModified THEN Failure("allow_modified_refused")
         ELSE IF RequiredMode(args.action) # server.mode THEN Failure("wrong_mode")
         ELSE [kind |-> "coordinator", action |-> args.action, allowModified |-> args.allowModified]

VisibleTools == ReadTools \cup IF server.mode # "off" THEN {"agentrec_undo"} ELSE {}

ToolsCall(tool, args) ==
  CASE tool = None -> Error("invalid params")
    [] tool = "agentrec_status" -> Status
    [] tool = "agentrec_undo" /\ server.mode # "off" -> UndoTool(args)
    [] tool \in ReadTools \ {"agentrec_status"} -> Success(tool)
    [] OTHER -> Error("invalid params")

Initialize(requested) ==
  IF requested # None /\ requested \notin Revisions THEN Error("invalid params")
  ELSE Success(IF requested = None THEN Pinned ELSE requested)

(* handle_line. *)
HandleLine(line) ==
  CASE line.shape = "blank"   -> Silence
    [] line.shape = "garbled" -> Error("parse error")
    [] line.shape = "batch"   -> Error("invalid request")
    [] line.shape = "object"  ->
         IF line.method = None THEN IF line.id THEN Error("invalid request") ELSE Silence
         ELSE IF ~ line.id THEN Silence
         ELSE CASE line.method = "initialize" -> Initialize(line.tool)
                [] line.method = "tools/list" -> [kind |-> "tools", tools |-> VisibleTools]
                [] line.method = "tools/call" -> ToolsCall(line.tool, line.args)
                [] line.method = "ping"       -> Success("pong")
                [] OTHER                      -> Error("method not found")

Object(id, method, tool, args) ==
  [shape |-> "object", id |-> id, method |-> method, tool |-> tool, args |-> args]
NoArgs == [action |-> None, allowModified |-> FALSE]

Frames ==
  [shape : {"blank", "garbled", "batch"}]
  \cup {Object(id, method, None, NoArgs) : id \in BOOLEAN, method \in {None, "tools/list", "ping", "exit"}}
  \cup {Object(id, "initialize", r, NoArgs) : id \in BOOLEAN, r \in Revisions \cup {None, "1999"}}
  \cup {Object(TRUE, "tools/call", tool, NoArgs) : tool \in ReadTools \cup {None}}
  \cup {Object(TRUE, "tools/call", "agentrec_undo", [action |-> a, allowModified |-> m]) :
          a \in Actions \cup {None}, m \in BOOLEAN}

Serve(line) ==
  /\ server.pc = "up"
  /\ answer' = HandleLine(line)
  /\ server' = IF line.shape = "object" /\ line.id /\ line.method = "initialize"
                    /\ HandleLine(line).kind = "result"
               THEN [server EXCEPT !.revision = HandleLine(line).what] ELSE server
  /\ UNCHANGED config

McpStep ==
  \/ Stamp \/ Shutdown
  \/ \E line \in Frames : Serve(line)

-----------------------------------------------------------------------------

(* The mode that agentrec_status reports is the one that config.toml gives *)
(* unless it says that the server must be restarted, or the file was       *)
(* edited between the read of it and of its time; what reaches the undo    *)
(* coordinator is what the mode of the start allows, whatever the file     *)
(* says meanwhile, and never in auto mode for modified files; and the      *)
(* pages of one query lose no row, but for a cursor whose row was purged   *)
(* under it (PagesComplete).                                               *)
AnswersHonest ==
  /\ answer.kind = "status" /\ ~ answer.restart =>
       answer.mode = answer.held \/ server.missed
  /\ answer.kind = "coordinator" =>
       /\ "agentrec_undo" \in VisibleTools
       /\ ~ (server.mode = "auto" /\ (answer.allowModified \/ answer.action = "request"))
       /\ ~ (server.mode = "confirm" /\ answer.action = "execute")
  /\ PagesComplete

(* What the server says of its stamp: an edit since it read the file is    *)
(* reported (status_tool, StatusPayload.restart_required).                 *)
EditsReported ==
  answer.kind = "status" /\ ~ answer.restart => answer.mode = answer.held
=============================================================================
