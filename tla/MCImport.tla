------------------------------ MODULE MCImport ------------------------------
(* The instances of ImportedLog that TLC explores: the sources of the      *)
(* content before an edit, runs that are killed and repeated over two      *)
(* files of one session, Codex, undo of an imported turn, and a client     *)
(* that pages while the log changes.                                       *)
EXTENDS ImportedLog

TheSessions == <<"s", "s", "x">>

Nothing == [ files |-> {}, paths |-> {"a"}, contents |-> {}, shapes |-> {}, words |-> {"v", "w"},
             initial |-> {<<"v", "w">>}, tracked |-> {FALSE}, logs |-> {<< >>},
             lines |-> 0, snapshots |-> 0, others |-> 0, commits |-> 0, reaps |-> 0,
             runs |-> 0, kills |-> 0, undos |-> 0, records |-> 0, reads |-> FALSE,
             sessions |-> 0, configs |-> 0 ]

BackedUp == [Nothing EXCEPT
  !.files = {1}, !.contents = {<<"w", "v">>}, !.lines = 4, !.snapshots = 2,
  !.shapes = {"edit", "write"}, !.others = 1, !.reaps = 1, !.runs = 1]

Committed == [Nothing EXCEPT
  !.files = {1}, !.contents = {<<"w", "v">>}, !.lines = 3, !.tracked = BOOLEAN,
  !.shapes = {"edit", "patched"}, !.others = 1, !.commits = 1, !.runs = 1]

Copies == [Nothing EXCEPT
  !.files = {1, 2}, !.contents = {<<"w", "v">>}, !.lines = 4, !.shapes = {"written", "create"},
  !.paths = {"a", "secret", "outside"}, !.runs = 2, !.kills = 1]

CodexRuns == [Nothing EXCEPT
  !.files = {3}, !.contents = {<<"v", "w">>, <<"big", "v">>}, !.lines = 3,
  !.paths = {"outside", "secret"}, !.initial = {Absent}, !.runs = 1, !.others = 1, !.commits = 1]

Undos == [Nothing EXCEPT
  !.files = {1}, !.contents = {<<"w", "v">>}, !.lines = 2, !.words = Words,
  !.paths = {"a", "secret"}, !.shapes = {"original", "create", "written"},
  !.initial = {Absent, <<"v", "w">>},
  !.runs = 1, !.undos = 2, !.others = 1]

Old(n, kind, merges, files) ==
  Turn(<<"live", IF n > 2 THEN 2 ELSE n>>, n, kind, merges, files, None)

(* Logs of a recorder that wrote a turn again when it was killed: with the *)
(* same files, or with others.                                             *)
Making(p) == <<Entry(p, None, <<"v", "w">>, "create", FALSE, FALSE)>>
Earlier == << Old(1, "bare", {}, << >>), Old(2, "rich", {}, << >>) >>
Rewritten == { Append(Earlier, Old(3, "rich", {}, f)) : f \in {<< >>, Making("a")} }

Pages == [Nothing EXCEPT
  !.logs = Rewritten, !.records = 3, !.reads = TRUE]

(* ... and again, three or four times in all, so that purge removes a      *)
(* record between two that it keeps.                                       *)
Thrice == [Nothing EXCEPT
  !.logs = { Earlier \o << Old(3, "rich", {}, f), Old(4, "rich", {}, g) >> :
               f, g \in {<< >>, Making("a"), Making("b")} }
           \cup { Earlier \o << Old(3, "rich", {}, << >>), Old(4, "rich", {}, Making("a")),
                              Old(5, "rich", {}, Making("b")) >> },
  !.records = 1, !.reads = TRUE]

(* A turn of four entries, two of one path, that is in the log once or     *)
(* twice, and its pages.                                                   *)
Wide ==
  << Entry("a", <<"v", "w">>, <<"w", "v">>, "modify", FALSE, FALSE), Entry("b", None, None, "modify", TRUE, FALSE),
     Entry("a", <<"w", "v">>, None, "delete", FALSE, FALSE), Entry("c", None, <<"v">>, "create", FALSE, FALSE) >>

Diffs == [Nothing EXCEPT
  !.logs = { << Old(1, "bare", {}, << >>), Old(2, "rich", {}, Wide), Old(3, "rich", {}, f) >> : f \in {Wide, SubSeq(Wide, 1, 2)} },
  !.records = 1, !.reads = TRUE]

Sessions == [Nothing EXCEPT !.sessions = 2, !.configs = 2]

UndoAlone == {Undos}
Claims == {Copies, Pages, Sessions}

Instances ==
  {BackedUp, Committed, Copies, CodexRuns, Undos, Pages, Thrice, Diffs, Sessions}
=============================================================================
