----------------------------- MODULE MCHistory ------------------------------
(* One tree, its watcher, its recorder and the queries over what they      *)
(* recorded, over small instances: those that change directories and ignore*)
(* rules, those that ask blame, and those that bisect.                     *)
EXTENDS Bisect

A == <<Top, "a">>
InSub == <<Sub, "a">>
Line(x) == {<<"text", x>>}
Drop(name) == {<<"drop", name>>}
Keep(name) == {<<"keep", name>>}

Nothing ==
  [ files |-> {A}, contents |-> [p \in {A} |-> {Line("v"), Line("w"), Line("v") \cup Line("w")}],
    arriving |-> {}, linux |-> TRUE, secret |-> {}, big |-> {},
    grades |-> {"bare"}, flushes |-> BOOLEAN, dirs |-> {{}}, initial |-> {[p \in {A} |-> Line("v")]},
    writes |-> 0, moves |-> 0, touches |-> 0, ends |-> 0, evictions |-> 0,
    bisects |-> 0, flaky |-> FALSE, fault |-> [path |-> A, line |-> <<"text", "w">>] ]

(* A directory that comes and goes, with its own rules or under those of   *)
(* the top one; on Linux and on macOS.                                     *)
Directories(linux) ==
  LET files == {InSub, GitIgnore(Sub)} IN
  [Nothing EXCEPT !.linux = linux, !.files = files, !.dirs = {{}, {Sub}},
     !.contents = (InSub :> {Absent, Line("v")}) @@ (GitIgnore(Sub) :> {Drop("a")}),
     !.arriving = {(InSub :> Line("w")) @@ (GitIgnore(Sub) :> Drop("a"))},
     !.initial = {[p \in files |-> Absent]},
     !.writes = 2, !.moves = 2, !.touches = 1]

(* Rules of both directories that contradict each other. *)
Rulings ==
  LET files == {GitIgnore(Top), GitIgnore(Sub), InSub} IN
  [Nothing EXCEPT !.files = files, !.dirs = {{Sub}},
     !.contents = (GitIgnore(Top) :> {Absent, Drop("a"), Drop(Sub)})
                    @@ (GitIgnore(Sub) :> {Absent, Keep("a"), Drop("*")})
                    @@ (InSub :> {Line("v")}),
     !.initial = {[p \in files |-> Absent]},
     !.writes = 3, !.ends = 1]

Blames ==
  [Nothing EXCEPT !.contents = [p \in {A} |-> @[p] \cup {Absent}], !.grades = {"bare", "rich"},
     !.writes = 3, !.ends = 1, !.evictions = 1,
     !.initial = {[p \in {A} |-> Absent], [p \in {A} |-> Line("v")]}]
BlamesSecret == [Blames EXCEPT !.secret = {A}, !.grades = {"bare"}]
BlamesBig    == [Blames EXCEPT !.big = {Line("w")}, !.grades = {"bare"}, !.ends = 0]

Bisects ==
  [Nothing EXCEPT !.grades = {"bare", "rich"}, !.flushes = {TRUE}, !.writes = 4, !.evictions = 1,
     !.bisects = 1, !.initial = {[p \in {A} |-> Absent]}]
BisectsGaps ==
  [Nothing EXCEPT !.grades = {"rich"}, !.flushes = {TRUE}, !.writes = 3, !.ends = 1, !.bisects = 1,
     !.flaky = TRUE]

(* The line comes and goes in one file while turns touch the other one:    *)
(* what the probes copy is the working tree's.                             *)
B == <<Top, "b">>
BisectsBeside ==
  [Nothing EXCEPT !.files = {A, B},
     !.contents = (A :> {Line("v"), Line("w")}) @@ (B :> {Line("v"), Line("w")}),
     !.grades = {"rich"}, !.flushes = {TRUE}, !.writes = 4, !.bisects = 1,
     !.initial = {[p \in {A, B} |-> Absent]}]

Instances ==
  {Directories(TRUE), Directories(FALSE), Rulings, Blames, BlamesSecret, BlamesBig,
   Bisects, BisectsGaps, BisectsBeside}

-----------------------------------------------------------------------------

vars == <<left, tree, dirs, up, armed, queue, matchers, dirty, admitted, pending, witness, history, search>>

Init ==
  /\ left \in Instances
  /\ dirs \in left.dirs /\ tree \in left.initial
  /\ HistoryInit /\ search = None

Next ==
  \/ (HistoryStep \/ (Elsewhere /\ NotRecorded)) /\ UNCHANGED search
  \/ BisectStep /\ UNCHANGED <<tree, dirs, up, armed, queue, matchers, dirty, admitted, pending,
                               witness, history>>

Spec == Init /\ [][Next]_vars
=============================================================================
