------------------------------ MODULE Watcher ------------------------------
(* How a change of the working tree becomes a path to snapshot: the events *)
(* of the notify library, the ignore rules of the top directory and of one *)
(* below it, the admission of what a new directory holds already, and the  *)
(* burst that is debounced (cli/src/daemon.rs).                            *)
(*                                                                         *)
(* A file is a pair of its directory and its name; its content is a set of *)
(* lines, which for a .gitignore are patterns. Settling of the burst is    *)
(* SnapshotRecorder's subject: here a burst may be flushed at any          *)
(* iteration. The built-in deny list only removes paths from consideration.*)
EXTENDS Naturals, Sequences, FiniteSets, SequencesExt, FiniteSetsExt

CONSTANTS None, Absent

Top == "/"
Sub == "d"
SubPath == <<Top, Sub>>           \* the directory below, as a path
GitIgnore(dir) == <<dir, ".gitignore">>

VARIABLES
  left,      \* the instance: its files and contents, and how many actions are left
  tree,      \* what each file holds
  dirs,      \* directories below the top one that exist
  up,        \* a daemon runs
  armed,     \* those the library watches
  queue,     \* events the daemon has not drained
  matchers,  \* IgnoreSet: the patterns by directory, as of the last build
  dirty,     \* gitignore_dirty
  admitted,  \* admitted_dirs
  pending,   \* the burst
  seen,      \* history: what each file held when it was last staged
  missed,    \* history: changed files that may go unseen, see NothingMissed
  astray,    \* history: directories whose rules changed without an event
  asked,     \* history: files changed since they were staged
  unasked    \* history: files staged without either

witness == <<seen, missed, astray, asked, unasked>>

Files == left.files
In(dir) == {p \in Files : p[1] = dir}
Exists(p) == tree[p] # Absent

-----------------------------------------------------------------------------
(* Ignore rules. *)

PatternsOf(dir) ==
  IF GitIgnore(dir) \in Files /\ Exists(GitIgnore(dir)) THEN tree[GitIgnore(dir)] ELSE {}

Match(patterns, name) ==
  IF <<"keep", name>> \in patterns THEN "keep"
  ELSE IF {<<"drop", name>>, <<"drop", "*">>} \cap patterns # {} THEN "drop" ELSE None

Verdict(m, dir, name) == IF dir \in DOMAIN m THEN Match(m[dir], name) ELSE None

(* is_ignored: the closest directory that says anything decides; the top   *)
(* one is asked for the name and then for the directory it is in.          *)
IsIgnored(m, p) ==
  LET said == SelectSeq(<< Verdict(m, p[1], p[2]), Verdict(m, Top, p[2]), Verdict(m, Top, p[1]) >>,
                        LAMBDA v : v # None)
  IN  said # << >> /\ said[1] = "drop"

(* IgnoreSet::build: the patterns of each directory the walk reaches.      *)
Build ==
  [dir \in {Top} \cup {d \in dirs : ~ IsIgnored((Top :> PatternsOf(Top)), <<Top, d>>)} |->
     PatternsOf(dir)]

-----------------------------------------------------------------------------
(* The world and the notify library. *)

Spend(what) == left[what] > 0 /\ left' = [left EXCEPT ![what] = @ - 1]

Event(kind, path) == [kind |-> kind, path |-> path]

Noticed(p) == up /\ p[1] \in armed \cup {Top}

(* The directory's own event is still to be drained: it will be walked.    *)
ToBeWalked(dir) == \E e \in Range(queue) : e.path = <<Top, dir>> /\ e.kind \in {"create", "rename"}

Announce(kind, path, noticed) ==
  queue' = IF up /\ noticed THEN Append(queue, Event(kind, path)) ELSE queue

(* Files that the rules, as they are in the tree, let through.             *)
LetThrough(P) == {p \in P : ~ IsIgnored(Build, p)}

(* A file is written, or removed (c = Absent).                             *)
Write(p, c) ==
  /\ Spend("writes")
  /\ p[1] \in dirs \cup {Top} /\ tree[p] # c
  /\ tree' = [tree EXCEPT ![p] = c]
  /\ Announce(IF c = Absent THEN "remove" ELSE IF Exists(p) THEN "data" ELSE "create", p, Noticed(p))
  /\ asked' = asked \cup {p}
  /\ UNCHANGED <<dirs, up, armed, matchers, dirty, admitted, pending, seen, unasked>>
  /\ astray' = IF p = GitIgnore(p[1]) /\ ~ Noticed(p) THEN astray \cup {p[1]} ELSE astray
  /\ missed' = IF (Noticed(p) \/ (c # Absent /\ ToBeWalked(p[1]))) /\ LetThrough({p})' # {}
               THEN missed \ {p} ELSE missed \cup {p}

MakeDir ==
  /\ Spend("moves")
  /\ Sub \notin dirs
  /\ dirs' = dirs \cup {Sub}
  /\ armed' = IF left.linux THEN armed ELSE dirs'
  /\ Announce("create", SubPath, TRUE)
  /\ UNCHANGED <<tree, up, matchers, dirty, admitted, pending, seen, missed, astray,
                 asked, unasked>>

(* notify adds the watch on a new directory some time after its event.     *)
Arm ==
  /\ Sub \in dirs \ armed
  /\ armed' = armed \cup {Sub}
  /\ UNCHANGED <<left, tree, dirs, up, queue, matchers, dirty, admitted, pending, seen,
                 missed, astray, asked, unasked>>

(* mv d elsewhere: one event, for the directory.                           *)
MoveAway ==
  /\ Spend("moves")
  /\ Sub \in dirs
  /\ dirs' = dirs \ {Sub} /\ armed' = armed \ {Sub}
  /\ tree' = [p \in Files |-> IF p[1] = Sub THEN Absent ELSE tree[p]]
  /\ Announce("rename", SubPath, TRUE)
  /\ missed' = missed \cup In(Sub)
  /\ astray' = astray \cup {Sub}
  /\ asked' = asked \cup In(Sub)
  /\ UNCHANGED <<up, matchers, dirty, admitted, pending, seen, unasked>>

(* mv elsewhere d, with what it holds. *)
MoveIn(contents) ==
  /\ Spend("moves")
  /\ Sub \notin dirs
  /\ dirs' = dirs \cup {Sub}
  /\ armed' = IF left.linux THEN armed ELSE dirs'
  /\ tree' = [p \in Files |-> IF p[1] = Sub THEN contents[p] ELSE tree[p]]
  /\ Announce("rename", SubPath, TRUE)
  /\ astray' = astray \cup {Sub}
  /\ asked' = asked \cup In(Sub)
  /\ UNCHANGED <<up, matchers, dirty, admitted, pending, seen, unasked>>
  /\ missed' = (missed \ In(Sub))
       \cup {p \in In(Sub) : contents[p] = Absent \/ p \notin LetThrough(In(Sub))'}

(* rm -r d: an event for each file and one for the directory.              *)
RemoveDir ==
  /\ Spend("moves")
  /\ Sub \in dirs
  /\ dirs' = dirs \ {Sub} /\ armed' = armed \ {Sub}
  /\ tree' = [p \in Files |-> IF p[1] = Sub THEN Absent ELSE tree[p]]
  /\ LET gone == SetToSeq({p \in In(Sub) : Exists(p)})
         events == [i \in DOMAIN gone |-> Event("remove", gone[i])]
     IN  queue' = IF ~ up THEN queue
                  ELSE queue \o (IF Sub \in armed THEN events ELSE << >>)
                             \o << Event("removeDir", SubPath) >>
  /\ missed' = IF Sub \in armed THEN missed \cup (In(Sub) \ LetThrough(In(Sub)))
               ELSE missed \cup In(Sub)
  /\ asked' = asked \cup In(Sub)
  /\ UNCHANGED <<up, matchers, dirty, admitted, pending, seen, astray, unasked>>

(* touch d. FSEvents may report it as the creation it also remembers.      *)
Touch ==
  /\ Spend("touches")
  /\ Sub \in dirs
  /\ \E kind \in IF left.linux THEN {"data"} ELSE {"data", "create"} :
       Announce(kind, SubPath, TRUE)
  /\ up
  /\ UNCHANGED <<tree, dirs, up, armed, matchers, dirty, admitted, pending, seen,
                 missed, astray, asked, unasked>>

-----------------------------------------------------------------------------
(* One iteration of the daemon's loop. *)

AdmittingKinds == IF left.linux THEN {"create", "rename"} ELSE {"rename"}

(* What a directory holds, as admit_existing_contents walks it.            *)
Contents(m, dir) == {p \in In(dir) : Exists(p) /\ ~ IsIgnored(m, p)}

AppliedWatched(m, s, e) ==  \* mutant: the event of an ignored .gitignore is passed over
  LET before  == IF e.kind \in {"removeDir", "rename"} THEN s.admitted \ {e.path[2]} ELSE s.admitted
      watched == ~ IsIgnored(m, e.path)
      walked  == /\ watched /\ e.path = SubPath /\ Sub \in dirs
                 /\ e.kind \in AdmittingKinds /\ Sub \notin before
  IN  [ dirty    |-> s.dirty \/ (watched /\ e.path[2] = ".gitignore"),
        admitted |-> IF walked THEN before \cup {Sub} ELSE before,
        pending  |-> (IF watched THEN s.pending \cup {e.path} ELSE s.pending)
                       \cup (IF walked THEN Contents(m, Sub) ELSE {}) ]

(* apply_watch_result: a directory is walked when it has just appeared,    *)
(* once until it is removed or renamed; the event of a .gitignore has the  *)
(* rules rebuilt, also when they ignore it.                                *)
Applied(m, s, e) ==
  LET before  == IF e.kind \in {"removeDir", "rename"} THEN s.admitted \ {e.path[2]} ELSE s.admitted
      watched == ~ IsIgnored(m, e.path)
      walked  == /\ watched /\ e.path = SubPath /\ Sub \in dirs
                 /\ e.kind \in AdmittingKinds /\ Sub \notin before
  IN  [ dirty    |-> s.dirty \/ e.path[2] = ".gitignore",
        admitted |-> IF walked THEN before \cup {Sub} ELSE before,
        pending  |-> (IF watched THEN s.pending \cup {e.path} ELSE s.pending)
                       \cup (IF walked THEN Contents(m, Sub) ELSE {}) ]

(* The rules as of this iteration (maybe_rebuild). *)
Rules == IF dirty THEN Build ELSE matchers

Drained ==
  FoldLeft(LAMBDA s, e : Applied(Rules, s, e),
           [dirty |-> FALSE, admitted |-> admitted, pending |-> pending], queue)

RuleEvents == \E e \in Range(queue) : e.path[2] = ".gitignore"

(* History: changes of this batch that stale rules drop, or new ones.      *)
DroppedStale ==
  {p \in Files :
     /\ p \in asked \ Drained.pending
     /\ RuleEvents \/ (p[1] \in astray /\ ~ dirty) \/ IsIgnored(Build, p)}

(* Drain, and flush the burst or let it wait. Flushing stages the files in *)
(* it (Recorder::stage passes over directories).                           *)
Drain(flush) ==
  LET staged == IF flush THEN Drained.pending \cap Files ELSE {} IN
    /\ up
    /\ matchers' = Rules
    /\ dirty' = Drained.dirty /\ admitted' = Drained.admitted
    /\ pending' = IF flush THEN {} ELSE Drained.pending
    /\ queue' = << >>
    /\ seen' = [p \in Files |-> IF p \in staged THEN tree[p] ELSE seen[p]]
    /\ missed' = (missed \cup DroppedStale) \ staged
    /\ astray' = IF dirty THEN {} ELSE astray
    /\ asked' = asked \ staged
    /\ unasked' = unasked \cup {p \in staged \ asked : tree[p] = seen[p]}
    /\ UNCHANGED <<left, tree, dirs, up, armed>>

Staged(flush) == IF flush THEN Drained.pending \cap Files ELSE {}

(* The watcher at the start of a daemon, and at its end.                   *)
Begin ==
  /\ up' = TRUE
  /\ armed' = dirs
  /\ matchers' = Build
  /\ seen' = tree
  /\ UNCHANGED <<tree, dirs, queue, dirty, admitted, pending, missed, astray, asked, unasked>>

End ==
  /\ up' = FALSE
  /\ queue' = << >> /\ pending' = {} /\ dirty' = FALSE /\ admitted' = {} /\ armed' = {}
  /\ missed' = {} /\ astray' = {} /\ asked' = {}
  /\ UNCHANGED <<tree, dirs, matchers, seen, unasked>>

(* What happens to directories. *)
Elsewhere ==
  \/ MakeDir \/ Arm \/ MoveAway \/ RemoveDir \/ Touch
  \/ \E contents \in left.arriving : MoveIn(contents)

WatcherInit ==
  /\ up = TRUE /\ armed = dirs /\ matchers = Build
  /\ queue = << >> /\ dirty = FALSE /\ admitted = {} /\ pending = {}
  /\ seen = tree /\ missed = {} /\ astray = {} /\ asked = {} /\ unasked = {}

-----------------------------------------------------------------------------
(* When the daemon has drained and flushed everything, every change to a   *)
(* file that the rules let through has been staged. "missed" holds the     *)
(* exceptions: a file written to a new directory that is not watched yet   *)
(* when its walk is over, a path whose rules change in the same batch or   *)
(* moved with its directory, and the files of a directory that is moved    *)
(* away.                                                                   *)
NothingMissed ==
  up /\ queue = << >> /\ pending = {} => {p \in asked : tree[p] # seen[p]} \subseteq missed

(* A file is staged only when it has changed or an event names it: not     *)
(* because its directory was touched.                                      *)
NothingFabricated == unasked = {}

(* Both: what the watcher hands to the recorder is what has changed.       *)
ChangesStaged == NothingMissed /\ NothingFabricated
=============================================================================
