-------------------------- MODULE RecordedHistory ---------------------------
(* log.jsonl as the queries read it, with the tree and the blobs beside it:*)
(* each flush of the watcher's burst becomes one turn (TurnEngine has how  *)
(* bursts become turns), starts and stops of the daemon are epochs, and    *)
(* the recorder forgets what files held when it ends (daemon.rs).          *)
(*                                                                         *)
(* The position of a record stands for its times and for a turn's id; a    *)
(* content is its own hash.                                                *)
EXTENDS Watcher

VARIABLES
  records,   \* log.jsonl
  baseline,  \* Recorder.baseline: the content last snapshotted, or None
  known,     \* Recorder.known: files that exist as far as it knows
  blobs,     \* the store
  origin,    \* history: of each line that the recorder has seen, how it came in
  prior,     \* history: the same before the last turn
  brought,   \* history: the lines that each turn brought
  moved      \* history: by how many lines the changes of each file moved its size

history == <<records, baseline, known, blobs, origin, prior, brought, moved>>

Initially == <<"initially">>    \* before the recorder
InTurn(i) == <<"turn", i>>
Pending == <<"pending">>        \* no turn tells of it yet
Unrecorded == <<"unrecorded">>  \* ... or ever

Lines(p) == IF Exists(p) THEN tree[p] ELSE {}
Secret(p) == p \in left.secret
Storable(c) == c \notin left.big

Turn(grade, merges, files) ==
  [type |-> "turn", grade |-> grade, merges |-> merges, files |-> files]
Epoch(event) == [type |-> "epoch", event |-> event]

Turns == {i \in DOMAIN records : records[i].type = "turn"}
Touching(p) == {i \in Turns : p \in DOMAIN records[i].files}
Touched(i) == DOMAIN records[i].files
EntryOf(i, p) == records[i].files[p]

-----------------------------------------------------------------------------
(* Recorder::stage and Recorder::resolve for one file, see SnapshotRecorder*)
(* for what they do within a turn. A null is None, as an entry has it.     *)

BeforeOf(p) == baseline[p]
UnknownBefore(p) == baseline[p] = None /\ p \in known

(* A file that came and went within one burst is noise. *)
Reported(P) == {p \in P : Exists(p) \/ baseline[p] # None \/ UnknownBefore(p)}

Entry(p) ==
  [ before   |-> BeforeOf(p),
    after    |-> IF Secret(p) \/ ~ Exists(p) THEN None ELSE tree[p],
    op       |-> IF ~ Exists(p) THEN "delete"
                 ELSE IF baseline[p] = None /\ ~ UnknownBefore(p) THEN "create" ELSE "modify",
    unknown  |-> UnknownBefore(p),
    withheld |-> Secret(p),
    skipped  |-> ~ Secret(p) /\ Exists(p) /\ ~ Storable(tree[p]) ]

Stage(P) ==
  LET plain == {p \in P : ~ Secret(p)} IN
    /\ baseline' = [p \in Files |-> IF p \notin plain THEN baseline[p]
                                    ELSE IF Exists(p) THEN tree[p] ELSE None]
    /\ known' = (known \ {p \in P : ~ Exists(p)}) \cup {p \in plain : Exists(p)}
    /\ blobs' = blobs \cup {tree[p] : p \in {q \in plain : Exists(q) /\ Storable(tree[q])}}

(* A turn takes over the entries of the bare turn it merges: the earlier   *)
(* `before`, the later everything else.                                    *)
Merged(old, new) ==
  [p \in DOMAIN old \cup DOMAIN new |->
     IF p \notin DOMAIN new THEN old[p]
     ELSE IF p \notin DOMAIN old THEN new[p]
     ELSE [new[p] EXCEPT !.before = old[p].before, !.unknown = old[p].unknown,
             !.op = IF @ = "delete" THEN @
                    ELSE IF old[p].before = None /\ ~ old[p].unknown THEN "create" ELSE "modify"]]

Foldable(grade) ==
  {i \in Turns : grade = "rich" /\ i = Len(records) /\ records[i].grade = "bare"}

(* One iteration of the daemon's loop.                                     *)
Iterate(flush, grade, merges) ==
  LET staged == Reported(Staged(flush))
      turn   == Turn(grade, merges,
                  Merged(IF merges = {} THEN << >> ELSE records[CHOOSE i \in merges : TRUE].files,
                         [p \in staged |-> Entry(p)]))
      id     == Len(records) + 1
      base   == IF merges = {} THEN origin ELSE prior
  IN  /\ merges \subseteq Foldable(grade)
      /\ Drain(flush)
      /\ Stage(staged)
      /\ records' = IF staged = {} THEN records ELSE Append(records, turn)
      /\ origin' = [p \in Files |->
           [l \in IF p \in staged THEN Lines(p) ELSE DOMAIN origin[p] |->
              IF l \in DOMAIN base[p] THEN base[p][l] ELSE InTurn(id)]]
      /\ prior' = IF staged = {} THEN prior ELSE base
      /\ brought' = brought \cup
           UNION {{<<id, p, l>> : l \in Lines(p) \ DOMAIN base[p]} :
                    p \in IF staged = {} THEN {} ELSE DOMAIN turn.files}
      /\ (staged = {} => merges = {} /\ grade = "bare")
      /\ UNCHANGED moved

-----------------------------------------------------------------------------

Origin(p, line) ==
  IF line \in DOMAIN origin[p] THEN origin[p][line] ELSE IF up THEN Pending ELSE Unrecorded

Length(t, p) == IF t[p] = Absent THEN 0 ELSE Cardinality(t[p])
AbsDiff(m, n) == IF m > n THEN m - n ELSE n - m
Tally == moved' = [p \in Files |-> moved[p] + AbsDiff(Length(tree', p), Length(tree, p))]

NotRecorded == Tally /\ UNCHANGED <<records, baseline, known, blobs, origin, prior, brought>>

Change(p, c) ==
  /\ Write(p, c)
  /\ NotRecorded

Forget ==
  /\ baseline' = [p \in Files |-> None]
  /\ known' = {p \in Files : Exists(p)}

(* The daemon is stopped, when it has flushed its burst, or killed.        *)
Stop ==
  /\ up /\ pending = {}
  /\ Spend("ends") /\ End
  /\ records' = Append(records, Epoch("stop"))
  /\ UNCHANGED <<baseline, known, blobs, origin, prior, brought, moved>>

Kill ==
  /\ up /\ Spend("ends") /\ End
  /\ UNCHANGED history

Start ==
  /\ ~ up /\ Begin /\ Forget
  /\ records' = Append(records, Epoch("start"))
  /\ origin' = [p \in Files |-> [l \in Lines(p) |->
                  IF l \in DOMAIN origin[p] THEN origin[p][l] ELSE Unrecorded]]
  /\ UNCHANGED <<left, blobs, prior, brought, moved>>

(* Retention, or a purge, removes a snapshot.                              *)
Evict(c) ==
  /\ c \in blobs /\ Spend("evictions")
  /\ blobs' = blobs \ {c}
  /\ UNCHANGED <<tree, dirs, up, armed, queue, matchers, dirty, admitted, pending, witness,
                 records, baseline, known, origin, prior, brought, moved>>

HistoryInit ==
  /\ WatcherInit
  /\ records = << Epoch("start") >>
  /\ baseline = [p \in Files |-> None] /\ known = {p \in Files : Exists(p)}
  /\ blobs = {}
  /\ origin = [p \in Files |-> [l \in Lines(p) |-> Initially]]
  /\ prior = origin /\ brought = {} /\ moved = [p \in Files |-> 0]

HistoryStep ==
  \/ \E p \in Files : \E c \in left.contents[p] : Change(p, c)
  \/ \E flush \in left.flushes, grade \in left.grades : \E merges \in SUBSET Foldable(grade) :
       Iterate(flush, grade, merges)
  \/ Stop \/ Kill \/ Start
  \/ \E c \in blobs : Evict(c)
=============================================================================
