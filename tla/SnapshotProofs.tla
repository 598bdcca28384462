--------------------------- MODULE SnapshotProofs ---------------------------
(***************************************************************************)
(* Promises of the recorder and of undo about contents, for every set of   *)
(* files and every bound of an exploration:                                *)
(*   - `before` of a recorded file is what the recorder had last seen of   *)
(*     it (BeforeIsLastSeen);                                              *)
(*   - what undo overwrites is recorded (OverwrittenIsRecorded);           *)
(*   - when nothing is under way, the log tells what the files hold        *)
(*     (LogExplainsDisk).                                                  *)
(*                                                                         *)
(* The trail of a path is what became of it, in order.  A turn is `Told`   *)
(* by the trails when its files are those observed under its ids and each  *)
(* `before` is what was seen before the first of these observations.       *)
(* EngineOK says so of the turns that the engine holds, LoggedInv of those *)
(* in the log and of the journal; each method of the engine keeps it       *)
(* (GitChange, Changes, Signals, Ticks) and hands over turns of which it   *)
(* is true.  With KnownInv, that the recorder believes of a file what it   *)
(* has last seen of it, this is inductive (SnapshotInv, EveryStep).        *)
(*                                                                         *)
(* For the last promise the files are followed from the disk to the log.   *)
(* LogInv says of each of them (ToldAt) how what the file holds, what the  *)
(* recorder last saw of it, what it would write and what its last record   *)
(* tells can differ: by an event that waits, or by an undo that has not    *)
(* recorded.  PassesOn says of each method of the engine that it keeps, or *)
(* hands over, the files that no record of its turn tells of yet.          *)
(***************************************************************************)
EXTENDS SnapshotRecorder, SequenceTheorems, WellFoundedInduction, TLAPS

Sequence(s) == s \in Seq(Range(s))

(* What became of a path, in order: the daemon's sightings carry the id of *)
(* a turn, and turns are observed under in the order of their ids.         *)
TrailOK(tr, n) ==
  \A p \in Paths :
    /\ Sequence(tr[p]) /\ Len(tr[p]) >= 1 /\ tr[p][1].by = "boot" /\ tr[p][1].id = 0
    /\ \A k \in DOMAIN tr[p] : tr[p][k].id \in Nat /\ tr[p][k].id < n
    /\ \A j, k \in DOMAIN tr[p] : j < k /\ tr[p][k].id # 0 => tr[p][j].id <= tr[p][k].id

FirstAt(s, ids, k) ==
  k \in DOMAIN s /\ s[k].id \in ids /\ \A j \in DOMAIN s : j < k => s[j].id \notin ids

FilesOK(files) ==
  /\ DOMAIN files \subseteq Paths
  /\ \A p \in DOMAIN files :
       files[p] = [before |-> files[p].before, status |-> files[p].status,
                   reason |-> files[p].reason]

(* The files of a turn are those observed under its ids, and `before` of   *)
(* each is what the recorder had seen before the first of these sightings. *)
Told(tr, ids, files) ==
  \A p \in Paths :
    /\ (\E k \in DOMAIN tr[p] : tr[p][k].id \in ids) => p \in DOMAIN files
    /\ p \in DOMAIN files =>
         \E k \in DOMAIN tr[p] :
           FirstAt(tr[p], ids, k) /\ files[p].before = SeenBefore(tr[p], k)

OpenOK(o, n, t, tr) ==
  /\ o = [ source |-> o.source, tool |-> o.tool, openedAt |-> o.openedAt, files |-> o.files,
           id |-> o.id, emitterTurn |-> o.emitterTurn ]
  /\ o.source \in {"quiet", "git", "bracket"}
  /\ o.openedAt \in Nat /\ o.openedAt <= t
  /\ o.id \in Nat \ {0} /\ o.id < n
  /\ FilesOK(o.files) /\ Told(tr, {o.id}, o.files)
  /\ \A p \in Paths : \A k \in DOMAIN tr[p] : tr[p][k].id <= o.id

ClosedOK(c, n, tr) ==
  /\ Family(c) \subseteq Nat \ {0} /\ \A i \in Family(c) : i < n
  /\ FilesOK(c.files) /\ Told(tr, Family(c), c.files)

BareOK(b, n, t, tr) ==
  /\ ClosedOK(b, n, tr) /\ b.merges = {}
  /\ b.openedAt \in Nat /\ b.openedAt < t

IsEngine(e) ==
  e = [ open |-> e.open, lastChange |-> e.lastChange, gitUntil |-> e.gitUntil,
        recentBare |-> e.recentBare, lastRich |-> e.lastRich, pending |-> e.pending ]

(* What is open is younger than what the engine has closed.                *)
Younger(o, B, P) ==
  /\ \A b \in B : b.id < o.id /\ b.openedAt < o.openedAt
  /\ \A c \in Range(P) : \A i \in Family(c) : i < o.id

BaresOK(B, n, t, tr) ==
  /\ \A b \in B : BareOK(b, n, t, tr)
  /\ \A b, c \in B : (b.id = c.id => b = c) /\ (b.id < c.id => b.openedAt < c.openedAt)

ClosedsOK(C, n, tr) == Sequence(C) /\ \A c \in Range(C) : ClosedOK(c, n, tr)

EngineOK(e, n, t, tr) ==
  /\ IsEngine(e)
  /\ e.open # None =>
       /\ OpenOK(e.open, n, t, tr) /\ Younger(e.open, e.recentBare, e.pending)
       /\ e.lastChange = None \/ e.lastChange \in e.open.openedAt .. t
  /\ BaresOK(e.recentBare, n, t, tr) /\ ClosedsOK(e.pending, n, tr)

EngineInv ==
  /\ nextId \in Nat \ {0} /\ now \in Nat /\ up \in BOOLEAN
  /\ TrailOK(trail, nextId) /\ trail = [p \in Paths |-> trail[p]]
  /\ EngineOK(eng, nextId, now, trail)
  /\ ~ up => eng = NewEngine

(* What the daemon believes of a file is what it has last seen of it.      *)
KnownInv ==
  up => \A p \in Paths : SeenBefore(trail[p], Len(trail[p]) + 1) = BeforeOf(p)

LoggedInv ==
  /\ Sequence(logf)
  /\ \A r \in ByDaemon :
       /\ Family(r) \subseteq Nat \ {0} /\ \A i \in Family(r) : i < nextId
       /\ eng.open # None => \A i \in Family(r) : i < eng.open.id
       /\ DOMAIN r.files \subseteq Paths /\ Told(trail, Family(r), r.files)
  /\ journal # None =>
       /\ journal.id \in Nat \ {0} /\ journal.id < nextId
       /\ up => eng.open # None /\ journal.id = eng.open.id
       /\ DOMAIN journal.files \subseteq Paths /\ Told(trail, {journal.id}, journal.files)

(* Contents are numbers of edits so far, or Absent; what was seen of a     *)
(* file and what a record has of it may be Unknown, which undo never       *)
(* writes.                                                                 *)
Stored == (0 .. writes) \cup {Absent}
Values == Stored \cup {Unknown}

ContentInv ==
  /\ disk \in [Paths -> Stored] /\ writes \in Nat /\ writes <= MaxEdits
  /\ queue \subseteq Paths /\ pending \subseteq Paths
  /\ \A p \in Paths : \A k \in DOMAIN trail[p] : trail[p][k].content \in Values
  /\ \A r \in Logged :
       \/ r.by = "daemon"
       \/ r.by = "undo" /\ \A p \in DOMAIN r.files : r.files[p].before \in Values
  /\ undo.at \in {"plan", "revert"} =>
       \A p \in undo.todo : Restored(undo.turn.files[p]) \in Stored
  /\ undo.at = "revert" =>
       \A p \in DOMAIN undo.done :
         undo.done[p].before \in Stored /\ undo.done[p].after \in Stored
  /\ undo.at = "revert" /\ undo.on # None =>
       undo.on.path \in Paths /\ undo.on.read \in Stored

(* A file between its write and its verification is among those that are   *)
(* done, with what was read of it; what undo has overwritten is recorded,  *)
(* or about to be.                                                         *)
UndoInv ==
  /\ undo.at \in {"idle", "plan", "revert", "linger"}
  /\ undo.at = "revert" =>
       /\ undo = [ at |-> "revert", turn |-> undo.turn, todo |-> undo.todo,
                   done |-> undo.done, on |-> undo.on ]
       /\ undo.todo \cap DOMAIN undo.done = {}
       /\ undo.on # None =>
            \/ undo.on.path \in undo.todo
            \/ /\ undo.on.path \in DOMAIN undo.done
               /\ undo.done[undo.on.path].before = undo.on.read
  /\ \A x \in replaced : x = <<x[1], x[2]>>
  /\ \A x \in replaced :
       \/ \E r \in Logged : /\ r.by = "undo" /\ x[1] \in DOMAIN r.files
                            /\ r.files[x[1]].before = x[2]
       \/ undo.at = "revert" /\ x[1] \in DOMAIN undo.done /\ undo.done[x[1]].before = x[2]
-----------------------------------------------------------------------------
(* Sequences.                                                              *)

LEMMA AnySequence ==
  ASSUME NEW T, NEW s \in Seq(T)
  PROVE  /\ Sequence(s) /\ Len(s) \in Nat /\ DOMAIN s = 1 .. Len(s)
         /\ \A i \in DOMAIN s : s[i] \in Range(s)
<1>1. Len(s) \in Nat /\ DOMAIN s = 1 .. Len(s) /\ s \in [1 .. Len(s) -> T]
  OBVIOUS
<1>2. \A i \in DOMAIN s : s[i] \in Range(s)
  BY DEF Range
<1>3. s \in [1 .. Len(s) -> Range(s)]
  BY <1>1, <1>2
<1> QED
  BY <1>1, <1>2, <1>3, SeqDef DEF Sequence

LEMMA EmptySequence == Sequence(<< >>) /\ Range(<< >>) = {} /\ Len(<< >>) = 0
<1>1. << >> \in Seq({}) /\ Len(<< >>) = 0 /\ DOMAIN << >> = {}
  OBVIOUS
<1>2. Sequence(<< >>)
  BY <1>1, AnySequence
<1>3. Range(<< >>) = {}
  BY <1>1 DEF Range
<1> QED
  BY <1>1, <1>2, <1>3

LEMMA AppendSequence ==
  ASSUME NEW s, NEW x, Sequence(s), NEW z, z = Append(s, x)
  PROVE  /\ Sequence(z) /\ Len(z) = Len(s) + 1 /\ Len(s) \in Nat
         /\ DOMAIN s = 1 .. Len(s) /\ DOMAIN z = 1 .. Len(s) + 1
         /\ z[Len(s) + 1] = x /\ \A i \in DOMAIN s : z[i] = s[i]
         /\ Range(z) = Range(s) \cup {x}
<1> DEFINE T == Range(s) \cup {x}
<1>1. /\ Len(s) \in Nat /\ DOMAIN s = 1 .. Len(s) /\ s \in [1 .. Len(s) -> Range(s)]
  BY AnySequence DEF Sequence
<1>2. s \in [1 .. Len(s) -> T]
  BY <1>1
<1>3. s \in Seq(T) /\ x \in T
  BY <1>1, <1>2, SeqDef
<1> HIDE DEF T
<1>4. /\ z \in Seq(T) /\ Len(z) = Len(s) + 1
      /\ DOMAIN z = 1 .. Len(s) + 1 /\ z[Len(s) + 1] = x
      /\ \A i \in 1 .. Len(s) : z[i] = s[i]
  BY <1>3
<1>5. Sequence(z)
  BY <1>4, AnySequence
<1>6. Range(z) = Range(s) \cup {x}
  <2>1. DOMAIN z = DOMAIN s \cup {Len(s) + 1}
    BY <1>1, <1>4
  <2> QED
    BY <1>1, <1>4, <2>1 DEF Range
<1> QED
  BY <1>1, <1>4, <1>5, <1>6

LEMMA OneSequence ==
  ASSUME NEW x
  PROVE  Sequence(<<x>>) /\ Range(<<x>>) = {x}
<1>1. <<x>> \in Seq({x}) /\ DOMAIN <<x>> = {1} /\ <<x>>[1] = x
  OBVIOUS
<1>2. Sequence(<<x>>)
  BY <1>1, AnySequence
<1>3. Range(<<x>>) = {x}
  BY <1>1 DEF Range
<1> QED
  BY <1>2, <1>3

LEMMA ConcatSequence ==
  ASSUME NEW s, NEW r, Sequence(s), Sequence(r), NEW z, z = s \o r
  PROVE  Sequence(z) /\ Range(z) = Range(s) \cup Range(r)
<1> DEFINE T == Range(s) \cup Range(r)
<1>1. /\ Len(s) \in Nat /\ DOMAIN s = 1 .. Len(s) /\ s \in [1 .. Len(s) -> Range(s)]
      /\ Len(r) \in Nat /\ DOMAIN r = 1 .. Len(r) /\ r \in [1 .. Len(r) -> Range(r)]
  BY AnySequence DEF Sequence
<1>2. s \in [1 .. Len(s) -> T] /\ r \in [1 .. Len(r) -> T]
  BY <1>1
<1>3. s \in Seq(T) /\ r \in Seq(T)
  <2> HIDE DEF T
  <2>1. s \in Seq(T)
    BY <1>1, <1>2, SeqDef
  <2>2. r \in Seq(T)
    BY <1>1, <1>2, SeqDef
  <2> QED
    BY <2>1, <2>2
<1> HIDE DEF T
<1>4. /\ z \in Seq(T) /\ DOMAIN z = 1 .. Len(s) + Len(r)
      /\ \A i \in 1 .. Len(s) : z[i] = s[i]
      /\ \A i \in 1 .. Len(r) : z[Len(s) + i] = r[i]
  BY <1>3
<1>5. Sequence(z)
  BY <1>4, AnySequence
<1>6. \A i \in DOMAIN z : z[i] \in Range(s) \cup Range(r)
  <2>1. ASSUME NEW i \in DOMAIN z PROVE z[i] \in Range(s) \cup Range(r)
    <3>1. CASE i <= Len(s)
      <4>1. i \in DOMAIN s /\ z[i] = s[i]
        BY <1>1, <1>4, <3>1
      <4> QED
        BY <4>1 DEF Range
    <3>2. CASE i > Len(s)
      <4>1. i - Len(s) \in DOMAIN r /\ i = Len(s) + (i - Len(s))
        BY <1>1, <1>4, <3>2
      <4>2. z[i] = r[i - Len(s)]
        BY <1>1, <1>4, <4>1
      <4> QED
        BY <4>1, <4>2 DEF Range
    <3> QED
      BY <1>1, <1>4, <3>1, <3>2
  <2> QED
    BY <2>1
<1>7. \A i \in DOMAIN s : s[i] \in Range(z)
  <2>1. \A i \in DOMAIN s : i \in DOMAIN z /\ z[i] = s[i]
    BY <1>1, <1>4
  <2> QED
    BY <2>1 DEF Range
<1>8. \A i \in DOMAIN r : r[i] \in Range(z)
  <2>1. \A i \in DOMAIN r : Len(s) + i \in DOMAIN z /\ z[Len(s) + i] = r[i]
    BY <1>1, <1>4
  <2> QED
    BY <2>1 DEF Range
<1>9. Range(z) \subseteq Range(s) \cup Range(r)
  BY <1>6 DEF Range
<1>10. Range(s) \subseteq Range(z)
  BY <1>7 DEF Range
<1>11. Range(r) \subseteq Range(z)
  BY <1>8 DEF Range
<1> QED
  BY <1>5, <1>9, <1>10, <1>11

-----------------------------------------------------------------------------
(* What the recorder had last seen.                                        *)

LEMMA LeastOf ==
  ASSUME NEW S \in SUBSET Nat, S # {}
  PROVE  \E x \in S : \A y \in S : x <= y
<1>1. PICK x \in S : \A y \in S : ~ (<<y, x>> \in OpToRel(<, Nat))
  BY NatLessThanWellFounded, WFMin
<1>2. \A y \in S : ~ (y < x)
  BY <1>1 DEF OpToRel
<1> QED
  BY <1>2

LEMMA GreatestOf ==
  ASSUME NEW S \in SUBSET Nat, S # {}, NEW n \in Nat, \A x \in S : x <= n
  PROVE  Max(S) \in S /\ \A y \in S : Max(S) >= y
<1> DEFINE T == {n - x : x \in S}
<1>1. T \in SUBSET Nat /\ T # {}
  <2>1. \A x \in S : x \in Nat /\ x <= n /\ n - x \in Nat
    OBVIOUS
  <2> QED
    BY <2>1
<1>2. PICK m \in T : \A y \in T : m <= y
  <2> HIDE DEF T
  <2> QED
    BY <1>1, LeastOf
<1>3. PICK x \in S : m = n - x
  OBVIOUS
<1>4. ASSUME NEW y \in S PROVE x >= y
  <2>1. n - y \in T /\ x \in Nat /\ y \in Nat
    OBVIOUS
  <2>2. n - x <= n - y
    BY <1>2, <1>3, <2>1
  <2> QED
    BY <2>1, <2>2
<1> QED
  BY <1>4 DEF Max

BySight(s) == Sequence(s) /\ Len(s) >= 1 /\ s[1].by = "boot"

LEMMA SeenIs ==
  ASSUME NEW s, BySight(s), NEW k \in 2 .. Len(s) + 1
  PROVE  \E j \in 1 .. k - 1 :
           /\ s[j].by # "undo" /\ SeenBefore(s, k) = s[j].content
           /\ \A i \in 1 .. k - 1 : s[i].by # "undo" => i <= j
<1> DEFINE S == {j \in 1 .. k - 1 : s[j].by # "undo"}
<1>1. Len(s) \in Nat /\ k \in Nat /\ 1 <= k - 1
  BY AnySequence DEF BySight, Sequence
<1>2. 1 \in S /\ S \in SUBSET Nat /\ k - 1 \in Nat /\ \A j \in S : j <= k - 1
  BY <1>1 DEF BySight
<1>3. Max(S) \in S /\ \A i \in S : Max(S) >= i
  <2> HIDE DEF S
  <2> QED
    BY <1>2, GreatestOf
<1>4. SeenBefore(s, k) = s[Max(S)].content
  BY DEF SeenBefore
<1> HIDE DEF S
<1>5. /\ Max(S) \in 1 .. k - 1 /\ s[Max(S)].by # "undo"
      /\ \A i \in 1 .. k - 1 : s[i].by # "undo" => i <= Max(S)
  BY <1>1, <1>2, <1>3 DEF S
<1> QED
  BY <1>4, <1>5

(* A later event does not change what had been seen before.                *)
LEMMA SeenStays ==
  ASSUME NEW s, BySight(s), NEW x, NEW z, z = Append(s, x), NEW k \in 2 .. Len(s) + 1
  PROVE  SeenBefore(z, k) = SeenBefore(s, k)
<1>1. /\ Len(s) \in Nat /\ DOMAIN s = 1 .. Len(s) /\ \A i \in DOMAIN s : z[i] = s[i]
  BY AppendSequence DEF BySight
<1>2. \A i \in 1 .. k - 1 : z[i] = s[i]
  BY <1>1
<1>3. {j \in 1 .. k - 1 : z[j].by # "undo"} = {j \in 1 .. k - 1 : s[j].by # "undo"}
  BY <1>2
<1>4. Max({j \in 1 .. k - 1 : s[j].by # "undo"}) \in 1 .. k - 1
  <2> DEFINE S == {j \in 1 .. k - 1 : s[j].by # "undo"}
  <2>1. 1 \in S /\ S \in SUBSET Nat /\ k - 1 \in Nat /\ \A j \in S : j <= k - 1
    BY <1>1 DEF BySight
  <2>2. Max(S) \in S
    <3> HIDE DEF S
    <3> QED
      BY <2>1, GreatestOf
  <2> QED
    BY <2>2
<1> QED
  BY <1>2, <1>3, <1>4 DEF SeenBefore

(* What has been seen of a path after its last event.                      *)
LEMMA SeenLast ==
  ASSUME NEW s, BySight(s), NEW x, NEW z, z = Append(s, x)
  PROVE  SeenBefore(z, Len(z) + 1) = IF x.by = "undo" THEN SeenBefore(s, Len(s) + 1)
                                     ELSE x.content
<1> DEFINE n == Len(s) + 1
<1>1. /\ Len(s) \in Nat /\ DOMAIN s = 1 .. Len(s) /\ \A i \in DOMAIN s : z[i] = s[i]
      /\ Len(z) = n /\ z[n] = x
  BY AppendSequence DEF BySight
<1>2. BySight(z)
  <2>1. Sequence(z)
    BY AppendSequence DEF BySight
  <2>2. 1 \in DOMAIN s /\ Len(z) >= 1
    BY <1>1 DEF BySight
  <2> QED
    BY <1>1, <2>1, <2>2 DEF BySight
<1>3. PICK j \in 1 .. n : /\ z[j].by # "undo" /\ SeenBefore(z, n + 1) = z[j].content
                          /\ \A i \in 1 .. n : z[i].by # "undo" => i <= j
  <2>1. n + 1 \in 2 .. Len(z) + 1 /\ (n + 1) - 1 = n
    BY <1>1
  <2> HIDE DEF n
  <2> QED
    BY <1>2, <2>1, SeenIs
<1>4. CASE x.by # "undo"
  <2>1. n <= j /\ j <= n /\ n \in Nat /\ j \in Nat
    BY <1>1, <1>3, <1>4
  <2>2. j = n
    BY <2>1
  <2> QED
    BY <1>1, <1>3, <1>4, <2>2
<1>5. CASE x.by = "undo"
  <2>1. PICK i \in 1 .. n - 1 : /\ s[i].by # "undo" /\ SeenBefore(s, n) = s[i].content
                                /\ \A h \in 1 .. n - 1 : s[h].by # "undo" => h <= i
    <3>1. n \in 2 .. Len(s) + 1
      BY <1>1 DEF BySight
    <3> QED
      BY <3>1, SeenIs
  <2>2. j # n
    BY <1>1, <1>3, <1>5
  <2>3. j \in 1 .. Len(s) /\ i \in 1 .. Len(s) /\ n - 1 = Len(s)
    BY <1>1, <2>2
  <2>4. z[i] = s[i] /\ z[j] = s[j] /\ i \in 1 .. n
    BY <1>1, <2>3
  <2>5. i <= j /\ j <= i
    BY <1>3, <2>1, <2>3, <2>4
  <2>6. i = j
    BY <2>3, <2>5
  <2> QED
    BY <1>1, <1>3, <1>5, <2>1, <2>4, <2>6
<1> QED
  BY <1>4, <1>5

-----------------------------------------------------------------------------
(* The trails grow.                                                        *)

TrailOf(s, n) ==
  /\ BySight(s)
  /\ \A k \in DOMAIN s : s[k].id \in Nat /\ s[k].id < n
  /\ \A j, k \in DOMAIN s : j < k /\ s[k].id # 0 => s[j].id <= s[k].id

(* What is told of a turn stays told, for an event that is not under it, or  *)
(* of a path that is among its files.                                       *)
ToldOf(s, ids, p, files) ==
  /\ (\E k \in DOMAIN s : s[k].id \in ids) => p \in DOMAIN files
  /\ p \in DOMAIN files =>
       \E k \in DOMAIN s : FirstAt(s, ids, k) /\ files[p].before = SeenBefore(s, k)

LEMMA ToldOfStays ==
  ASSUME NEW s, NEW n, TrailOf(s, n), NEW x, NEW z, z = Append(s, x),
         NEW ids \in SUBSET (Nat \ {0}), NEW p, NEW files, ToldOf(s, ids, p, files),
         x.id \notin ids \/ p \in DOMAIN files, s[1].id = 0
  PROVE  ToldOf(z, ids, p, files)
<1>1. /\ Len(s) \in Nat /\ DOMAIN s = 1 .. Len(s) /\ DOMAIN z = 1 .. Len(s) + 1
      /\ z[Len(s) + 1] = x /\ \A i \in DOMAIN s : z[i] = s[i]
  BY AppendSequence DEF TrailOf, BySight
<1>2. ASSUME NEW k \in DOMAIN z, z[k].id \in ids
      PROVE  p \in DOMAIN files
  <2>1. CASE k \in DOMAIN s
    BY <1>1, <1>2, <2>1 DEF ToldOf
  <2>2. CASE k = Len(s) + 1
    BY <1>1, <1>2, <2>2
  <2> QED
    BY <1>1, <2>1, <2>2
<1>3. ASSUME p \in DOMAIN files
      PROVE  \E k \in DOMAIN z : FirstAt(z, ids, k) /\ files[p].before = SeenBefore(z, k)
  <2>1. PICK k \in DOMAIN s : FirstAt(s, ids, k) /\ files[p].before = SeenBefore(s, k)
    BY <1>3 DEF ToldOf
  <2>2. k # 1
    BY <2>1 DEF FirstAt
  <2>3. k \in 2 .. Len(s) + 1 /\ k \in DOMAIN z
    BY <1>1, <2>2
  <2>4. SeenBefore(z, k) = SeenBefore(s, k)
    BY <2>3, SeenStays DEF TrailOf
  <2>5. \A j \in DOMAIN z : j < k => j \in DOMAIN s
    BY <1>1
  <2>6. FirstAt(z, ids, k)
    BY <1>1, <2>1, <2>3, <2>5 DEF FirstAt
  <2> QED
    BY <2>1, <2>3, <2>4, <2>6
<1> QED
  BY <1>2, <1>3 DEF ToldOf

LEMMA TrailOfGrows ==
  ASSUME NEW s, NEW n \in Nat, TrailOf(s, n), NEW x, NEW z, z = Append(s, x), NEW m \in Nat, n <= m,
         x.id \in Nat, x.id < m, x.id # 0 => \A k \in DOMAIN s : s[k].id <= x.id
  PROVE  TrailOf(z, m)
<1>1. /\ Len(s) \in Nat /\ DOMAIN s = 1 .. Len(s) /\ DOMAIN z = 1 .. Len(s) + 1
      /\ z[Len(s) + 1] = x /\ \A i \in DOMAIN s : z[i] = s[i]
      /\ Len(z) = Len(s) + 1 /\ Sequence(z)
  <2>1. Sequence(s)
    BY DEF TrailOf, BySight
  <2>2. /\ Len(s) \in Nat /\ DOMAIN s = 1 .. Len(s) /\ DOMAIN z = 1 .. Len(s) + 1
        /\ z[Len(s) + 1] = x /\ \A i \in DOMAIN s : z[i] = s[i]
    BY <2>1, AppendSequence
  <2>3. Len(z) = Len(s) + 1 /\ Sequence(z)
    BY <2>1, AppendSequence
  <2> QED
    BY <2>2, <2>3
<1>2. BySight(z)
  BY <1>1 DEF TrailOf, BySight
<1>3. \A k \in DOMAIN z : z[k].id \in Nat /\ z[k].id < m
  <2>1. ASSUME NEW k \in DOMAIN z PROVE z[k].id \in Nat /\ z[k].id < m
    <3>1. CASE k \in DOMAIN s
      BY <1>1, <3>1 DEF TrailOf
    <3>2. CASE k = Len(s) + 1
      BY <1>1, <3>2
    <3> QED
      BY <1>1, <3>1, <3>2
  <2> QED
    BY <2>1
<1>4. ASSUME NEW j \in DOMAIN z, NEW k \in DOMAIN z, j < k, z[k].id # 0
      PROVE  z[j].id <= z[k].id
  <2>1. j \in DOMAIN s
    BY <1>1, <1>4
  <2>2. CASE k \in DOMAIN s
    BY <1>1, <1>4, <2>1, <2>2 DEF TrailOf
  <2>3. CASE k = Len(s) + 1
    BY <1>1, <1>4, <2>1, <2>3
  <2> QED
    BY <1>1, <2>2, <2>3
<1> QED
  BY <1>2, <1>3, <1>4 DEF TrailOf

(* A step of the trails: to some of them an event is added, whose id is x. *)
Grows(tr, tz, x) ==
  \A p \in Paths : tz[p] = tr[p] \/ \E y : y.id = x /\ tz[p] = Append(tr[p], y)

LEMMA ToldStays ==
  ASSUME NEW tr, NEW n, TrailOK(tr, n), NEW tz, NEW x, Grows(tr, tz, x),
         NEW ids \in SUBSET (Nat \ {0}), x \notin ids, NEW files, Told(tr, ids, files)
  PROVE  Told(tz, ids, files)
<1>1. SUFFICES ASSUME NEW p \in Paths PROVE ToldOf(tz[p], ids, p, files)
  BY DEF Told, ToldOf
<1>2. TrailOf(tr[p], n) /\ tr[p][1].id = 0 /\ ToldOf(tr[p], ids, p, files)
  BY DEF Told, ToldOf, TrailOK, TrailOf, BySight
<1>3. CASE tz[p] = tr[p]
  BY <1>2, <1>3
<1>4. CASE \E y : y.id = x /\ tz[p] = Append(tr[p], y)
  BY <1>2, <1>4, ToldOfStays
<1> QED
  BY <1>3, <1>4 DEF Grows

LEMMA TrailGrows ==
  ASSUME NEW tr, NEW n \in Nat, TrailOK(tr, n), NEW tz, NEW x \in Nat, Grows(tr, tz, x),
         NEW m \in Nat, n <= m, x < m,
         x # 0 => \A p \in Paths : \A k \in DOMAIN tr[p] : tr[p][k].id <= x
  PROVE  TrailOK(tz, m)
<1>1. SUFFICES ASSUME NEW p \in Paths PROVE TrailOf(tz[p], m) /\ tz[p][1].id = 0
  BY DEF TrailOK, TrailOf, BySight
<1>2. TrailOf(tr[p], n) /\ tr[p][1].id = 0 /\ Len(tr[p]) \in Nat /\ 1 \in DOMAIN tr[p]
  BY AnySequence DEF TrailOK, TrailOf, BySight, Sequence
<1>3. CASE tz[p] = tr[p]
  <2>1. \A k \in DOMAIN tr[p] : tr[p][k].id < m
    BY <1>2 DEF TrailOf
  <2> QED
    BY <1>2, <1>3, <2>1 DEF TrailOf
<1>4. CASE \E y : y.id = x /\ tz[p] = Append(tr[p], y)
  <2>1. PICK y : y.id = x /\ tz[p] = Append(tr[p], y)
    BY <1>4
  <2>2. TrailOf(tz[p], m)
    BY <1>2, <2>1, TrailOfGrows
  <2>3. tz[p][1] = tr[p][1]
    BY <1>2, <2>1, AppendSequence DEF TrailOf, BySight
  <2> QED
    BY <1>2, <2>2, <2>3
<1> QED
  BY <1>3, <1>4 DEF Grows

-----------------------------------------------------------------------------
(* The methods of the engine.                                              *)

LEMMA Windows ==
  /\ QUIET_MS \in Nat /\ GIT_SETTLE_MS \in Nat /\ FOLD_WINDOW_MS \in Nat /\ MAX_BRACKET_MS \in Nat
  /\ None \notin Nat
  BY WindowsAssumption, ContentAssumption

(* Later ids and times change nothing of what is so.                       *)
LEMMA EngineLater ==
  ASSUME NEW e, NEW n \in Nat, NEW m \in Nat, n <= m, NEW t \in Nat, NEW u \in Nat, t <= u,
         NEW tr, EngineOK(e, n, t, tr)
  PROVE  EngineOK(e, m, u, tr)
<1>1. ASSUME NEW c, ClosedOK(c, n, tr) PROVE ClosedOK(c, m, tr)
  BY <1>1 DEF ClosedOK
<1>2. ASSUME NEW o, OpenOK(o, n, t, tr) PROVE OpenOK(o, m, u, tr) /\ o.openedAt \in Nat
  BY <1>2 DEF OpenOK
<1>3. ASSUME NEW b, BareOK(b, n, t, tr) PROVE BareOK(b, m, u, tr)
  BY <1>1, <1>3 DEF BareOK
<1>4. ASSUME e.open # None, e.lastChange \in e.open.openedAt .. t
      PROVE  e.lastChange \in e.open.openedAt .. u
  BY <1>2, <1>4 DEF EngineOK
<1> QED
  BY <1>1, <1>2, <1>3, <1>4 DEF EngineOK, BaresOK, ClosedsOK

LEMMA TrailLater ==
  ASSUME NEW tr, NEW n \in Nat, NEW m \in Nat, n <= m, TrailOK(tr, n)
  PROVE  TrailOK(tr, m)
  BY DEF TrailOK

(* The turn that a closing of its own makes of an open one.                *)
LEMMA OwnTerms ==
  ASSUME NEW o, NEW n, NEW t, NEW tr, OpenOK(o, n, t, tr), NEW at, NEW c, c = CloseOnOwnTerms(o, at)
  PROVE  /\ ClosedOK(c, n, tr) /\ c.id = o.id /\ c.merges = {} /\ c.openedAt = o.openedAt
         /\ Family(c) = {o.id} /\ (c.grade = "bare" => o.source = "quiet")
<1>1. \E boundary, grade, truncated :
        /\ c = Finish(o, at, boundary, grade, truncated)
        /\ grade = "bare" => o.source = "quiet"
  <2>1. CASE o.source = "quiet"
    BY <2>1 DEF CloseOnOwnTerms
  <2>2. CASE o.source = "git"
    <3>1. c = Finish(o, at, "git", "rich", FALSE)
      BY <2>2 DEF CloseOnOwnTerms
    <3> QED
      BY <3>1, "rich" # "bare"
  <2>3. CASE o.source = "bracket"
    <3>1. c = Finish(o, at, "timeout", "rich", TRUE)
      BY <2>3 DEF CloseOnOwnTerms
    <3> QED
      BY <3>1, "rich" # "bare"
  <2> QED
    BY <2>1, <2>2, <2>3 DEF OpenOK
<1>2. /\ c.id = o.id /\ c.merges = {} /\ c.openedAt = o.openedAt /\ c.files = o.files
      /\ (c.grade = "bare" => o.source = "quiet")
  BY <1>1 DEF Finish
<1>3. Family(c) = {o.id}
  BY <1>2 DEF Family
<1> QED
  BY <1>2, <1>3 DEF ClosedOK, OpenOK

LEMMA Fresh ==
  ASSUME NEW tr, NEW n, TrailOK(tr, n), n \in Nat
  PROVE  FilesOK(<< >>) /\ Told(tr, {n}, << >>)
<1>1. DOMAIN << >> = {}
  OBVIOUS
<1>2. \A p \in Paths : \A k \in DOMAIN tr[p] : tr[p][k].id # n
  BY DEF TrailOK
<1> QED
  BY <1>1, <1>2 DEF FilesOK, Told

LEMMA OpensFresh ==
  ASSUME NEW tr, NEW n \in Nat \ {0}, TrailOK(tr, n), NEW t \in Nat, NEW source, NEW tool, NEW et,
         source \in {"quiet", "git", "bracket"}, NEW o, o = OpenTurn(source, tool, t, n, et)
  PROVE  /\ OpenOK(o, n + 1, t, tr)
         /\ o.id = n /\ o.openedAt = t /\ o.files = << >> /\ o.source = source
<1>1. /\ o = [ source |-> o.source, tool |-> o.tool, openedAt |-> o.openedAt, files |-> o.files,
               id |-> o.id, emitterTurn |-> o.emitterTurn ]
      /\ o.source = source /\ o.openedAt = t /\ o.files = << >> /\ o.id = n
  BY DEF OpenTurn
<1>2. FilesOK(<< >>) /\ Told(tr, {n}, << >>)
  BY Fresh
<1>3. \A p \in Paths : \A k \in DOMAIN tr[p] : tr[p][k].id <= n
  BY DEF TrailOK
<1>4. n < n + 1 /\ t <= t
  OBVIOUS
<1> QED
  BY <1>1, <1>2, <1>3, <1>4 DEF OpenOK

(* A bare turn joins those that may be folded.                             *)
LEMMA OneMoreBare ==
  ASSUME NEW B, NEW n, NEW t \in Nat, NEW tr, BaresOK(B, n, t, tr), NEW c, BareOK(c, n, t, tr),
         \A b \in B : b.id < c.id /\ b.openedAt < c.openedAt
  PROVE  BaresOK(B \cup {c}, n, t, tr)
<1>1. c.id \in Nat /\ c.openedAt \in Nat /\ \A b \in B : b.id \in Nat /\ b.openedAt \in Nat
  BY DEF BaresOK, BareOK, ClosedOK, Family
<1>2. ASSUME NEW b \in B \cup {c}, NEW d \in B \cup {c}
      PROVE  (b.id = d.id => b = d) /\ (b.id < d.id => b.openedAt < d.openedAt)
  <2>1. CASE b \in B /\ d \in B
    BY <2>1 DEF BaresOK
  <2>2. CASE b \in B /\ d = c
    BY <1>1, <2>2
  <2>3. CASE b = c /\ d \in B
    BY <1>1, <2>3
  <2>4. CASE b = c /\ d = c
    BY <1>1, <2>4
  <2> QED
    BY <1>2, <2>1, <2>2, <2>3, <2>4
<1> QED
  BY <1>2 DEF BaresOK

LEMMA FewerBares ==
  ASSUME NEW B, NEW C \in SUBSET B, NEW n, NEW t, NEW tr, BaresOK(B, n, t, tr)
  PROVE  BaresOK(C, n, t, tr)
  BY DEF BaresOK

(* Whose id an engine has now is the id it was offered, or what it had.    *)
SameOrNew(e, f, n) ==
  f.open # None => f.open.id = n \/ (e.open # None /\ f.open.id = e.open.id)

LEMMA GitChange ==
  ASSUME NEW e, NEW n, NEW t \in Nat, NEW tr, EngineOK(e, n, t, tr),
         NEW f, f = ObserveGitChange(e, t)
  PROVE  EngineOK(f, n, t, tr) /\ SameOrNew(e, f, n)
<1> DEFINE w == [e EXCEPT !.gitUntil = t + GIT_SETTLE_MS]
<1>1. /\ IsEngine(w) /\ w.open = e.open /\ w.lastChange = e.lastChange
      /\ w.recentBare = e.recentBare /\ w.pending = e.pending
  BY DEF EngineOK, IsEngine
<1> HIDE DEF w
<1>2. CASE ~ HasOpen(e, "quiet")
  <2>1. f = w
    BY <1>2 DEF ObserveGitChange, w
  <2> QED
    BY <1>1, <2>1 DEF EngineOK, SameOrNew
<1>3. CASE HasOpen(e, "quiet") /\ Monus(t, e.open.openedAt) <= GIT_SETTLE_MS + QUIET_MS
  <2>1. f = [w EXCEPT !.open.source = "git", !.open.tool = Git]
    BY <1>3 DEF ObserveGitChange, w
  <2>2. OpenOK(e.open, n, t, tr)
    BY <1>3 DEF EngineOK, HasOpen
  <2>3. PICK o : o = [ source |-> "git", tool |-> Git, openedAt |-> e.open.openedAt,
                       files |-> e.open.files, id |-> e.open.id,
                       emitterTurn |-> e.open.emitterTurn ]
    OBVIOUS
  <2>4. f.open = o
    <3>1. PICK a, b, c, d, i, k :
            e.open = [ source |-> a, tool |-> b, openedAt |-> c, files |-> d, id |-> i,
                       emitterTurn |-> k ]
      BY <2>2 DEF OpenOK
    <3>2. [[e.open EXCEPT !.source = "git"] EXCEPT !.tool = Git] = o
      <4>1. o = [ source |-> "git", tool |-> Git, openedAt |-> c, files |-> d, id |-> i,
                  emitterTurn |-> k ]
        BY <2>3, <3>1
      <4>2. [e.open EXCEPT !.source = "git"] =
              [ source |-> "git", tool |-> b, openedAt |-> c, files |-> d, id |-> i,
                emitterTurn |-> k ]
        BY <3>1
      <4>3. [[ source |-> "git", tool |-> b, openedAt |-> c, files |-> d, id |-> i,
               emitterTurn |-> k ] EXCEPT !.tool = Git] = o
        BY <4>1
      <4> QED
        BY <4>2, <4>3, Zenon
    <3> QED
      BY <1>1, <2>1, <3>2 DEF IsEngine
  <2>5. /\ IsEngine(f) /\ f.lastChange = e.lastChange
        /\ f.recentBare = e.recentBare /\ f.pending = e.pending
    BY <1>1, <2>1 DEF IsEngine
  <2>6. OpenOK(o, n, t, tr) /\ o.id = e.open.id /\ o.openedAt = e.open.openedAt
    BY <2>2, <2>3 DEF OpenOK
  <2> QED
    BY <1>3, <2>4, <2>5, <2>6 DEF EngineOK, SameOrNew, Younger, HasOpen
<1>4. CASE HasOpen(e, "quiet") /\ ~ (Monus(t, e.open.openedAt) <= GIT_SETTLE_MS + QUIET_MS)
  <2>1. PICK c : c = CloseOnOwnTerms(e.open, LastActivity(e))
    OBVIOUS
  <2>2. f = SetAside(w, c)
    BY <1>4, <2>1 DEF ObserveGitChange, w
  <2>3. /\ OpenOK(e.open, n, t, tr) /\ Younger(e.open, e.recentBare, e.pending)
        /\ BaresOK(e.recentBare, n, t, tr) /\ ClosedsOK(e.pending, n, tr)
    BY <1>4 DEF EngineOK, HasOpen
  <2>4. ClosedOK(c, n, tr) /\ c.id = e.open.id /\ c.merges = {} /\ c.openedAt = e.open.openedAt
    BY <2>1, <2>3, OwnTerms
  <2>5. e.open.openedAt \in Nat /\ e.open.openedAt < t
    BY <1>4, <2>3, Windows DEF Monus, OpenOK
  <2>6. BaresOK(e.recentBare \cup {c}, n, t, tr)
    BY <2>3, <2>4, <2>5, OneMoreBare DEF BareOK, Younger
  <2>7. PICK z : z = Append(e.pending, c)
    OBVIOUS
  <2>8. ClosedsOK(z, n, tr)
    <3>1. Sequence(z) /\ Range(z) = Range(e.pending) \cup {c}
      BY <2>3, <2>7, AppendSequence DEF ClosedsOK
    <3> QED
      BY <2>3, <2>4, <3>1 DEF ClosedsOK
  <2>9. /\ IsEngine(f) /\ f.open = None
        /\ f.recentBare = e.recentBare \cup {c} /\ f.pending = z
    BY <1>1, <2>2, <2>7 DEF SetAside, TakeOpen, IsEngine
  <2> QED
    BY <2>6, <2>8, <2>9 DEF EngineOK, SameOrNew
<1> QED
  BY <1>2, <1>3, <1>4

(* Sightings under another id than theirs change nothing for closed turns. *)
LEMMA ClosedsStay ==
  ASSUME NEW tr, NEW n, TrailOK(tr, n), NEW tz, NEW x, Grows(tr, tz, x)
  PROVE  /\ \A c : ClosedOK(c, n, tr) /\ x \notin Family(c) => ClosedOK(c, n, tz)
         /\ \A t, B : BaresOK(B, n, t, tr) /\ (\A b \in B : b.id # x) => BaresOK(B, n, t, tz)
         /\ \A C : /\ ClosedsOK(C, n, tr) /\ \A c \in Range(C) : x \notin Family(c)
                   => ClosedsOK(C, n, tz)
<1>1. ASSUME NEW c, ClosedOK(c, n, tr), x \notin Family(c) PROVE ClosedOK(c, n, tz)
  BY <1>1, ToldStays DEF ClosedOK
<1>2. ASSUME NEW t, NEW B, BaresOK(B, n, t, tr), \A b \in B : b.id # x
      PROVE  BaresOK(B, n, t, tz)
  <2>1. ASSUME NEW b \in B PROVE BareOK(b, n, t, tz)
    <3>1. BareOK(b, n, t, tr) /\ Family(b) = {b.id} /\ x \notin Family(b)
      BY <1>2 DEF BaresOK, BareOK, Family
    <3> QED
      BY <1>1, <3>1 DEF BareOK
  <2> QED
    BY <1>2, <2>1 DEF BaresOK
<1>3. ASSUME NEW C, ClosedsOK(C, n, tr), \A c \in Range(C) : x \notin Family(c)
      PROVE  ClosedsOK(C, n, tz)
  BY <1>1, <1>3 DEF ClosedsOK
<1> QED
  BY <1>1, <1>2, <1>3

(* The first sighting of a path under an id.                               *)
LEMMA ToldOfNew ==
  ASSUME NEW s, NEW n, TrailOf(s, n), NEW x, NEW z, z = Append(s, x), NEW p, NEW files,
         \A k \in DOMAIN s : s[k].id # x.id,
         files[p].before = SeenBefore(s, Len(s) + 1), p \in DOMAIN files
  PROVE  ToldOf(z, {x.id}, p, files)
<1>1. /\ Len(s) \in Nat /\ DOMAIN s = 1 .. Len(s) /\ DOMAIN z = 1 .. Len(s) + 1
      /\ z[Len(s) + 1] = x /\ \A i \in DOMAIN s : z[i] = s[i]
  BY AppendSequence DEF TrailOf, BySight
<1> DEFINE k == Len(s) + 1
<1>2. k \in 2 .. Len(s) + 1 /\ k \in DOMAIN z
  BY <1>1 DEF TrailOf, BySight
<1>3. SeenBefore(z, k) = files[p].before
  BY <1>2, SeenStays DEF TrailOf
<1>4. \A j \in DOMAIN z : j < k => j \in DOMAIN s
  BY <1>1
<1>5. FirstAt(z, {x.id}, k)
  BY <1>1, <1>2, <1>4 DEF FirstAt
<1> QED
  BY <1>2, <1>3, <1>5 DEF ToldOf

(* The turn that a change belongs to.                                      *)
Belongs(o, e, n, m, t, tr) ==
  /\ OpenOK(o, m, t, tr) /\ Younger(o, e.recentBare, e.pending)
  /\ EngineOK(e, m, t, tr) /\ TrailOK(tr, m) /\ m \in Nat /\ n <= m
  /\ o.id = n \/ (e.open # None /\ o.id = e.open.id)

LEMMA TurnOfAChange ==
  ASSUME NEW e, NEW n \in Nat \ {0}, NEW t \in Nat, NEW tr, TrailOK(tr, n),
         EngineOK(e, n, t, tr), NEW o, o = TurnOfChange(e, t, n),
         NEW m, m = IF e.open = None THEN n + 1 ELSE n
  PROVE  Belongs(o, e, n, m, t, tr)
<1>1. m \in Nat /\ n <= m /\ EngineOK(e, m, t, tr) /\ TrailOK(tr, m)
  BY EngineLater, TrailLater
<1>2. CASE e.open # None
  BY <1>1, <1>2 DEF TurnOfChange, EngineOK, Belongs
<1>3. CASE e.open = None
  <2>1. \E source, tool : /\ o = OpenTurn(source, tool, t, n, None)
                          /\ source \in {"quiet", "git", "bracket"}
    BY <1>3 DEF TurnOfChange
  <2>2. OpenOK(o, m, t, tr) /\ o.id = n /\ o.openedAt = t
    BY <1>3, <2>1, OpensFresh
  <2>3. Younger(o, e.recentBare, e.pending)
    BY <2>2 DEF EngineOK, BaresOK, BareOK, ClosedsOK, ClosedOK, Younger, Family
  <2> QED
    BY <1>1, <2>2, <2>3 DEF Belongs
<1> QED
  BY <1>2, <1>3

(* A batch as the recorder stages it, and what the trails make of it.      *)
Staged(tr, obs) ==
  /\ DOMAIN obs \subseteq Paths
  /\ \A p \in DOMAIN obs :
       /\ obs[p] = [before |-> obs[p].before, status |-> obs[p].status, reason |-> obs[p].reason]
       /\ obs[p].before = SeenBefore(tr[p], Len(tr[p]) + 1)

Followed(tr, tz, obs, x) ==
  \A p \in Paths : IF p \in DOMAIN obs THEN \E y : y.id = x /\ tz[p] = Append(tr[p], y)
                   ELSE tz[p] = tr[p]

FilesWith(o, obs) ==
  [ p \in DOMAIN o.files \cup DOMAIN obs |->
      IF p \notin DOMAIN o.files THEN obs[p]
      ELSE IF p \in DOMAIN obs THEN [o.files[p] EXCEPT !.status = obs[p].status]
           ELSE o.files[p] ]

Joins(g, files, obs) ==
  /\ FilesOK(g) /\ DOMAIN g = DOMAIN files \cup DOMAIN obs
  /\ \A p \in DOMAIN files : g[p].before = files[p].before
  /\ \A p \in DOMAIN obs \ DOMAIN files : g[p].before = obs[p].before

LEMMA FilesWithToo ==
  ASSUME NEW o, NEW obs, NEW tr, FilesOK(o.files), Staged(tr, obs), NEW g, g = FilesWith(o, obs)
  PROVE  Joins(g, o.files, obs)
<1>1. DOMAIN g = DOMAIN o.files \cup DOMAIN obs
  BY DEF FilesWith
<1>2. ASSUME NEW p \in DOMAIN o.files
      PROVE  /\ g[p].before = o.files[p].before
             /\ g[p] = [before |-> g[p].before, status |-> g[p].status, reason |-> g[p].reason]
  <2>1. PICK a, b, c : o.files[p] = [before |-> a, status |-> b, reason |-> c]
    BY DEF FilesOK
  <2>2. CASE p \in DOMAIN obs
    <3>1. g[p] = [o.files[p] EXCEPT !.status = obs[p].status]
      BY <1>1, <2>2 DEF FilesWith
    <3>2. g[p] = [before |-> a, status |-> obs[p].status, reason |-> c]
      BY <2>1, <3>1
    <3> QED
      BY <2>1, <3>2
  <2>3. CASE p \notin DOMAIN obs
    BY <1>1, <2>1, <2>3 DEF FilesWith
  <2> QED
    BY <2>2, <2>3
<1>3. ASSUME NEW p \in DOMAIN obs \ DOMAIN o.files PROVE g[p] = obs[p]
  BY <1>1 DEF FilesWith
<1>4. DOMAIN g \subseteq Paths
  BY <1>1 DEF FilesOK, Staged
<1>5. \A p \in DOMAIN g :
        g[p] = [before |-> g[p].before, status |-> g[p].status, reason |-> g[p].reason]
  BY <1>1, <1>2, <1>3 DEF Staged
<1>6. FilesOK(g)
  BY <1>4, <1>5 DEF FilesOK
<1> QED
  BY <1>1, <1>2, <1>3, <1>6 DEF Joins

LEMMA ChangedTurn ==
  ASSUME NEW o, NEW n \in Nat, NEW t, NEW tr, TrailOK(tr, n), OpenOK(o, n, t, tr), NEW obs,
         Staged(tr, obs), NEW tz, Followed(tr, tz, obs, o.id), NEW g, g = FilesWith(o, obs)
  PROVE  Told(tz, {o.id}, g)
<1>1. SUFFICES ASSUME NEW p \in Paths PROVE ToldOf(tz[p], {o.id}, p, g)
  BY DEF Told, ToldOf
<1>2. /\ FilesOK(g) /\ DOMAIN g = DOMAIN o.files \cup DOMAIN obs
      /\ p \in DOMAIN o.files => g[p].before = o.files[p].before
      /\ p \in DOMAIN obs \ DOMAIN o.files => g[p].before = obs[p].before
  <2>1. FilesOK(o.files)
    BY DEF OpenOK
  <2>2. Joins(g, o.files, obs)
    BY <2>1, FilesWithToo
  <2> QED
    BY <2>2 DEF Joins
<1>3. /\ TrailOf(tr[p], n) /\ tr[p][1].id = 0 /\ o.id \in Nat \ {0}
      /\ ToldOf(tr[p], {o.id}, p, o.files)
  BY DEF OpenOK, Told, ToldOf, TrailOK, TrailOf, BySight
<1>4. CASE p \notin DOMAIN obs
  <2>1. tz[p] = tr[p] /\ (p \in DOMAIN g <=> p \in DOMAIN o.files)
    BY <1>2, <1>4 DEF Followed
  <2> QED
    BY <1>2, <1>3, <2>1 DEF ToldOf
<1>5. CASE p \in DOMAIN obs /\ p \in DOMAIN o.files
  <2>1. PICK y : y.id = o.id /\ tz[p] = Append(tr[p], y)
    BY <1>5 DEF Followed
  <2>2. ToldOf(tr[p], {o.id}, p, g) /\ p \in DOMAIN g
    BY <1>2, <1>3, <1>5 DEF ToldOf
  <2> QED
    BY <1>3, <2>1, <2>2, ToldOfStays
<1>6. CASE p \in DOMAIN obs /\ p \notin DOMAIN o.files
  <2>1. PICK y : y.id = o.id /\ tz[p] = Append(tr[p], y)
    BY <1>6 DEF Followed
  <2>2. g[p].before = SeenBefore(tr[p], Len(tr[p]) + 1) /\ p \in DOMAIN g
    BY <1>2, <1>6 DEF Staged
  <2>3. \A k \in DOMAIN tr[p] : tr[p][k].id # y.id
    BY <1>3, <1>6, <2>1 DEF ToldOf
  <2> QED
    BY <1>3, <2>1, <2>2, <2>3, ToldOfNew
<1> QED
  BY <1>4, <1>5, <1>6

Changed(e, n, t, tr, f, m, tz) ==
  /\ EngineOK(f, m, t, tz) /\ TrailOK(tz, m) /\ m \in Nat \ {0} /\ n <= m
  /\ SameOrNew(e, f, n)
  /\ \E x \in Nat : /\ Grows(tr, tz, x)
                    /\ x \in {0, n} \/ (e.open # None /\ x = e.open.id)

LEMMA Changes ==
  ASSUME NEW e, NEW n \in Nat \ {0}, NEW t \in Nat, NEW tr, TrailOK(tr, n),
         EngineOK(e, n, t, tr), NEW obs, Staged(tr, obs),
         NEW r, r = ObserveChanges(e, t, obs, n), NEW tz, Followed(tr, tz, obs, r.eng.open.id),
         NEW m, m = IF r.reserved THEN n + 1 ELSE n
  PROVE  Changed(e, n, t, tr, r.eng, m, tz)
<1>1. CASE obs = << >>
  <2>1. r = Result(e, << >>, FALSE) /\ DOMAIN obs = {}
    BY <1>1 DEF ObserveChanges
  <2>2. r.eng = e /\ m = n
    BY <2>1 DEF Result
  <2>3. \A p \in Paths : tz[p] = tr[p]
    BY <2>1 DEF Followed
  <2>4. Grows(tr, tz, 0)
    BY <2>3 DEF Grows
  <2>5. TrailOK(tz, n)
    BY <2>3 DEF TrailOK
  <2>6. \A ids, files : Told(tr, ids, files) => Told(tz, ids, files)
    BY <2>3 DEF Told
  <2>7. \A c : ClosedOK(c, n, tr) => ClosedOK(c, n, tz)
    BY <2>6 DEF ClosedOK
  <2>8. \A o : OpenOK(o, n, t, tr) => OpenOK(o, n, t, tz)
    BY <2>3, <2>6 DEF OpenOK
  <2>9. EngineOK(e, n, t, tz)
    BY <2>7, <2>8 DEF EngineOK, BaresOK, BareOK, ClosedsOK
  <2> QED
    BY <2>2, <2>4, <2>5, <2>9 DEF SameOrNew, Changed
<1>2. CASE obs # << >>
  <2>1. PICK o : o = TurnOfChange(e, t, n)
    OBVIOUS
  <2>2. PICK g : g = FilesWith(o, obs)
    OBVIOUS
  <2>3. r = Result([e EXCEPT !.open = [o EXCEPT !.files = g], !.lastChange = t],
                   << >>, e.open = None)
    BY <1>2, <2>1, <2>2 DEF ObserveChanges, FilesWith
  <2>4. m = IF e.open = None THEN n + 1 ELSE n
    <3>1. r.reserved = (e.open = None)
      BY <2>3 DEF Result
    <3> QED
      BY <3>1
  <2>5. /\ OpenOK(o, m, t, tr) /\ Younger(o, e.recentBare, e.pending)
        /\ EngineOK(e, m, t, tr) /\ TrailOK(tr, m) /\ m \in Nat /\ n <= m
        /\ o.id = n \/ (e.open # None /\ o.id = e.open.id)
    <3>1. Belongs(o, e, n, m, t, tr)
      BY <2>1, <2>4, TurnOfAChange
    <3> QED
      BY <3>1 DEF Belongs
  <2>6. PICK q : q = [o EXCEPT !.files = g]
    OBVIOUS
  <2>7. q = [ source |-> o.source, tool |-> o.tool, openedAt |-> o.openedAt, files |-> g,
              id |-> o.id, emitterTurn |-> o.emitterTurn ]
    <3>1. PICK a, b, c, d, i, k :
            o = [ source |-> a, tool |-> b, openedAt |-> c, files |-> d, id |-> i,
                  emitterTurn |-> k ]
      BY <2>5 DEF OpenOK
    <3> QED
      BY <2>6, <3>1
  <2>8. r.eng = [e EXCEPT !.open = q, !.lastChange = t]
    BY <2>3, <2>6 DEF Result
  <2>9. /\ IsEngine(r.eng) /\ r.eng.open = q /\ r.eng.lastChange = t
        /\ r.eng.recentBare = e.recentBare /\ r.eng.pending = e.pending
    BY <2>5, <2>8 DEF EngineOK, IsEngine
  <2>10. q.id = o.id /\ q.files = g /\ q.openedAt = o.openedAt /\ q.source = o.source
    BY <2>7
  <2>11. Followed(tr, tz, obs, o.id)
    BY <2>9, <2>10
  <2>12. Told(tz, {o.id}, g) /\ FilesOK(g)
    BY <2>2, <2>5, <2>11, ChangedTurn, FilesWithToo DEF OpenOK, Joins
  <2>13. Grows(tr, tz, o.id)
    BY <2>11 DEF Followed, Grows
  <2>14. TrailOK(tz, m)
    <3>1. \A p \in Paths : \A k \in DOMAIN tr[p] : tr[p][k].id <= o.id
      BY <2>5 DEF OpenOK
    <3>2. o.id \in Nat /\ o.id < m
      BY <2>5 DEF OpenOK
    <3> QED
      BY <2>5, <2>13, <3>1, <3>2, TrailGrows
  <2>15. \A p \in Paths : \A k \in DOMAIN tz[p] : tz[p][k].id <= o.id
    <3>1. ASSUME NEW p \in Paths, NEW k \in DOMAIN tz[p] PROVE tz[p][k].id <= o.id
      <4>1. Sequence(tr[p]) /\ o.id <= o.id /\ \A j \in DOMAIN tr[p] : tr[p][j].id <= o.id
        BY <2>5 DEF OpenOK, TrailOK
      <4>2. CASE tz[p] = tr[p]
        BY <4>1, <4>2
      <4>3. CASE \E y : y.id = o.id /\ tz[p] = Append(tr[p], y)
        <5>1. PICK y : y.id = o.id /\ tz[p] = Append(tr[p], y)
          BY <4>3
        <5>2. /\ DOMAIN tr[p] = 1 .. Len(tr[p]) /\ DOMAIN tz[p] = 1 .. Len(tr[p]) + 1
              /\ tz[p][Len(tr[p]) + 1] = y /\ \A i \in DOMAIN tr[p] : tz[p][i] = tr[p][i]
              /\ Len(tr[p]) \in Nat
          BY <4>1, <5>1, AppendSequence
        <5>3. k \in DOMAIN tr[p] \/ k = Len(tr[p]) + 1
          BY <5>2
        <5> QED
          BY <4>1, <5>1, <5>2, <5>3
      <4> QED
        BY <2>13, <4>2, <4>3 DEF Grows
    <3> QED
      BY <3>1
  <2>16. OpenOK(q, m, t, tz)
    BY <2>5, <2>7, <2>10, <2>12, <2>15 DEF OpenOK
  <2>17. BaresOK(e.recentBare, m, t, tz) /\ ClosedsOK(e.pending, m, tz)
    <3>1. \A b \in e.recentBare : b.id # o.id
      BY <2>5 DEF Younger, EngineOK, BaresOK, BareOK, ClosedOK, Family, OpenOK
    <3>2. \A c \in Range(e.pending) : o.id \notin Family(c)
      BY <2>5 DEF Younger, EngineOK, ClosedsOK, ClosedOK, OpenOK
    <3> QED
      BY <2>5, <2>13, <3>1, <3>2, ClosedsStay DEF EngineOK
  <2>18. Younger(q, e.recentBare, e.pending)
    BY <2>5, <2>10 DEF Younger
  <2>19. t \in q.openedAt .. t
    BY <2>16 DEF OpenOK
  <2>20. EngineOK(r.eng, m, t, tz)
    BY <2>9, <2>16, <2>17, <2>18, <2>19 DEF EngineOK
  <2>21. q # None => SameOrNew(e, r.eng, n)
    BY <2>5, <2>9, <2>10 DEF SameOrNew
  <2>22. o.id \in Nat /\ m \in Nat \ {0}
    BY <2>5 DEF OpenOK
  <2>23. SameOrNew(e, r.eng, n)
    BY <2>9, <2>21 DEF SameOrNew
  <2>24. \E x \in Nat : Grows(tr, tz, x) /\ (x \in {0, n} \/ (e.open # None /\ x = e.open.id))
    BY <2>5, <2>13, <2>22
  <2> QED
    BY <2>5, <2>14, <2>20, <2>22, <2>23, <2>24 DEF Changed
<1> QED
  BY <1>1, <1>2

-----------------------------------------------------------------------------
(* Closing, and folding.                                                   *)

LEMMA OldestIsOne ==
  ASSUME NEW frags, \A b \in frags : b.openedAt \in Nat, NEW p, \E b \in frags : p \in DOMAIN b.files,
         NEW a, a = OldestFragment(frags, p)
  PROVE  /\ a \in frags /\ p \in DOMAIN a.files
         /\ \A c \in frags : p \in DOMAIN c.files => a.openedAt <= c.openedAt
<1> DEFINE touching == {b \in frags : p \in DOMAIN b.files}
           times == {b.openedAt : b \in touching}
<1>1. times \in SUBSET Nat /\ times # {}
  OBVIOUS
<1>2. PICK x \in times : \A y \in times : x <= y
  <2> HIDE DEF times
  <2> QED
    BY <1>1, LeastOf
<1>3. PICK b \in touching : b.openedAt = x
  OBVIOUS
<1>4. /\ b \in frags /\ p \in DOMAIN b.files
      /\ \A c \in frags : p \in DOMAIN c.files => b.openedAt <= c.openedAt
  BY <1>2, <1>3
<1> QED
  BY <1>4 DEF OldestFragment

(* What a fold makes of the files: those of its fragments too, with        *)
(* `before` of the oldest fragment that has the path.                      *)
Folds(g, files, frags) ==
  /\ FilesOK(g) /\ DOMAIN g = DOMAIN files \cup UNION {DOMAIN b.files : b \in frags}
  /\ \A p \in DOMAIN g :
       \/ p \notin UNION {DOMAIN b.files : b \in frags} /\ g[p] = files[p]
       \/ \E a \in frags :
            /\ p \in DOMAIN a.files /\ g[p].before = a.files[p].before
            /\ \A c \in frags : p \in DOMAIN c.files => a.openedAt <= c.openedAt

LEMMA FoldedFilesAre ==
  ASSUME NEW turn, FilesOK(turn.files), NEW frags,
         \A b \in frags : FilesOK(b.files) /\ b.openedAt \in Nat,
         NEW g, g = FoldedFiles(turn, frags)
  PROVE  Folds(g, turn.files, frags)
<1> DEFINE touched == UNION {DOMAIN b.files : b \in frags}
<1>1. DOMAIN g = DOMAIN turn.files \cup touched
  BY DEF FoldedFiles
<1>2. ASSUME NEW p \in DOMAIN g, p \notin touched
      PROVE  p \in DOMAIN turn.files /\ g[p] = turn.files[p]
  BY <1>1, <1>2 DEF FoldedFiles
<1>3. ASSUME NEW p \in DOMAIN g, p \in touched
      PROVE  /\ \E a \in frags :
                  /\ p \in DOMAIN a.files /\ g[p].before = a.files[p].before
                  /\ \A c \in frags : p \in DOMAIN c.files => a.openedAt <= c.openedAt
             /\ g[p] = [before |-> g[p].before, status |-> g[p].status, reason |-> g[p].reason]
  <2>1. PICK a : a = OldestFragment(frags, p)
    OBVIOUS
  <2>2. /\ a \in frags /\ p \in DOMAIN a.files
        /\ \A c \in frags : p \in DOMAIN c.files => a.openedAt <= c.openedAt
    BY <1>3, <2>1, OldestIsOne
  <2>3. PICK x, y, z : a.files[p] = [before |-> x, status |-> y, reason |-> z]
    <3>1. FilesOK(a.files)
      BY <2>2
    <3>2. a.files[p] = [ before |-> a.files[p].before, status |-> a.files[p].status,
                         reason |-> a.files[p].reason ]
      BY <2>2, <3>1, Zenon DEF FilesOK
    <3> QED
      BY <3>2, Zenon
  <2>4. CASE p \in DOMAIN turn.files
    <3>1. PICK u, v, w : turn.files[p] = [before |-> u, status |-> v, reason |-> w]
      <4>1. turn.files[p] = [ before |-> turn.files[p].before, status |-> turn.files[p].status,
                              reason |-> turn.files[p].reason ]
        BY <2>4, Zenon DEF FilesOK
      <4> QED
        BY <4>1, Zenon
    <3>2. g[p] = [turn.files[p] EXCEPT !.before = a.files[p].before]
      BY <1>1, <1>3, <2>1, <2>4 DEF FoldedFiles
    <3>3. g[p] = [before |-> x, status |-> v, reason |-> w]
      BY <2>3, <3>1, <3>2
    <3> QED
      BY <2>2, <2>3, <3>3
  <2>5. CASE p \notin DOMAIN turn.files
    <3>1. g[p] = a.files[p]
      BY <1>1, <1>3, <2>1, <2>5 DEF FoldedFiles
    <3> QED
      BY <2>2, <2>3, <3>1
  <2> QED
    BY <2>4, <2>5
<1> HIDE DEF touched
<1>4. ASSUME NEW p \in DOMAIN g
      PROVE  /\ p \in Paths
             /\ g[p] = [before |-> g[p].before, status |-> g[p].status, reason |-> g[p].reason]
  <2>1. p \in Paths
    <3>1. \A b \in frags : DOMAIN b.files \subseteq Paths
      BY DEF FilesOK
    <3>2. touched \subseteq Paths
      BY <3>1 DEF touched
    <3> QED
      BY <1>1, <3>2 DEF FilesOK
  <2>2. CASE p \in touched
    BY <1>3, <2>1, <2>2
  <2>3. CASE p \notin touched
    BY <1>2, <2>1, <2>3 DEF FilesOK
  <2> QED
    BY <2>2, <2>3
<1>5. FilesOK(g)
  BY <1>4 DEF FilesOK
<1>6. \A p \in DOMAIN g :
        \/ p \notin touched /\ g[p] = turn.files[p]
        \/ \E a \in frags :
             /\ p \in DOMAIN a.files /\ g[p].before = a.files[p].before
             /\ \A c \in frags : p \in DOMAIN c.files => a.openedAt <= c.openedAt
  BY <1>2, <1>3
<1> QED
  BY <1>1, <1>5, <1>6 DEF touched, Folds

LEMMA FoldIsTold ==
  ASSUME NEW tr, NEW n, TrailOK(tr, n), NEW t, NEW turn, ClosedOK(turn, n, tr), turn.merges = {},
         NEW B, BaresOK(B, n, t, tr), NEW frags \in SUBSET B, \A b \in B : b.id < turn.id,
         NEW ids, ids = {turn.id} \cup {b.id : b \in frags}
  PROVE  /\ FilesOK(FoldedFiles(turn, frags)) /\ Told(tr, ids, FoldedFiles(turn, frags))
         /\ ids \subseteq Nat \ {0} /\ \A i \in ids : i < n
<1>1. /\ FilesOK(turn.files) /\ Told(tr, {turn.id}, turn.files)
      /\ turn.id \in Nat \ {0} /\ turn.id < n
  <2>1. Family(turn) = {turn.id}
    BY DEF Family
  <2> QED
    BY <2>1 DEF ClosedOK
<1>2. ASSUME NEW b \in B
      PROVE  /\ FilesOK(b.files) /\ Told(tr, {b.id}, b.files) /\ b.openedAt \in Nat
             /\ b.id \in Nat \ {0} /\ b.id < n
  <2>1. BareOK(b, n, t, tr) /\ Family(b) = {b.id}
    BY DEF BaresOK, BareOK, Family
  <2> QED
    BY <2>1 DEF BareOK, ClosedOK
<1>3. PICK g : g = FoldedFiles(turn, frags)
  OBVIOUS
<1>4. \A b \in frags : FilesOK(b.files) /\ b.openedAt \in Nat
  BY <1>2
<1>5. /\ FilesOK(g)
      /\ DOMAIN g = DOMAIN turn.files \cup UNION {DOMAIN b.files : b \in frags}
      /\ \A p \in DOMAIN g :
           \/ p \notin UNION {DOMAIN b.files : b \in frags} /\ g[p] = turn.files[p]
           \/ \E a \in frags :
                /\ p \in DOMAIN a.files /\ g[p].before = a.files[p].before
                /\ \A c \in frags : p \in DOMAIN c.files => a.openedAt <= c.openedAt
  <2>1. Folds(g, turn.files, frags)
    BY <1>1, <1>3, <1>4, FoldedFilesAre
  <2> QED
    BY <2>1 DEF Folds
<1>6. ASSUME NEW p \in Paths, NEW k \in DOMAIN tr[p], tr[p][k].id \in ids
      PROVE  p \in DOMAIN g
  <2>1. CASE tr[p][k].id = turn.id
    BY <1>1, <1>5, <2>1 DEF Told
  <2>2. CASE \E b \in frags : tr[p][k].id = b.id
    <3>1. PICK b \in frags : tr[p][k].id = b.id
      BY <2>2
    <3>2. p \in DOMAIN b.files
      BY <1>2, <3>1 DEF Told
    <3> QED
      BY <1>5, <3>2
  <2> QED
    BY <1>6, <2>1, <2>2
<1>7. ASSUME NEW p \in Paths, p \in DOMAIN g
      PROVE  \E k \in DOMAIN tr[p] : FirstAt(tr[p], ids, k) /\ g[p].before = SeenBefore(tr[p], k)
  <2>1. CASE p \notin UNION {DOMAIN b.files : b \in frags} /\ g[p] = turn.files[p]
    <3>1. p \in DOMAIN turn.files
      BY <1>5, <1>7, <2>1
    <3>2. PICK k \in DOMAIN tr[p] :
            FirstAt(tr[p], {turn.id}, k) /\ turn.files[p].before = SeenBefore(tr[p], k)
      BY <1>1, <3>1 DEF Told
    <3>3. \A b \in frags : p \notin DOMAIN b.files
      BY <2>1
    <3>4. \A b \in frags : \A j \in DOMAIN tr[p] : tr[p][j].id # b.id
      BY <1>2, <3>3 DEF Told
    <3>5. FirstAt(tr[p], ids, k)
      BY <3>2, <3>4 DEF FirstAt
    <3> QED
      BY <2>1, <3>2, <3>5
  <2>2. ASSUME NEW a \in frags, p \in DOMAIN a.files, g[p].before = a.files[p].before,
               \A c \in frags : p \in DOMAIN c.files => a.openedAt <= c.openedAt
        PROVE  \E k \in DOMAIN tr[p] : FirstAt(tr[p], ids, k) /\ g[p].before = SeenBefore(tr[p], k)
    <3>1. PICK k \in DOMAIN tr[p] :
            FirstAt(tr[p], {a.id}, k) /\ a.files[p].before = SeenBefore(tr[p], k)
      BY <1>2, <2>2 DEF Told
    <3>2. tr[p][k].id = a.id /\ a.id \in Nat \ {0} /\ a.id < turn.id
      BY <1>2, <3>1 DEF FirstAt
    <3>3. ASSUME NEW j \in DOMAIN tr[p], j < k PROVE tr[p][j].id \notin ids
      <4>1. tr[p][j].id <= a.id /\ tr[p][j].id # a.id /\ tr[p][j].id \in Nat
        BY <3>1, <3>2, <3>3 DEF TrailOK, FirstAt
      <4>2. tr[p][j].id # turn.id
        BY <1>1, <3>2, <4>1
      <4>3. ASSUME NEW c \in frags, tr[p][j].id = c.id PROVE FALSE
        <5>1. p \in DOMAIN c.files
          BY <1>2, <4>3 DEF Told
        <5>2. c.id < a.id
          BY <1>2, <3>2, <4>1, <4>3
        <5>3. c.openedAt < a.openedAt
          BY <5>2 DEF BaresOK
        <5>4. a.openedAt <= c.openedAt /\ a.openedAt \in Nat /\ c.openedAt \in Nat
          BY <1>2, <2>2, <5>1
        <5> QED
          BY <5>3, <5>4
      <4> QED
        BY <4>2, <4>3
    <3>4. FirstAt(tr[p], ids, k)
      BY <3>1, <3>2, <3>3 DEF FirstAt
    <3> QED
      BY <2>2, <3>1, <3>4
  <2> QED
    BY <1>5, <1>7, <2>1, <2>2
<1>8. Told(tr, ids, g)
  BY <1>6, <1>7 DEF Told
<1> QED
  BY <1>1, <1>2, <1>3, <1>5, <1>8

IsClosed(c) ==
  c = [ id |-> c.id, grade |-> c.grade, boundary |-> c.boundary, truncated |-> c.truncated,
        tool |-> c.tool, openedAt |-> c.openedAt, closedAt |-> c.closedAt,
        files |-> c.files, merges |-> c.merges ]

LEMMA FinishIs ==
  ASSUME NEW o, NEW at, NEW boundary, NEW grade, NEW truncated, NEW c,
         c = Finish(o, at, boundary, grade, truncated)
  PROVE  /\ IsClosed(c) /\ c.id = o.id /\ c.files = o.files /\ c.merges = {} /\ Family(c) = {o.id}
<1>1. IsClosed(c)
  BY DEF Finish, IsClosed
<1>2. c.id = o.id /\ c.files = o.files /\ c.merges = {}
  BY DEF Finish
<1> QED
  BY <1>1, <1>2 DEF Family

LEMMA FoldsWell ==
  ASSUME NEW tr, NEW n, TrailOK(tr, n), NEW t, NEW turn, IsClosed(turn), ClosedOK(turn, n, tr),
         turn.merges = {}, NEW B, BaresOK(B, n, t, tr), \A b \in B : b.id < turn.id,
         NEW lastRich, NEW c, c = FoldRecentBares(turn, B, lastRich)
  PROVE  ClosedOK(c, n, tr)
<1>1. PICK frags : frags = {b \in B : Eligible(turn, b, lastRich)}
  OBVIOUS
<1>2. PICK ids : ids = {turn.id} \cup {b.id : b \in frags}
  OBVIOUS
<1>3. frags \in SUBSET B
  BY <1>1
<1>4. /\ FilesOK(FoldedFiles(turn, frags)) /\ Told(tr, ids, FoldedFiles(turn, frags))
      /\ ids \subseteq Nat \ {0} /\ \A i \in ids : i < n
  BY <1>2, <1>3, FoldIsTold
<1>5. \E M, F, O :
        /\ c = [turn EXCEPT !.merges = M, !.openedAt = O, !.files = F]
        /\ M = {b.id : b \in frags} /\ F = FoldedFiles(turn, frags)
  BY <1>1 DEF FoldRecentBares
<1>6. PICK M, F, O :
        /\ c = [turn EXCEPT !.merges = M, !.openedAt = O, !.files = F]
        /\ M = {b.id : b \in frags} /\ F = FoldedFiles(turn, frags)
  BY <1>5
<1>7. c.id = turn.id /\ c.merges = M /\ c.files = F
  <2>1. PICK a, b, d, e, f, g, h, i, j :
          turn = [ id |-> a, grade |-> b, boundary |-> d, truncated |-> e, tool |-> f,
                   openedAt |-> g, closedAt |-> h, files |-> i, merges |-> j ]
    BY DEF IsClosed
  <2>2. c = [ id |-> a, grade |-> b, boundary |-> d, truncated |-> e, tool |-> f,
              openedAt |-> O, closedAt |-> h, files |-> F, merges |-> M ]
    BY <1>6, <2>1
  <2>3. turn.id = a
    BY <2>1
  <2> QED
    BY <2>2, <2>3
<1>8. Family(c) = ids
  BY <1>2, <1>6, <1>7 DEF Family
<1> QED
  BY <1>4, <1>6, <1>7, <1>8 DEF ClosedOK

LEMMA TakesOpen ==
  ASSUME NEW e, IsEngine(e), NEW w, w = TakeOpen(e)
  PROVE  /\ IsEngine(w) /\ w.open = None /\ w.lastChange = None
         /\ w.recentBare = e.recentBare /\ w.pending = e.pending
  BY DEF IsEngine, TakeOpen

(* What a method hands over is told, and older than what is open after it. *)
Handed(C, f, n, tr) ==
  /\ ClosedsOK(C, n, tr)
  /\ \A c \in Range(C) : f.open # None => \A i \in Family(c) : i < f.open.id

Stopped(r, reserved, n, t, tr) ==
  /\ EngineOK(r.eng, n, t, tr) /\ r.eng.open = None
  /\ Handed(r.closed, r.eng, n, tr) /\ r.reserved = reserved

LEMMA StopClosed ==
  ASSUME NEW e, NEW n, NEW t \in Nat, NEW tr, EngineOK(e, n, t, tr), TrailOK(tr, n),
         NEW turn, IsClosed(turn), ClosedOK(turn, n, tr), turn.merges = {},
         \A b \in e.recentBare : b.id < turn.id,
         NEW before, ClosedsOK(before, n, tr), NEW reserved,
         NEW r, r = CloseOnStop(e, turn, before, t, reserved)
  PROVE  Stopped(r, reserved, n, t, tr)
<1>1. PICK c : c = FoldRecentBares(turn, e.recentBare, e.lastRich)
  OBVIOUS
<1>2. ClosedOK(c, n, tr)
  BY <1>1, FoldsWell DEF EngineOK
<1>3. PICK z : z = Append(before, c)
  OBVIOUS
<1>4. /\ r.eng = [TakeOpen(e) EXCEPT !.recentBare = {}, !.lastRich = t]
      /\ r.closed = z /\ r.reserved = reserved
  BY <1>1, <1>3 DEF CloseOnStop, Result
<1>5. /\ IsEngine(r.eng) /\ r.eng.open = None
      /\ r.eng.recentBare = {} /\ r.eng.pending = e.pending
  <2>1. PICK w : w = TakeOpen(e)
    OBVIOUS
  <2>2. IsEngine(w) /\ w.open = None /\ w.recentBare = e.recentBare /\ w.pending = e.pending
    BY <2>1, TakesOpen DEF EngineOK
  <2>3. r.eng = [w EXCEPT !.recentBare = {}, !.lastRich = t]
    BY <1>4, <2>1
  <2> QED
    BY <2>2, <2>3 DEF IsEngine
<1>6. ClosedsOK(z, n, tr)
  <2>1. Sequence(z) /\ Range(z) = Range(before) \cup {c}
    BY <1>3, AppendSequence DEF ClosedsOK
  <2> QED
    BY <1>2, <2>1 DEF ClosedsOK
<1>7. EngineOK(r.eng, n, t, tr)
  BY <1>5 DEF EngineOK, BaresOK
<1> QED
  BY <1>4, <1>5, <1>6, <1>7 DEF Handed, Stopped

LEMMA ClosedAlone ==
  ASSUME NEW e, NEW n, NEW t, NEW tr, EngineOK(e, n, t, tr), NEW at,
         NEW C, C = IF e.open = None THEN << >> ELSE <<CloseOnOwnTerms(e.open, at)>>
  PROVE  ClosedsOK(C, n, tr) /\ \A c \in Range(C) : e.open # None /\ Family(c) = {e.open.id}
<1>1. CASE e.open = None
  BY <1>1, EmptySequence DEF ClosedsOK
<1>2. CASE e.open # None
  <2>1. PICK c : c = CloseOnOwnTerms(e.open, at)
    OBVIOUS
  <2>2. ClosedOK(c, n, tr) /\ Family(c) = {e.open.id}
    BY <1>2, <2>1, OwnTerms DEF EngineOK
  <2>3. Sequence(C) /\ Range(C) = {c}
    BY <1>2, <2>1, OneSequence
  <2> QED
    BY <1>2, <2>2, <2>3 DEF ClosedsOK
<1> QED
  BY <1>1, <1>2

Started(r, n, t, tr) ==
  /\ EngineOK(r.eng, n + 1, t, tr) /\ Handed(r.closed, r.eng, n + 1, tr)
  /\ r.reserved = TRUE /\ r.eng.open.id = n

LEMMA Starts ==
  ASSUME NEW e, NEW n \in Nat \ {0}, NEW t \in Nat, NEW tr, EngineOK(e, n, t, tr), TrailOK(tr, n),
         NEW tool, NEW r, r = ObserveStart(e, t, tool, None, n)
  PROVE  Started(r, n, t, tr)
<1>1. PICK o : o = OpenTurn("bracket", tool, t, n, None)
  OBVIOUS
<1>2. OpenOK(o, n + 1, t, tr) /\ o.id = n /\ o.openedAt = t
  BY <1>1, OpensFresh
<1>3. PICK C : C = IF e.open = None THEN << >> ELSE <<CloseOnOwnTerms(e.open, t)>>
  OBVIOUS
<1>4. r.eng = [TakeOpen(e) EXCEPT !.open = o] /\ r.closed = C /\ r.reserved = TRUE
  BY <1>1, <1>3 DEF ObserveStart, Result
<1>5. /\ IsEngine(r.eng) /\ r.eng.open = o /\ r.eng.lastChange = None
      /\ r.eng.recentBare = e.recentBare /\ r.eng.pending = e.pending
  <2>1. PICK w : w = TakeOpen(e)
    OBVIOUS
  <2>2. /\ IsEngine(w) /\ w.lastChange = None
        /\ w.recentBare = e.recentBare /\ w.pending = e.pending
    BY <2>1, TakesOpen DEF EngineOK
  <2>3. r.eng = [w EXCEPT !.open = o]
    BY <1>4, <2>1
  <2> QED
    BY <2>2, <2>3 DEF IsEngine
<1>6. EngineOK(e, n + 1, t, tr) /\ n + 1 \in Nat
  <2>1. n <= n + 1 /\ n + 1 \in Nat /\ t <= t
    OBVIOUS
  <2> QED
    BY <2>1, EngineLater
<1>7. Younger(o, e.recentBare, e.pending)
  BY <1>2 DEF EngineOK, BaresOK, BareOK, ClosedsOK, ClosedOK, Younger, Family
<1>8. EngineOK(r.eng, n + 1, t, tr)
  BY <1>2, <1>5, <1>6, <1>7 DEF EngineOK
<1>9. ClosedsOK(C, n + 1, tr) /\ \A c \in Range(C) : e.open # None /\ Family(c) = {e.open.id}
  BY <1>3, <1>6, ClosedAlone
<1>10. \A c \in Range(C) : \A i \in Family(c) : i < n
  BY <1>9 DEF EngineOK, OpenOK
<1> QED
  BY <1>2, <1>4, <1>5, <1>8, <1>9, <1>10 DEF Handed, Started

LEMMA Stops ==
  ASSUME NEW e, NEW n \in Nat \ {0}, NEW t \in Nat, NEW tr, EngineOK(e, n, t, tr), TrailOK(tr, n),
         NEW tool, NEW r, r = ObserveStop(e, t, tool, n),
         NEW m, m = IF r.reserved THEN n + 1 ELSE n
  PROVE  /\ EngineOK(r.eng, m, t, tr) /\ Handed(r.closed, r.eng, m, tr)
         /\ r.eng.open = None /\ r.reserved \in BOOLEAN
<1> DEFINE ownBracket == HasOpen(e, "bracket") /\ e.open.tool = tool
           convertible == HasOpen(e, "quiet") /\ Monus(t, e.open.openedAt) <= FOLD_WINDOW_MS
<1>1. ClosedsOK(<< >>, n, tr)
  BY EmptySequence DEF ClosedsOK
<1>2. ASSUME e.open # None, NEW boundary, NEW grade, NEW truncated, NEW c,
             c = Finish(e.open, t, boundary, grade, truncated) \/
               c = [Finish(e.open, t, boundary, grade, truncated) EXCEPT !.tool = tool]
      PROVE  /\ IsClosed(c) /\ ClosedOK(c, n, tr) /\ c.merges = {}
             /\ \A b \in e.recentBare : b.id < c.id
  <2>1. PICK d : d = Finish(e.open, t, boundary, grade, truncated)
    OBVIOUS
  <2>2. IsClosed(d) /\ d.id = e.open.id /\ d.files = e.open.files /\ d.merges = {}
    BY <2>1, FinishIs
  <2>3. IsClosed(c) /\ c.id = e.open.id /\ c.files = e.open.files /\ c.merges = {}
    <3>1. CASE c = d
      BY <2>2, <3>1
    <3>2. CASE c = [d EXCEPT !.tool = tool]
      BY <2>2, <3>2 DEF IsClosed
    <3> QED
      BY <1>2, <2>1, <3>1, <3>2
  <2>4. Family(c) = {e.open.id}
    BY <2>3 DEF Family
  <2> QED
    BY <1>2, <2>3, <2>4 DEF EngineOK, OpenOK, ClosedOK, Younger
<1>3. CASE ownBracket
  <2>1. PICK c : c = Finish(e.open, t, "bracket", "rich", FALSE)
    OBVIOUS
  <2>2. r = CloseOnStop(e, c, << >>, t, FALSE)
    BY <1>3, <2>1 DEF ObserveStop
  <2>3. /\ IsClosed(c) /\ ClosedOK(c, n, tr) /\ c.merges = {}
        /\ \A b \in e.recentBare : b.id < c.id
    BY <1>2, <1>3, <2>1 DEF HasOpen
  <2>4. Stopped(r, FALSE, n, t, tr)
    BY <1>1, <2>2, <2>3, StopClosed
  <2> QED
    BY <2>4 DEF Stopped
<1>4. CASE ~ ownBracket /\ convertible
  <2>1. PICK c : c = [Finish(e.open, t, "stop-only", "rich", FALSE) EXCEPT !.tool = tool]
    OBVIOUS
  <2>2. r = CloseOnStop(e, c, << >>, t, FALSE)
    BY <1>4, <2>1 DEF ObserveStop
  <2>3. /\ IsClosed(c) /\ ClosedOK(c, n, tr) /\ c.merges = {}
        /\ \A b \in e.recentBare : b.id < c.id
    BY <1>2, <1>4, <2>1 DEF HasOpen
  <2>4. Stopped(r, FALSE, n, t, tr)
    BY <1>1, <2>2, <2>3, StopClosed
  <2> QED
    BY <2>4 DEF Stopped
<1>5. CASE ~ ownBracket /\ ~ convertible
  <2>1. PICK o : o = OpenTurn("quiet", tool, t, n, None)
    OBVIOUS
  <2>2. PICK c : c = Finish(o, t, "stop-only", "rich", FALSE)
    OBVIOUS
  <2>3. PICK C : C = IF e.open = None THEN << >> ELSE <<CloseOnOwnTerms(e.open, t)>>
    OBVIOUS
  <2>4. r = CloseOnStop(e, c, C, t, TRUE)
    BY <1>5, <2>1, <2>2, <2>3 DEF ObserveStop
  <2>5. EngineOK(e, n + 1, t, tr) /\ TrailOK(tr, n + 1)
    <3>1. n <= n + 1 /\ n + 1 \in Nat /\ t <= t
      OBVIOUS
    <3> QED
      BY <3>1, EngineLater, TrailLater
  <2>6. OpenOK(o, n + 1, t, tr) /\ o.id = n
    BY <2>1, OpensFresh
  <2>7. IsClosed(c) /\ c.id = o.id /\ c.files = o.files /\ c.merges = {} /\ Family(c) = {o.id}
    <3>1. IsClosed(c) /\ c.id = o.id /\ c.files = o.files /\ c.merges = {}
      BY <2>2 DEF Finish, IsClosed
    <3> QED
      BY <3>1 DEF Family
  <2>8. ClosedOK(c, n + 1, tr)
    BY <2>6, <2>7 DEF OpenOK, ClosedOK
  <2>9. \A b \in e.recentBare : b.id < c.id
    BY <2>6, <2>7 DEF EngineOK, BaresOK, BareOK, ClosedOK, Family
  <2>10. ClosedsOK(C, n + 1, tr)
    BY <2>3, <2>5, ClosedAlone
  <2>11. Stopped(r, TRUE, n + 1, t, tr)
    BY <2>4, <2>5, <2>7, <2>8, <2>9, <2>10, StopClosed
  <2> QED
    BY <2>11 DEF Stopped
<1> QED
  BY <1>3, <1>4, <1>5

LEMMA Signs == None # "start" /\ None # "stop"
  BY ContentAssumption

Signaled(e, n, r, m, t, tr) ==
  /\ EngineOK(r.eng, m, t, tr) /\ Handed(r.closed, r.eng, m, tr)
  /\ SameOrNew(e, r.eng, n) /\ m \in Nat \ {0} /\ n <= m

LEMMA Signals ==
  ASSUME NEW e, NEW n \in Nat \ {0}, now \in Nat, NEW tr, EngineOK(e, n, now, tr), TrailOK(tr, n),
         NEW sig \in {"start", "stop", None}, NEW r, r = Signal(sig, e, n),
         NEW m, m = IF r.reserved THEN n + 1 ELSE n
  PROVE  Signaled(e, n, r, m, now, tr)
<1>1. n + 1 \in Nat \ {0} /\ n <= n + 1 /\ n <= n
  OBVIOUS
<1>2. CASE sig = "start"
  <2>1. r = ObserveStart(e, now, Agent, None, n)
    BY <1>2, Signs DEF Signal
  <2>2. Started(r, n, now, tr)
    BY <2>1, Starts
  <2> QED
    BY <1>1, <2>2 DEF SameOrNew, Started, Signaled
<1>3. CASE sig = "stop"
  <2>1. r = ObserveStop(e, now, Agent, n)
    BY <1>3, Signs DEF Signal
  <2>2. /\ EngineOK(r.eng, m, now, tr) /\ Handed(r.closed, r.eng, m, tr)
        /\ r.eng.open = None /\ r.reserved \in BOOLEAN
    BY <2>1, Stops
  <2> QED
    BY <1>1, <2>2 DEF SameOrNew, Signaled
<1>4. CASE sig # "start" /\ sig # "stop"
  <2>1. r = Result(e, << >>, FALSE)
    BY <1>4, Signs DEF Signal
  <2>2. r.eng = e /\ r.closed = << >> /\ m = n
    BY <2>1 DEF Result
  <2> QED
    BY <1>1, <2>2, EmptySequence DEF SameOrNew, Handed, ClosedsOK, Signaled
<1> QED
  BY <1>2, <1>3, <1>4

LEMMA Activity ==
  ASSUME NEW e, NEW n, NEW t \in Nat, NEW tr, EngineOK(e, n, t, tr), e.open # None
  PROVE  LastActivity(e) \in Nat /\ e.open.openedAt <= LastActivity(e) /\ e.open.openedAt \in Nat
  BY Windows DEF EngineOK, OpenOK, LastActivity

Ticked(e, r, n, t, tr) ==
  /\ EngineOK(r.eng, n, t, tr) /\ Handed(r.closed, r.eng, n, tr)
  /\ r.eng.open # None => r.eng.open = e.open

LEMMA Ticks ==
  ASSUME NEW e, NEW n \in Nat, NEW t \in Nat, NEW tr, EngineOK(e, n, t, tr), TrailOK(tr, n),
         NEW r, r = Tick(e, t)
  PROVE  Ticked(e, r, n, t, tr)
<1>1. PICK p : p = Prune(e, t)
  OBVIOUS
<1>2. PICK R : R = StillRecent(e.recentBare, t)
  OBVIOUS
<1>3. /\ IsEngine(p) /\ p.open = e.open /\ p.lastChange = e.lastChange
      /\ p.recentBare = R /\ p.pending = << >>
  <2>1. p = [e EXCEPT !.recentBare = R, !.pending = << >>]
    BY <1>1, <1>2 DEF Prune
  <2> QED
    BY <2>1 DEF EngineOK, IsEngine
<1>4. R \in SUBSET e.recentBare
  BY <1>2 DEF StillRecent
<1>5. BaresOK(R, n, t, tr)
  BY <1>4, FewerBares DEF EngineOK
<1>6. ClosedsOK(<< >>, n, tr) /\ Range(<< >>) = {}
  BY EmptySequence DEF ClosedsOK
<1>7. EngineOK(p, n, t, tr)
  BY <1>3, <1>4, <1>5, <1>6 DEF EngineOK, Younger
<1>8. CASE ~ (e.open # None /\ Elapsed(e, t))
  <2>1. r.eng = p /\ r.closed = e.pending
    BY <1>1, <1>8 DEF Tick, Result
  <2> QED
    BY <1>3, <1>7, <2>1 DEF EngineOK, Handed, Younger, Ticked
<1>9. CASE e.open # None /\ Elapsed(e, t)
  <2>1. PICK at : at = IF e.open.source = "bracket" THEN LastActivity(e) ELSE t
    OBVIOUS
  <2>2. PICK c : c = CloseOnOwnTerms(e.open, at)
    OBVIOUS
  <2>3. PICK S : S = IF c.grade = "bare" THEN {c} ELSE {}
    OBVIOUS
  <2>4. PICK z : z = Append(e.pending, c)
    OBVIOUS
  <2>5. r.eng = [TakeOpen(p) EXCEPT !.recentBare = R \cup S] /\ r.closed = z
    BY <1>1, <1>3, <1>9, <2>1, <2>2, <2>3, <2>4 DEF Tick, Result
  <2>6. /\ IsEngine(r.eng) /\ r.eng.open = None
        /\ r.eng.recentBare = R \cup S /\ r.eng.pending = << >>
    <3>1. PICK w : w = TakeOpen(p)
      OBVIOUS
    <3>2. IsEngine(w) /\ w.open = None /\ w.pending = << >>
      BY <1>3, <3>1, TakesOpen
    <3> QED
      BY <2>5, <3>1, <3>2 DEF IsEngine
  <2>7. /\ ClosedOK(c, n, tr) /\ c.id = e.open.id /\ c.merges = {} /\ c.openedAt = e.open.openedAt
        /\ (c.grade = "bare" => e.open.source = "quiet")
    BY <1>9, <2>2, OwnTerms DEF EngineOK
  <2>8. BaresOK(R \cup S, n, t, tr)
    <3>1. CASE c.grade # "bare"
      <4>1. R \cup S = R
        BY <2>3, <3>1
      <4> QED
        BY <1>5, <4>1
    <3>2. CASE c.grade = "bare"
      <4>1. e.open.openedAt \in Nat /\ e.open.openedAt < t
        <5>1. Monus(t, LastActivity(e)) > QUIET_MS
          BY <1>9, <2>7, <3>2 DEF Elapsed
        <5> QED
          BY <1>9, <5>1, Activity, Windows DEF Monus
      <4>2. BareOK(c, n, t, tr)
        BY <2>7, <4>1 DEF BareOK
      <4>3. \A b \in R : b.id < c.id /\ b.openedAt < c.openedAt
        BY <1>4, <1>9, <2>7 DEF EngineOK, Younger
      <4> QED
        BY <1>5, <2>3, <3>2, <4>2, <4>3, OneMoreBare
    <3> QED
      BY <3>1, <3>2
  <2>9. ClosedsOK(z, n, tr)
    <3>1. Sequence(z) /\ Range(z) = Range(e.pending) \cup {c}
      BY <2>4, AppendSequence DEF EngineOK, ClosedsOK
    <3> QED
      BY <2>7, <3>1 DEF EngineOK, ClosedsOK
  <2> QED
    BY <1>6, <2>5, <2>6, <2>8, <2>9 DEF EngineOK, Handed, Ticked
<1> QED
  BY <1>8, <1>9

LEMMA ForcesClosed ==
  ASSUME NEW e, NEW n, NEW t, NEW tr, EngineOK(e, n, t, tr), NEW at
  PROVE  ClosedsOK(ForceClose(e, at).closed, n, tr)
<1>1. PICK C : C = IF e.open = None THEN << >> ELSE <<CloseOnOwnTerms(e.open, at)>>
  OBVIOUS
<1>2. ForceClose(e, at).closed = C
  BY <1>1 DEF ForceClose, Result
<1> QED
  BY <1>1, <1>2, ClosedAlone

-----------------------------------------------------------------------------
(* The initial states.                                                     *)

LEMMA BootTrail ==
  ASSUME NEW x, x.by = "boot", x.id = 0, NEW z, z = <<x>>
  PROVE  /\ BySight(z) /\ Len(z) = 1 /\ DOMAIN z = {1} /\ z[1] = x
         /\ SeenBefore(z, 2) = x.content
<1>1. Sequence(z) /\ Len(z) = 1 /\ DOMAIN z = {1} /\ z[1] = x
  BY OneSequence
<1>2. BySight(z)
  BY <1>1 DEF BySight
<1>3. 2 \in 2 .. Len(z) + 1 /\ 1 .. 2 - 1 = {1}
  BY <1>1
<1>4. \E j \in 1 .. 2 - 1 : SeenBefore(z, 2) = z[j].content
  BY <1>2, <1>3, SeenIs
<1> QED
  BY <1>1, <1>2, <1>3, <1>4

LEMMA NewEngineOK ==
  ASSUME NEW n, NEW t, NEW tr
  PROVE  EngineOK(NewEngine, n, t, tr) /\ NewEngine.open = None
<1>1. /\ IsEngine(NewEngine) /\ NewEngine.open = None
      /\ NewEngine.recentBare = {} /\ NewEngine.pending = << >>
  BY DEF NewEngine, IsEngine
<1> QED
  BY <1>1, EmptySequence DEF EngineOK, BaresOK, ClosedsOK

LEMMA BootIs ==
  ASSUME NEW p \in Paths, ContentInv
  PROVE  /\ Boot(p).by = "boot" /\ Boot(p).id = 0 /\ Boot(p).content \in Values
         /\ Boot(p).content = IF p \in Existing THEN Unknown ELSE Absent
  BY DEF Boot, Seen, Existing, Values, Stored

SnapshotInv == EngineInv /\ KnownInv /\ LoggedInv /\ ContentInv /\ UndoInv

LEMMA Initially == Init => SnapshotInv
<1> SUFFICES ASSUME Init PROVE SnapshotInv
  OBVIOUS
<1>1. ASSUME NEW p \in Paths
      PROVE  /\ BySight(trail[p]) /\ Len(trail[p]) = 1 /\ DOMAIN trail[p] = {1}
             /\ trail[p][1].by = "boot" /\ trail[p][1].id = 0 /\ trail[p][1].content \in Values
             /\ SeenBefore(trail[p], 2) = IF p \in Existing THEN Unknown ELSE Absent
  <2>1. trail[p] = <<Boot(p)>>
    BY DEF Init
  <2>2. /\ Boot(p).by = "boot" /\ Boot(p).id = 0 /\ Boot(p).content \in Values
        /\ Boot(p).content = IF p \in Existing THEN Unknown ELSE Absent
    BY DEF Boot, Seen, Existing, Values, Stored
  <2>3. /\ BySight(trail[p]) /\ Len(trail[p]) = 1 /\ DOMAIN trail[p] = {1}
        /\ trail[p][1] = Boot(p) /\ SeenBefore(trail[p], 2) = Boot(p).content
    BY <2>1, <2>2, BootTrail
  <2> QED
    BY <2>2, <2>3
<1>2. EngineInv
  <2>1. TrailOK(trail, 1)
    BY <1>1 DEF TrailOK, BySight
  <2>2. EngineOK(NewEngine, 1, 0, trail)
    BY NewEngineOK
  <2> QED
    BY <2>1, <2>2 DEF EngineInv, Init
<1>3. KnownInv
  <2>1. ASSUME NEW p \in Paths PROVE SeenBefore(trail[p], Len(trail[p]) + 1) = BeforeOf(p)
    <3>1. Len(trail[p]) + 1 = 2
      <4>1. Len(trail[p]) = 1
        BY <1>1
      <4> QED
        BY <4>1
    <3>2. BeforeOf(p) = IF p \in Existing THEN Unknown ELSE Absent
      BY DEF BeforeOf, Init
    <3> QED
      BY <1>1, <3>1, <3>2
  <2> QED
    BY <2>1 DEF KnownInv
<1>4. Sequence(logf) /\ Logged = {}
  BY EmptySequence DEF Init, Logged
<1>5. LoggedInv
  BY <1>4 DEF LoggedInv, ByDaemon, Init
<1>6. ContentInv
  <2>1. disk \in [Paths -> Stored] /\ 0 <= MaxEdits
    BY ContentAssumption DEF Init, Stored
  <2>2. \A p \in Paths : \A k \in DOMAIN trail[p] : trail[p][k].content \in Values
    BY <1>1
  <2> QED
    BY <1>4, <2>1, <2>2 DEF ContentInv, Values, Stored, Init, Idle
<1>7. UndoInv
  BY DEF UndoInv, Init, Idle
<1> QED
  BY <1>2, <1>3, <1>5, <1>6, <1>7 DEF SnapshotInv

-----------------------------------------------------------------------------
(* Steps that leave the trails, the engine and the log alone.              *)

LEMMA Elsewhere ==
  ASSUME SnapshotInv, UNCHANGED <<up, eng, baseline, known, logf, journal, nextId, trail>>,
         now' \in Nat, now <= now'
  PROVE  EngineInv' /\ KnownInv' /\ LoggedInv'
<1>1. EngineOK(eng, nextId, now', trail)
  <2>1. nextId \in Nat /\ now \in Nat /\ nextId <= nextId /\ EngineOK(eng, nextId, now, trail)
    BY DEF SnapshotInv, EngineInv
  <2> QED
    BY <2>1, EngineLater
<1>2. EngineInv'
  BY <1>1 DEF SnapshotInv, EngineInv
<1>3. KnownInv'
  BY DEF SnapshotInv, KnownInv, BeforeOf
<1>4. LoggedInv'
  BY DEF SnapshotInv, LoggedInv, ByDaemon, Logged
<1> QED
  BY <1>2, <1>3, <1>4

LEMMA NowStays ==
  ASSUME SnapshotInv, UNCHANGED now
  PROVE  now' \in Nat /\ now <= now'
  BY DEF SnapshotInv, EngineInv

LEMMA EditStep == ASSUME SnapshotInv, NEW p \in Paths, Edit(p) PROVE SnapshotInv'
<1>1. EngineInv' /\ KnownInv' /\ LoggedInv'
  BY NowStays, Elsewhere DEF Edit, daemon
<1>2. UndoInv'
  BY DEF SnapshotInv, UndoInv, Edit, Logged
<1>3. ContentInv'
  <2>1. writes \in Nat /\ writes' = writes + 1 /\ writes < MaxEdits
    BY DEF SnapshotInv, ContentInv, Edit
  <2>2. /\ 0 .. writes \subseteq 0 .. writes' /\ writes + 1 \in 0 .. writes' /\ writes' \in Nat
        /\ writes' <= MaxEdits
    BY <2>1, ContentAssumption
  <2>3. /\ Stored \subseteq Stored' /\ Values \subseteq Values' /\ writes + 1 \in Stored'
        /\ Absent \in Stored'
    BY <2>2 DEF Values, Stored
  <2>4. \A q \in Paths : disk[q] \in Stored' /\ disk \in [Paths -> Stored]
    BY <2>3 DEF SnapshotInv, ContentInv
  <2>5. disk' \in {[disk EXCEPT ![p] = writes + 1], [disk EXCEPT ![p] = Absent]}
    BY DEF Edit
  <2>6. disk' \in [Paths -> Stored']
    BY <2>3, <2>4, <2>5
  <2>7. queue' \subseteq Paths /\ pending' \subseteq Paths
    BY DEF SnapshotInv, ContentInv, Edit, daemon
  <2>8. UNCHANGED <<trail, logf, undo>>
    BY DEF Edit
  <2> QED
    BY <2>2, <2>3, <2>6, <2>7, <2>8 DEF SnapshotInv, ContentInv, Logged
<1> QED
  BY <1>1, <1>2, <1>3 DEF SnapshotInv

LEMMA WorldStep ==
  ASSUME SnapshotInv, GitTransition \/ Advance
  PROVE  SnapshotInv'
<1>1. now' \in Nat /\ now <= now'
  BY DEF SnapshotInv, EngineInv, GitTransition, Advance
<1>2. EngineInv' /\ KnownInv' /\ LoggedInv'
  BY <1>1, Elsewhere DEF GitTransition, Advance, daemon, hist
<1>3. UndoInv' /\ ContentInv'
  BY DEF SnapshotInv, UndoInv, ContentInv, Values, Stored, GitTransition, Advance, Logged, daemon, hist, world
<1> QED
  BY <1>2, <1>3 DEF SnapshotInv

-----------------------------------------------------------------------------
(* The steps of undo.                                                      *)

(* What daemon records and the journal say of `before` is a value.         *)
LEMMA ToldValues ==
  ASSUME EngineInv, ContentInv, NEW ids, ids \subseteq Nat \ {0}, NEW files, Told(trail, ids, files),
         NEW p \in DOMAIN files, DOMAIN files \subseteq Paths
  PROVE  files[p].before \in Values
<1>1. PICK k \in DOMAIN trail[p] :
        FirstAt(trail[p], ids, k) /\ files[p].before = SeenBefore(trail[p], k)
  BY DEF Told
<1>2. /\ BySight(trail[p]) /\ trail[p][1].id = 0
      /\ Len(trail[p]) \in Nat /\ DOMAIN trail[p] = 1 .. Len(trail[p])
  <2>1. p \in Paths /\ Sequence(trail[p])
    BY DEF EngineInv, TrailOK
  <2>2. Len(trail[p]) \in Nat /\ DOMAIN trail[p] = 1 .. Len(trail[p])
    BY <2>1, AnySequence DEF Sequence
  <2> QED
    BY <2>1, <2>2 DEF EngineInv, TrailOK, BySight
<1>3. k # 1
  BY <1>1, <1>2 DEF FirstAt
<1>4. k \in 2 .. Len(trail[p]) + 1
  BY <1>1, <1>2, <1>3
<1>5. PICK j \in 1 .. k - 1 : SeenBefore(trail[p], k) = trail[p][j].content
  BY <1>2, <1>4, SeenIs
<1>6. j \in DOMAIN trail[p]
  BY <1>2, <1>4, <1>5
<1> QED
  BY <1>1, <1>5, <1>6 DEF ContentInv, Values, Stored

LEMMA RecordValues ==
  ASSUME SnapshotInv, NEW r \in Logged, NEW p \in DOMAIN r.files
  PROVE  r.files[p].before \in Values
<1>1. CASE r.by = "daemon"
  <2>1. /\ Family(r) \subseteq Nat \ {0} /\ Told(trail, Family(r), r.files)
        /\ DOMAIN r.files \subseteq Paths
    BY <1>1 DEF SnapshotInv, LoggedInv, ByDaemon
  <2> QED
    BY <2>1, ToldValues DEF SnapshotInv
<1>2. CASE r.by # "daemon"
  BY <1>2 DEF SnapshotInv, ContentInv, Values, Stored
<1> QED
  BY <1>1, <1>2

LEMMA UndoPlanStep ==
  ASSUME SnapshotInv, NEW i \in DOMAIN logf, NEW allow \in BOOLEAN, UndoPlan(i, allow)
  PROVE  SnapshotInv'
<1>1. EngineInv' /\ KnownInv' /\ LoggedInv'
  BY NowStays, Elsewhere DEF UndoPlan, daemon, hist
<1>2. UndoInv'
  BY DEF SnapshotInv, UndoInv, UndoPlan, Logged, hist
<1>3. \A p \in undo'.todo : Restored(undo'.turn.files[p]) \in Stored
  <2>1. ASSUME NEW p \in undo'.todo PROVE Restored(logf[i].files[p]) \in Stored
    <3>1. p \in DOMAIN logf[i].files /\ Revertible(logf[i], p, allow)
      BY DEF UndoPlan
    <3>2. logf[i] \in Logged
      BY DEF Logged, Range
    <3>3. logf[i].files[p].before \in Values
      BY <3>1, <3>2, RecordValues
    <3> QED
      BY <3>1, <3>3 DEF Revertible, Restored, Values, Stored
  <2>2. undo'.turn = logf[i]
    BY DEF UndoPlan
  <2> QED
    BY <2>1, <2>2
<1>4. undo'.at = "plan"
  BY DEF UndoPlan
<1>5. ContentInv'
  BY <1>3, <1>4 DEF SnapshotInv, ContentInv, Values, Stored, UndoPlan, Logged, daemon, hist, world
<1> QED
  BY <1>1, <1>2, <1>5 DEF SnapshotInv

LEMMA UndoGuardStep == ASSUME SnapshotInv, UndoGuard PROVE SnapshotInv'
<1>1. EngineInv' /\ KnownInv' /\ LoggedInv'
  BY NowStays, Elsewhere DEF UndoGuard, daemon, hist
<1>2. CASE undo' = Idle
  <2>1. undo'.at = "idle"
    BY <1>2 DEF Idle
  <2>2. UndoInv' /\ ContentInv'
    BY <2>1 DEF SnapshotInv, UndoInv, ContentInv, Values, Stored, UndoGuard, Logged, daemon, hist, world
  <2> QED
    BY <1>1, <2>2 DEF SnapshotInv
<1>3. CASE undo' = [ at |-> "revert", turn |-> undo.turn, todo |-> undo.todo,
                     done |-> << >>, on |-> None ]
  <2>1. PICK e : e = << >>
    OBVIOUS
  <2>2. DOMAIN e = {}
    BY <2>1
  <2>3. undo' = [ at |-> "revert", turn |-> undo.turn, todo |-> undo.todo, done |-> e,
                  on |-> None ]
    BY <1>3, <2>1
  <2>4. /\ undo'.at = "revert" /\ undo'.turn = undo.turn /\ undo'.todo = undo.todo
        /\ undo'.done = e /\ undo'.on = None
        /\ undo' = [ at |-> "revert", turn |-> undo'.turn, todo |-> undo'.todo,
                     done |-> undo'.done, on |-> undo'.on ]
    BY <2>3
  <2>5. UndoInv'
    BY <2>2, <2>4 DEF SnapshotInv, UndoInv, UndoGuard, Logged, hist
  <2>6. ContentInv'
    BY <2>2, <2>4 DEF SnapshotInv, ContentInv, Values, Stored, UndoGuard, Logged, daemon, hist, world
  <2> QED
    BY <1>1, <2>5, <2>6 DEF SnapshotInv
<1> QED
  BY <1>2, <1>3 DEF UndoGuard

LEMMA UndoReadStep == ASSUME SnapshotInv, NEW p \in Paths, UndoRead(p) PROVE SnapshotInv'
<1>1. EngineInv' /\ KnownInv' /\ LoggedInv'
  BY NowStays, Elsewhere DEF UndoRead, daemon, hist
<1>2. PICK a, b, c, d : undo = [at |-> "revert", turn |-> a, todo |-> b, done |-> c, on |-> d]
  BY DEF SnapshotInv, UndoInv, UndoRead, Reverting
<1>3. PICK o : o = [path |-> p, read |-> disk[p]]
  OBVIOUS
<1>4. undo' = [at |-> "revert", turn |-> a, todo |-> b, done |-> c, on |-> o] /\ p \in b
  BY <1>2, <1>3 DEF UndoRead
<1>5. /\ undo'.at = "revert" /\ undo'.turn = undo.turn /\ undo'.todo = undo.todo
      /\ undo'.done = undo.done /\ undo'.on = o /\ undo.at = "revert"
      /\ undo' = [ at |-> "revert", turn |-> undo'.turn, todo |-> undo'.todo,
                   done |-> undo'.done, on |-> undo'.on ]
  BY <1>2, <1>4
<1>6. o.path = p /\ p \in undo'.todo /\ o.read \in Stored
  BY <1>2, <1>3, <1>4, <1>5 DEF SnapshotInv, ContentInv
<1>7. UNCHANGED <<disk, writes, queue, pending, trail, replaced>> /\ Logged' = Logged
  BY DEF UndoRead, Logged, daemon, hist, world
<1>8. UndoInv'
  BY <1>5, <1>6, <1>7 DEF SnapshotInv, UndoInv
<1>9. ContentInv'
  BY <1>5, <1>6, <1>7 DEF SnapshotInv, ContentInv, Values, Stored
<1> QED
  BY <1>1, <1>8, <1>9 DEF SnapshotInv

LEMMA UndoFailStep == ASSUME SnapshotInv, UndoFail \/ UndoVerified PROVE SnapshotInv'
<1>1. EngineInv' /\ KnownInv' /\ LoggedInv'
  BY NowStays, Elsewhere DEF UndoFail, UndoVerified, daemon, hist
<1>2. PICK a, b, c, d : undo = [at |-> "revert", turn |-> a, todo |-> b, done |-> c, on |-> d]
  BY DEF SnapshotInv, UndoInv, UndoFail, UndoVerified, Reverting
<1>3. \E z \in {b, {}} :
        undo' = [at |-> "revert", turn |-> a, todo |-> z, done |-> c, on |-> None]
  BY <1>2 DEF UndoFail, UndoVerified
<1>4. /\ undo'.at = "revert" /\ undo'.todo \in {undo.todo, {}} /\ undo'.done = undo.done
      /\ undo'.on = None /\ undo'.turn = undo.turn /\ undo.at = "revert"
      /\ undo' = [ at |-> "revert", turn |-> undo'.turn, todo |-> undo'.todo,
                   done |-> undo'.done, on |-> undo'.on ]
  BY <1>2, <1>3
<1>5. UNCHANGED <<disk, writes, queue, pending, trail, replaced>> /\ Logged' = Logged
  BY DEF UndoFail, UndoVerified, Logged, daemon, hist, world
<1>6. UndoInv'
  BY <1>4, <1>5 DEF SnapshotInv, UndoInv
<1>7. ContentInv'
  BY <1>4, <1>5 DEF SnapshotInv, ContentInv, Values, Stored
<1> QED
  BY <1>1, <1>6, <1>7 DEF SnapshotInv

LEMMA UndoTornStep == ASSUME SnapshotInv, UndoTorn PROVE SnapshotInv'
<1>1. EngineInv' /\ KnownInv' /\ LoggedInv'
  BY NowStays, Elsewhere DEF UndoTorn, daemon
<1>2. PICK a, b, c, d : undo = [at |-> "revert", turn |-> a, todo |-> b, done |-> c, on |-> d]
  BY DEF SnapshotInv, UndoInv, UndoTorn, Reverting
<1>3. undo' = [at |-> "revert", turn |-> a, todo |-> {}, done |-> c, on |-> None]
  BY <1>2 DEF UndoTorn
<1>4. /\ undo'.at = "revert" /\ undo'.todo = {} /\ undo'.done = undo.done
      /\ undo'.on = None /\ undo'.turn = undo.turn /\ undo.at = "revert"
      /\ undo' = [ at |-> "revert", turn |-> undo'.turn, todo |-> undo'.todo,
                   done |-> undo'.done, on |-> undo'.on ]
  BY <1>2, <1>3
<1>5. UNCHANGED <<pending, trail, replaced>> /\ Logged' = Logged
  BY DEF UndoTorn, Logged, daemon
<1>6. UndoInv'
  BY <1>4, <1>5 DEF SnapshotInv, UndoInv
<1>7. /\ writes \in Nat /\ writes' = writes + 1 /\ writes < MaxEdits
      /\ undo.on.path \in Paths
  BY DEF SnapshotInv, ContentInv, UndoTorn, Reverting
<1>8. /\ Stored \subseteq Stored' /\ Values \subseteq Values' /\ writes + 1 \in Stored'
      /\ writes' \in Nat /\ writes' <= MaxEdits
  BY <1>7, ContentAssumption DEF Values, Stored
<1>9. disk' = [disk EXCEPT ![undo.on.path] = writes + 1] /\ disk \in [Paths -> Stored]
  BY DEF UndoTorn, SnapshotInv, ContentInv
<1>10. disk' \in [Paths -> Stored']
  BY <1>7, <1>8, <1>9
<1>11. queue' \subseteq Paths
  BY <1>7 DEF SnapshotInv, ContentInv, UndoTorn
<1>12. ContentInv'
  BY <1>4, <1>5, <1>8, <1>10, <1>11 DEF SnapshotInv, ContentInv
<1> QED
  BY <1>1, <1>6, <1>12 DEF SnapshotInv

LEMMA UndoUnverifiedStep == ASSUME SnapshotInv, UndoUnverified PROVE SnapshotInv'
<1>1. EngineInv' /\ KnownInv' /\ LoggedInv'
  BY NowStays, Elsewhere DEF UndoUnverified, daemon, world
<1>2. PICK a, b, c, d : undo = [at |-> "revert", turn |-> a, todo |-> b, done |-> c, on |-> d]
  BY DEF SnapshotInv, UndoInv, UndoUnverified, Reverting
<1>3. PICK w : w = [q \in DOMAIN c \ {d.path} |-> c[q]]
  OBVIOUS
<1>4. undo' = [at |-> "revert", turn |-> a, todo |-> {}, done |-> w, on |-> None]
  BY <1>2, <1>3 DEF UndoUnverified
<1>5. /\ undo'.at = "revert" /\ undo'.todo = {} /\ undo'.done = w
      /\ undo'.on = None /\ undo'.turn = undo.turn /\ undo.at = "revert"
      /\ undo' = [ at |-> "revert", turn |-> undo'.turn, todo |-> undo'.todo,
                   done |-> undo'.done, on |-> undo'.on ]
  BY <1>2, <1>4
<1>6. /\ DOMAIN w = DOMAIN undo.done \ {undo.on.path}
      /\ \A q \in DOMAIN w : w[q] = undo.done[q]
  BY <1>2, <1>3
<1>7. /\ UNCHANGED <<disk, writes, queue, pending, trail>> /\ Logged' = Logged
      /\ replaced' = replaced \ {<<undo.on.path, undo.on.read>>}
  BY DEF UndoUnverified, Logged, daemon, world
<1>8. undo.done[undo.on.path].before = undo.on.read
  BY <1>5 DEF SnapshotInv, UndoInv, UndoUnverified
<1>9. ASSUME NEW x \in replaced'
      PROVE  \/ \E r \in Logged : /\ r.by = "undo" /\ x[1] \in DOMAIN r.files
                                  /\ r.files[x[1]].before = x[2]
             \/ x[1] \in DOMAIN w /\ w[x[1]].before = x[2]
  <2>1. x \in replaced /\ x = <<x[1], x[2]>> /\ x # <<undo.on.path, undo.on.read>>
    BY <1>7, <1>9 DEF SnapshotInv, UndoInv
  <2>2. CASE x[1] \in DOMAIN undo.done /\ undo.done[x[1]].before = x[2]
    <3>1. x[1] # undo.on.path
      BY <1>8, <2>1, <2>2
    <3> QED
      BY <1>6, <2>2, <3>1
  <2> QED
    BY <2>1, <2>2 DEF SnapshotInv, UndoInv
<1>10. UndoInv'
  <2>1. \A x \in replaced' : x = <<x[1], x[2]>>
    BY <1>7 DEF SnapshotInv, UndoInv
  <2> QED
    BY <1>5, <1>7, <1>9, <2>1 DEF UndoInv
<1>11. ContentInv'
  BY <1>5, <1>6, <1>7 DEF SnapshotInv, ContentInv, Values, Stored
<1> QED
  BY <1>1, <1>10, <1>11 DEF SnapshotInv

LEMMA UndoEndStep == ASSUME SnapshotInv, UndoFinish \/ UndoKilled PROVE SnapshotInv'
<1>1. EngineInv' /\ KnownInv' /\ LoggedInv'
  BY NowStays, Elsewhere DEF UndoFinish, UndoKilled, daemon, hist
<1>2. undo'.at = "idle"
  BY DEF UndoFinish, UndoKilled, Idle
<1>3. ContentInv'
  BY <1>2 DEF SnapshotInv, ContentInv, Values, Stored, UndoFinish, UndoKilled, Logged, daemon, hist, world
<1>4. UndoInv'
  <2>1. CASE UndoFinish
    BY <1>2, <2>1 DEF SnapshotInv, UndoInv, UndoFinish, Logged, hist
  <2>2. CASE UndoKilled
    <3>1. ASSUME NEW x \in replaced'
          PROVE  \E r \in Logged : /\ r.by = "undo" /\ x[1] \in DOMAIN r.files
                                   /\ r.files[x[1]].before = x[2]
      <4>1. x \in replaced /\ x = <<x[1], x[2]>>
        BY <2>2 DEF UndoKilled, SnapshotInv, UndoInv
      <4>2. ~ (undo.at = "revert" /\ x[1] \in DOMAIN undo.done /\ undo.done[x[1]].before = x[2])
        <5>1. SUFFICES ASSUME undo.at = "revert", x[1] \in DOMAIN undo.done,
                              undo.done[x[1]].before = x[2]
                       PROVE  FALSE
          OBVIOUS
        <5>2. x \in {<<p, undo.done[p].before>> : p \in DOMAIN undo.done}
          BY <4>1, <5>1
        <5> QED
          BY <2>2, <5>1, <5>2 DEF UndoKilled
      <4> QED
        BY <4>1, <4>2 DEF SnapshotInv, UndoInv
    <3>2. Logged' = Logged
      BY <2>2 DEF UndoKilled, Logged
    <3>3. \A x \in replaced' : x = <<x[1], x[2]>>
      BY <2>2 DEF UndoKilled, SnapshotInv, UndoInv
    <3> QED
      BY <1>2, <3>1, <3>2, <3>3 DEF UndoInv
  <2> QED
    BY <2>1, <2>2
<1> QED
  BY <1>1, <1>3, <1>4 DEF SnapshotInv

(* An event that is not the daemon's changes nothing for the engine.       *)
LEMMA EngineStays ==
  ASSUME NEW e, NEW n \in Nat, NEW t, NEW tr, EngineOK(e, n, t, tr), TrailOK(tr, n),
         NEW tz, Grows(tr, tz, 0), 0 < n
  PROVE  EngineOK(e, n, t, tz) /\ TrailOK(tz, n)
<1>1. TrailOK(tz, n)
  <2>1. 0 \in Nat /\ n <= n
    OBVIOUS
  <2> QED
    BY <2>1, TrailGrows
<1>2. /\ \A b \in e.recentBare : b.id # 0
      /\ \A c \in Range(e.pending) : 0 \notin Family(c)
  BY DEF EngineOK, BaresOK, BareOK, ClosedsOK, ClosedOK, Family
<1>3. BaresOK(e.recentBare, n, t, tz) /\ ClosedsOK(e.pending, n, tz)
  BY <1>2, ClosedsStay DEF EngineOK
<1>4. ASSUME e.open # None PROVE OpenOK(e.open, n, t, tz)
  <2>1. OpenOK(e.open, n, t, tr)
    BY <1>4 DEF EngineOK
  <2>2. {e.open.id} \in SUBSET (Nat \ {0}) /\ 0 \notin {e.open.id}
    BY <2>1 DEF OpenOK
  <2>3. Told(tz, {e.open.id}, e.open.files)
    BY <2>1, <2>2, ToldStays DEF OpenOK
  <2>4. ASSUME NEW p \in Paths, NEW k \in DOMAIN tz[p] PROVE tz[p][k].id <= e.open.id
    <3>1. Sequence(tr[p]) /\ \A j \in DOMAIN tr[p] : tr[p][j].id <= e.open.id
      BY <2>1 DEF OpenOK, TrailOK
    <3>2. CASE tz[p] = tr[p]
      BY <3>1, <3>2
    <3>3. CASE \E y : y.id = 0 /\ tz[p] = Append(tr[p], y)
      <4>1. PICK y : y.id = 0 /\ tz[p] = Append(tr[p], y)
        BY <3>3
      <4>2. /\ DOMAIN tr[p] = 1 .. Len(tr[p]) /\ DOMAIN tz[p] = 1 .. Len(tr[p]) + 1
            /\ tz[p][Len(tr[p]) + 1] = y /\ \A i \in DOMAIN tr[p] : tz[p][i] = tr[p][i]
            /\ Len(tr[p]) \in Nat
        BY <3>1, <4>1, AppendSequence
      <4>3. k \in DOMAIN tr[p] \/ k = Len(tr[p]) + 1
        BY <4>2
      <4>4. 0 <= e.open.id
        BY <2>2
      <4> QED
        BY <3>1, <4>1, <4>2, <4>3, <4>4
    <3> QED
      BY <3>2, <3>3 DEF Grows
  <2> QED
    BY <2>1, <2>3, <2>4 DEF OpenOK
<1> QED
  BY <1>1, <1>3, <1>4 DEF EngineOK

LEMMA LoggedStays ==
  ASSUME EngineInv, LoggedInv, NEW tz, Grows(trail, tz, 0)
  PROVE  /\ \A r \in ByDaemon : Told(tz, Family(r), r.files)
         /\ journal # None => Told(tz, {journal.id}, journal.files)
<1>1. ASSUME NEW r \in ByDaemon PROVE Told(tz, Family(r), r.files)
  <2>1. Family(r) \in SUBSET (Nat \ {0}) /\ 0 \notin Family(r) /\ Told(trail, Family(r), r.files)
    BY DEF LoggedInv
  <2> QED
    BY <2>1, ToldStays DEF EngineInv
<1>2. ASSUME journal # None PROVE Told(tz, {journal.id}, journal.files)
  <2>1. /\ {journal.id} \in SUBSET (Nat \ {0}) /\ 0 \notin {journal.id}
        /\ Told(trail, {journal.id}, journal.files)
    BY <1>2 DEF LoggedInv
  <2> QED
    BY <2>1, ToldStays DEF EngineInv
<1> QED
  BY <1>1, <1>2

(* The values of the trails, when one more event has one.                  *)
LEMMA TrailValues ==
  ASSUME EngineInv, ContentInv, NEW p \in Paths, NEW x, x.content \in Values,
         NEW z, z = trail[p] \/ z = Append(trail[p], x)
  PROVE  \A k \in DOMAIN z : z[k].content \in Values
<1>1. Sequence(trail[p]) /\ \A k \in DOMAIN trail[p] : trail[p][k].content \in Values
  BY DEF EngineInv, TrailOK, ContentInv, Values, Stored
<1>2. CASE z = trail[p]
  BY <1>1, <1>2
<1>3. CASE z = Append(trail[p], x)
  <2>1. /\ DOMAIN trail[p] = 1 .. Len(trail[p]) /\ DOMAIN z = 1 .. Len(trail[p]) + 1
        /\ z[Len(trail[p]) + 1] = x /\ \A i \in DOMAIN trail[p] : z[i] = trail[p][i]
        /\ Len(trail[p]) \in Nat
    BY <1>1, <1>3, AppendSequence
  <2>2. \A k \in DOMAIN z : k \in DOMAIN trail[p] \/ k = Len(trail[p]) + 1
    BY <2>1
  <2> QED
    BY <1>1, <2>1, <2>2
<1> QED
  BY <1>2, <1>3

LEMMA CrashStep == ASSUME SnapshotInv, Crash PROVE SnapshotInv'
<1>1. up' = FALSE /\ eng' = NewEngine /\ eng'.open = None
  BY NewEngineOK DEF Crash, Die
<1>2. EngineInv'
  <2>1. EngineOK(eng', nextId', now', trail')
    BY <1>1, NewEngineOK
  <2> QED
    BY <1>1, <2>1 DEF SnapshotInv, EngineInv, Crash
<1>3. KnownInv'
  BY <1>1 DEF KnownInv
<1>4. LoggedInv'
  BY <1>1 DEF SnapshotInv, LoggedInv, ByDaemon, Logged, Crash
<1>5. ContentInv' /\ UndoInv'
  BY DEF SnapshotInv, ContentInv, Values, Stored, UndoInv, Logged, Crash, Die
<1> QED
  BY <1>2, <1>3, <1>4, <1>5 DEF SnapshotInv

LEMMA RestartStep == ASSUME SnapshotInv, Restart PROVE SnapshotInv'
<1>1. eng = NewEngine /\ eng' = eng /\ eng'.open = None
  BY NewEngineOK DEF SnapshotInv, EngineInv, Restart
<1>2. ASSUME NEW p \in Paths
      PROVE  /\ Boot(p).by = "boot" /\ Boot(p).id = 0 /\ Boot(p).content \in Values
             /\ Boot(p).content = IF p \in Existing THEN Unknown ELSE Absent
             /\ trail'[p] = Append(trail[p], Boot(p))
  <2>1. trail'[p] = Append(trail[p], Boot(p))
    BY DEF Restart
  <2> QED
    BY <2>1, BootIs DEF SnapshotInv
<1>3. Grows(trail, trail', 0)
  BY <1>2 DEF Grows
<1>4. EngineInv'
  <2>1. nextId \in Nat /\ 0 < nextId /\ EngineOK(eng, nextId, now, trail) /\ TrailOK(trail, nextId)
    BY DEF SnapshotInv, EngineInv
  <2>2. EngineOK(eng, nextId, now, trail') /\ TrailOK(trail', nextId)
    BY <1>3, <2>1, EngineStays
  <2>3. trail' = [p \in Paths |-> trail'[p]] /\ up' \in BOOLEAN /\ up'
    BY DEF Restart
  <2> QED
    BY <2>2, <2>3 DEF SnapshotInv, EngineInv, Restart
<1>5. KnownInv'
  <2>1. ASSUME NEW p \in Paths
        PROVE  SeenBefore(trail'[p], Len(trail'[p]) + 1) = BeforeOf(p)'
    <3>1. BySight(trail[p])
      BY DEF SnapshotInv, EngineInv, TrailOK, BySight
    <3>2. SeenBefore(trail'[p], Len(trail'[p]) + 1) = Boot(p).content
      BY <1>2, <3>1, SeenLast
    <3>3. BeforeOf(p)' = IF p \in Existing THEN Unknown ELSE Absent
      BY DEF BeforeOf, Restart
    <3> QED
      BY <1>2, <3>2, <3>3
  <2> QED
    BY <2>1 DEF KnownInv
<1>6. journal' = None
  BY DEF Restart
<1>7. Sequence(logf) /\ (journal # None => ~ up)
  BY DEF SnapshotInv, LoggedInv, Restart
<1>8. /\ Sequence(logf')
      /\ Logged \subseteq Logged'
      /\ \A r \in Logged' \ Logged :
           /\ journal # None /\ r.by = "daemon" /\ r.files = journal.files
           /\ Family(r) = {journal.id}
  <2>1. CASE logf' = logf
    BY <1>7, <2>1 DEF Logged
  <2>2. CASE journal # None /\ \E r : /\ r = [ id |-> journal.id, by |-> "daemon",
                                               merges |-> {}, files |-> journal.files ]
                                      /\ logf' = Append(logf, r)
    <3>1. PICK r : /\ r = [ id |-> journal.id, by |-> "daemon", merges |-> {},
                            files |-> journal.files ]
                   /\ logf' = Append(logf, r)
      BY <2>2
    <3>2. Sequence(logf') /\ Logged' = Logged \cup {r}
      <4>1. PICK z : z = Append(logf, r)
        OBVIOUS
      <4>2. Sequence(z) /\ Range(z) = Range(logf) \cup {r}
        BY <1>7, <4>1, AppendSequence
      <4> QED
        BY <3>1, <4>1, <4>2 DEF Logged
    <3>3. r.by = "daemon" /\ r.files = journal.files /\ Family(r) = {journal.id}
      BY <3>1 DEF Family
    <3> QED
      BY <2>2, <3>2, <3>3
  <2> QED
    BY <2>1, <2>2 DEF Restart
<1>9. LoggedInv'
  <2>1. /\ \A r \in ByDaemon : Told(trail', Family(r), r.files)
        /\ journal # None => Told(trail', {journal.id}, journal.files)
    BY <1>3, LoggedStays DEF SnapshotInv
  <2>2. ASSUME NEW r \in ByDaemon'
        PROVE  /\ Family(r) \subseteq Nat \ {0} /\ \A i \in Family(r) : i < nextId
               /\ DOMAIN r.files \subseteq Paths /\ Told(trail', Family(r), r.files)
    <3>1. CASE r \in Logged
      BY <2>1, <3>1 DEF SnapshotInv, LoggedInv, ByDaemon
    <3>2. CASE r \notin Logged
      <4>1. journal # None /\ r.files = journal.files /\ Family(r) = {journal.id}
        BY <1>8, <3>2 DEF ByDaemon
      <4> QED
        BY <2>1, <4>1 DEF SnapshotInv, LoggedInv
    <3> QED
      BY <3>1, <3>2
  <2>3. nextId' = nextId
    BY DEF Restart
  <2> QED
    BY <1>1, <1>6, <1>8, <2>2, <2>3 DEF LoggedInv
<1>10. ContentInv'
  <2>1. \A p \in Paths : \A k \in DOMAIN trail'[p] : trail'[p][k].content \in Values
    BY <1>2, TrailValues DEF SnapshotInv
  <2> QED
    BY <1>8, <2>1 DEF SnapshotInv, ContentInv, Values, Stored, Restart, world
<1>11. UndoInv'
  BY <1>8 DEF SnapshotInv, UndoInv, Restart
<1> QED
  BY <1>4, <1>5, <1>9, <1>10, <1>11 DEF SnapshotInv

LEMMA UndoRecordStep == ASSUME SnapshotInv, UndoRecord PROVE SnapshotInv'
<1>1. undo'.at = "linger" /\ undo.at = "revert"
  BY DEF UndoRecord, Reverting
<1>2. Sequence(logf)
  BY DEF SnapshotInv, LoggedInv
<1>3. /\ Sequence(logf') /\ Logged \subseteq Logged' /\ nextId' \in {nextId, nextId + 1}
      /\ \A r \in Logged' \ Logged : r.by = "undo" /\ r.files = undo.done
      /\ undo.done # << >> => \E r \in Logged' : r.by = "undo" /\ r.files = undo.done
  <2>1. CASE undo.done = << >>
    BY <1>2, <2>1 DEF UndoRecord, Logged
  <2>2. CASE undo.done # << >>
    <3>1. PICK r : r = [id |-> nextId, by |-> "undo", merges |-> {}, files |-> undo.done]
      OBVIOUS
    <3>2. PICK z : z = Append(logf, r)
      OBVIOUS
    <3>3. logf' = z /\ nextId' = nextId + 1
      BY <2>2, <3>1, <3>2 DEF UndoRecord
    <3>4. Sequence(z) /\ Range(z) = Range(logf) \cup {r}
      BY <1>2, <3>2, AppendSequence
    <3>5. r.by = "undo" /\ r.files = undo.done
      BY <3>1
    <3>6. Logged' = Logged \cup {r}
      BY <3>3, <3>4 DEF Logged
    <3> QED
      BY <3>3, <3>4, <3>5, <3>6
  <2> QED
    BY <2>1, <2>2
<1>4. nextId \in Nat \ {0} /\ nextId' \in Nat \ {0} /\ nextId <= nextId' /\ nextId' \in Nat
  BY <1>3 DEF SnapshotInv, EngineInv
<1>5. UNCHANGED <<up, eng, baseline, known, after, journal, now, trail, disk, queue, pending, writes,
                  replaced>>
  BY DEF UndoRecord, daemon, world
<1>6. EngineInv'
  <2>1. EngineOK(eng, nextId', now, trail) /\ TrailOK(trail, nextId')
    <3>1. now \in Nat /\ now <= now /\ nextId \in Nat
      BY DEF SnapshotInv, EngineInv
    <3> QED
      BY <1>4, <3>1, EngineLater, TrailLater DEF SnapshotInv, EngineInv
  <2> QED
    BY <1>4, <1>5, <2>1 DEF SnapshotInv, EngineInv
<1>7. KnownInv'
  BY <1>5 DEF SnapshotInv, KnownInv, BeforeOf
<1>8. ByDaemon' \subseteq ByDaemon
  BY <1>3, "undo" # "daemon" DEF ByDaemon
<1>9. LoggedInv'
  <2>1. ASSUME NEW i \in Nat, i < nextId PROVE i < nextId'
    BY <1>4, <2>1
  <2>2. ASSUME NEW r \in ByDaemon' PROVE \A i \in Family(r) : i < nextId'
    BY <1>8, <2>1 DEF SnapshotInv, LoggedInv
  <2> QED
    BY <1>3, <1>5, <1>8, <2>1, <2>2 DEF SnapshotInv, LoggedInv
<1>10. ContentInv'
  <2>1. \A r \in Logged' :
           \/ r.by = "daemon"
           \/ r.by = "undo" /\ \A p \in DOMAIN r.files : r.files[p].before \in Values
    <3>1. \A p \in DOMAIN undo.done : undo.done[p].before \in Values
      BY <1>1 DEF SnapshotInv, ContentInv, Values, Stored
    <3> QED
      BY <1>3, <3>1 DEF SnapshotInv, ContentInv, Values, Stored
  <2> QED
    BY <1>1, <1>5, <2>1 DEF SnapshotInv, ContentInv, Values, Stored
<1>11. UndoInv'
  <2>1. ASSUME NEW x \in replaced
        PROVE  \E r \in Logged' : /\ r.by = "undo" /\ x[1] \in DOMAIN r.files
                                  /\ r.files[x[1]].before = x[2]
    <3>1. CASE \E r \in Logged : /\ r.by = "undo" /\ x[1] \in DOMAIN r.files
                                 /\ r.files[x[1]].before = x[2]
      BY <1>3, <3>1
    <3>2. CASE x[1] \in DOMAIN undo.done /\ undo.done[x[1]].before = x[2]
      <4>1. undo.done # << >>
        BY <3>2
      <4>2. PICK r \in Logged' : r.by = "undo" /\ r.files = undo.done
        BY <1>3, <4>1
      <4> QED
        BY <3>2, <4>2
    <3> QED
      BY <3>1, <3>2 DEF SnapshotInv, UndoInv
  <2>2. \A x \in replaced : x = <<x[1], x[2]>>
    BY DEF SnapshotInv, UndoInv
  <2> QED
    BY <1>1, <1>5, <2>1, <2>2 DEF UndoInv
<1> QED
  BY <1>6, <1>7, <1>9, <1>10, <1>11 DEF SnapshotInv

LEMMA UndoRevertStep ==
  ASSUME SnapshotInv, NEW p \in Paths, UndoRevert(p)
  PROVE  SnapshotInv'
<1>1. UNCHANGED <<up, eng, baseline, known, after, journal, logf, now, nextId, pending, writes>>
  BY DEF UndoRevert, daemon
<1>2. PICK v : v = Restored(undo.turn.files[p])
  OBVIOUS
<1>3. v \in Stored /\ v \in Values
  BY <1>2 DEF SnapshotInv, ContentInv, UndoRevert, Reverting, Values, Stored
<1>4. disk' = [disk EXCEPT ![p] = v] /\ disk \in [Paths -> Stored]
  BY <1>2 DEF UndoRevert, SnapshotInv, ContentInv, Values, Stored
<1>5. disk' \in [Paths -> Stored] /\ disk'[p] = v
  BY <1>3, <1>4
<1>6. PICK y : y = Seen(v, "undo", 0)
  OBVIOUS
<1>7. y.by = "undo" /\ y.id = 0 /\ y.content = v
  BY <1>6 DEF Seen
<1>8. /\ trail' = [q \in Paths |-> trail'[q]] /\ trail'[p] = Append(trail[p], y)
      /\ \A q \in Paths \ {p} : trail'[q] = trail[q]
  <2>1. trail' = [trail EXCEPT ![p] = Append(@, y)] /\ DOMAIN trail = Paths
    BY <1>5, <1>6 DEF UndoRevert, SnapshotInv, EngineInv
  <2> QED
    BY <2>1
<1>9. Grows(trail, trail', 0)
  BY <1>7, <1>8 DEF Grows
<1>10. EngineInv'
  <2>1. nextId \in Nat /\ 0 < nextId /\ EngineOK(eng, nextId, now, trail) /\ TrailOK(trail, nextId)
    BY DEF SnapshotInv, EngineInv
  <2>2. EngineOK(eng, nextId, now, trail') /\ TrailOK(trail', nextId)
    BY <1>9, <2>1, EngineStays
  <2> QED
    BY <1>1, <1>8, <2>2 DEF SnapshotInv, EngineInv
<1>11. KnownInv'
  <2>1. ASSUME up, NEW q \in Paths
        PROVE  SeenBefore(trail'[q], Len(trail'[q]) + 1) = BeforeOf(q)
    <3>1. SeenBefore(trail[q], Len(trail[q]) + 1) = BeforeOf(q) /\ BySight(trail[q])
      BY <2>1 DEF SnapshotInv, KnownInv, EngineInv, TrailOK, BySight
    <3>2. CASE q = p
      <4>1. SeenBefore(trail'[p], Len(trail'[p]) + 1) = SeenBefore(trail[p], Len(trail[p]) + 1)
        <5>1. trail'[p] = Append(trail[p], y) /\ BySight(trail[p])
          BY <1>8, <3>1, <3>2
        <5> QED
          BY <1>7, <5>1, SeenLast
      <4> QED
        BY <3>1, <3>2, <4>1
    <3>3. CASE q # p
      BY <1>8, <3>1, <3>3
    <3> QED
      BY <3>2, <3>3
  <2>2. \A q \in Paths : BeforeOf(q)' = BeforeOf(q)
    BY <1>1 DEF BeforeOf
  <2> QED
    BY <1>1, <2>1, <2>2 DEF KnownInv
<1>12. Logged' = Logged /\ ByDaemon' = ByDaemon
  BY <1>1 DEF Logged, ByDaemon
<1>13. LoggedInv'
  <2>1. /\ \A r \in ByDaemon : Told(trail', Family(r), r.files)
        /\ journal # None => Told(trail', {journal.id}, journal.files)
    BY <1>9, LoggedStays DEF SnapshotInv
  <2> QED
    BY <1>1, <1>12, <2>1 DEF SnapshotInv, LoggedInv
<1>14. PICK t, d, u, o :
         undo = [at |-> "revert", turn |-> t, todo |-> d, done |-> u, on |-> o]
  BY DEF SnapshotInv, UndoInv, UndoRevert, Reverting
<1>15. PICK w : w = [q \in DOMAIN u \cup {p} |-> IF q = p THEN InverseEntry(undo.turn.files[p], p)
                                                 ELSE u[q]]
  OBVIOUS
<1>16. undo' = [at |-> "revert", turn |-> t, todo |-> d \ {p}, done |-> w, on |-> o]
  BY <1>14, <1>15 DEF UndoRevert
<1>17. /\ undo'.at = "revert" /\ undo'.turn = undo.turn /\ undo'.todo = undo.todo \ {p}
       /\ undo'.done = w /\ undo.done = u /\ undo.at = "revert" /\ undo'.on = undo.on
       /\ undo' = [ at |-> "revert", turn |-> undo'.turn, todo |-> undo'.todo,
                    done |-> undo'.done, on |-> undo'.on ]
  BY <1>14, <1>16
<1>18. /\ DOMAIN w = DOMAIN undo.done \cup {p} /\ w[p].before = undo.on.read
       /\ p \in undo.todo /\ undo.on # None /\ undo.on.path = p
       /\ w[p].after = v
       /\ \A q \in DOMAIN undo.done : q # p /\ w[q] = undo.done[q]
  <2>1. /\ p \in undo.todo /\ undo.todo \cap DOMAIN undo.done = {}
        /\ undo.on # None /\ undo.on.path = p
    BY <1>17 DEF SnapshotInv, UndoInv, UndoRevert
  <2>2. /\ InverseEntry(undo.turn.files[p], p).before = undo.on.read
        /\ InverseEntry(undo.turn.files[p], p).after = v
    BY <1>2 DEF InverseEntry
  <2> QED
    BY <1>15, <1>17, <2>1, <2>2
<1>19. ContentInv'
  <2>1. \A q \in Paths : \A k \in DOMAIN trail'[q] : trail'[q][k].content \in Values
    BY <1>3, <1>7, <1>8, TrailValues DEF SnapshotInv
  <2>2. \A q \in undo'.todo : Restored(undo'.turn.files[q]) \in Stored
    BY <1>17 DEF SnapshotInv, ContentInv, Values, Stored
  <2>3. \A q \in DOMAIN w : w[q].before \in Stored /\ w[q].after \in Stored
    BY <1>3, <1>17, <1>18 DEF SnapshotInv, ContentInv, Values, Stored
  <2>4. queue' \subseteq Paths
    BY DEF SnapshotInv, ContentInv, Values, Stored, UndoRevert
  <2>5. undo'.on.path \in Paths /\ undo'.on.read \in Stored
    BY <1>17, <1>18 DEF SnapshotInv, ContentInv
  <2> QED
    BY <1>1, <1>5, <1>12, <1>17, <2>1, <2>2, <2>3, <2>4, <2>5 DEF SnapshotInv, ContentInv, Values, Stored
<1>20. UndoInv'
  <2>1. ASSUME NEW x \in replaced'
        PROVE  \/ \E r \in Logged : /\ r.by = "undo" /\ x[1] \in DOMAIN r.files
                                    /\ r.files[x[1]].before = x[2]
               \/ x[1] \in DOMAIN w /\ w[x[1]].before = x[2]
    <3>1. CASE x \in replaced
      BY <1>17, <1>18, <3>1 DEF SnapshotInv, UndoInv
    <3>2. CASE x = <<p, disk[p]>> /\ disk[p] = undo.on.read
      BY <1>18, <3>2
    <3> QED
      BY <3>1, <3>2 DEF UndoRevert
  <2>2. undo'.todo \cap DOMAIN w = {}
    BY <1>17, <1>18 DEF SnapshotInv, UndoInv
  <2>3. \A x \in replaced' : x = <<x[1], x[2]>>
    BY DEF SnapshotInv, UndoInv, UndoRevert
  <2>4. undo'.on.path \in DOMAIN w /\ w[undo'.on.path].before = undo'.on.read
    BY <1>17, <1>18
  <2> QED
    BY <1>12, <1>17, <2>1, <2>2, <2>3, <2>4 DEF UndoInv
<1> QED
  BY <1>10, <1>11, <1>13, <1>19, <1>20 DEF SnapshotInv

-----------------------------------------------------------------------------
(* The steps of the daemon.                                                *)

(* Observing a batch and staging it.                                       *)
LEMMA Observing ==
  ASSUME SnapshotInv, up, NEW P, P \subseteq Paths, NEW unread, NEW obs, obs = Observe(P, unread),
         Stage(obs), NEW id, Follow(obs, id)
  PROVE  /\ Staged(trail, obs) /\ Followed(trail, trail', obs, id)
         /\ trail' = [p \in Paths |-> trail'[p]]
         /\ \A p \in Paths : SeenBefore(trail'[p], Len(trail'[p]) + 1) = BeforeOf(p)'
         /\ \A p \in Paths : \A k \in DOMAIN trail'[p] : trail'[p][k].content \in Values
<1>1. DOMAIN obs \subseteq P
  BY DEF Observe, Reported
<1>2. ASSUME NEW p \in DOMAIN obs
      PROVE  /\ p \in Paths
             /\ \E a, b, c : /\ obs[p] = [before |-> a, status |-> b, reason |-> c]
                             /\ a = BeforeOf(p) /\ b = StatusOf(p, unread)
  BY <1>1 DEF Observe
<1>3. ASSUME NEW p \in DOMAIN obs
      PROVE  /\ p \in Paths /\ obs[p].before = BeforeOf(p) /\ obs[p].status = StatusOf(p, unread)
             /\ obs[p] = [ before |-> obs[p].before, status |-> obs[p].status,
                           reason |-> obs[p].reason ]
  <2>1. PICK a, b, c : /\ obs[p] = [before |-> a, status |-> b, reason |-> c]
                       /\ a = BeforeOf(p) /\ b = StatusOf(p, unread)
    BY <1>2
  <2> QED
    BY <1>2, <2>1
<1>4. ASSUME NEW p \in Paths
      PROVE  /\ BySight(trail[p]) /\ SeenBefore(trail[p], Len(trail[p]) + 1) = BeforeOf(p)
             /\ BeforeOf(p) \in Values
  <2>1. BySight(trail[p]) /\ SeenBefore(trail[p], Len(trail[p]) + 1) = BeforeOf(p)
    BY DEF SnapshotInv, KnownInv, EngineInv, TrailOK, BySight
  <2>2. Len(trail[p]) \in Nat /\ Len(trail[p]) >= 1 /\ DOMAIN trail[p] = 1 .. Len(trail[p])
    BY <2>1, AnySequence DEF BySight, Sequence
  <2>3. Len(trail[p]) + 1 \in 2 .. Len(trail[p]) + 1
    BY <2>2
  <2>4. PICK j \in 1 .. (Len(trail[p]) + 1) - 1 :
          SeenBefore(trail[p], Len(trail[p]) + 1) = trail[p][j].content
    BY <2>1, <2>3, SeenIs
  <2>5. j \in DOMAIN trail[p]
    BY <2>2, <2>4
  <2> QED
    BY <2>1, <2>4, <2>5 DEF SnapshotInv, ContentInv, Values, Stored
<1>5. Staged(trail, obs)
  BY <1>3, <1>4 DEF Staged
<1>6. ASSUME NEW p \in DOMAIN obs
      PROVE  \E y : /\ y.id = id /\ y.by = "daemon" /\ trail'[p] = Append(trail[p], y)
                    /\ y.content = IF obs[p].status = "skipped" THEN obs[p].before ELSE disk[p]
  <2>1. PICK y : y = Seen(IF obs[p].status = "skipped" THEN obs[p].before ELSE disk[p],
                          "daemon", id)
    OBVIOUS
  <2>2. trail'[p] = Append(trail[p], y)
    BY <1>3, <2>1 DEF Follow
  <2>3. /\ y.id = id /\ y.by = "daemon"
        /\ y.content = IF obs[p].status = "skipped" THEN obs[p].before ELSE disk[p]
    BY <2>1 DEF Seen
  <2> QED
    BY <2>2, <2>3
<1>7. \A p \in Paths \ DOMAIN obs : trail'[p] = trail[p]
  BY DEF Follow
<1>8. Followed(trail, trail', obs, id)
  BY <1>6, <1>7 DEF Followed
<1>9. trail' = [p \in Paths |-> trail'[p]]
  BY DEF Follow
<1>10. ASSUME NEW p \in Paths
       PROVE  /\ disk[p] \in Stored /\ disk[p] \in Values
              /\ disk[p] # Absent => disk[p] # None
  <2>1. disk[p] \in Stored /\ writes \in Nat
    BY DEF SnapshotInv, ContentInv
  <2>2. None \notin Nat
    BY Windows
  <2>3. disk[p] # Absent => disk[p] # None
    BY <2>1, <2>2 DEF Stored
  <2> QED
    BY <2>1, <2>3 DEF Values, Stored
<1>11. ASSUME NEW p \in Paths
       PROVE  SeenBefore(trail'[p], Len(trail'[p]) + 1) = BeforeOf(p)'
  <2>1. CASE p \notin DOMAIN obs
    <3>1. baseline'[p] = baseline[p] /\ (p \in known' <=> p \in known)
      BY <2>1 DEF Stage
    <3>2. BeforeOf(p)' = BeforeOf(p)
      BY <3>1 DEF BeforeOf
    <3> QED
      BY <1>4, <1>7, <2>1, <3>2
  <2>2. CASE p \in DOMAIN obs
    <3>1. PICK y : /\ y.by = "daemon" /\ trail'[p] = Append(trail[p], y)
                   /\ y.content = IF obs[p].status = "skipped" THEN obs[p].before ELSE disk[p]
      BY <1>6, <2>2
    <3>2. SeenBefore(trail'[p], Len(trail'[p]) + 1) = y.content
      BY <1>4, <3>1, "daemon" # "undo", SeenLast
    <3>3. CASE obs[p].status = "skipped"
      <4>1. baseline'[p] = baseline[p] /\ (p \in known' <=> p \in known)
        BY <2>2, <3>3 DEF Stage
      <4>2. BeforeOf(p)' = BeforeOf(p)
        BY <4>1 DEF BeforeOf
      <4> QED
        BY <1>3, <2>2, <3>1, <3>2, <3>3, <4>2
    <3>4. CASE obs[p].status = "deleted"
      <4>1. baseline'[p] = None /\ p \notin known' /\ disk[p] = Absent
        BY <1>3, <2>2, <3>4 DEF Stage, StatusOf
      <4>2. BeforeOf(p)' = Absent
        BY <4>1 DEF BeforeOf
      <4> QED
        BY <3>1, <3>2, <3>4, <4>1, <4>2
    <3>5. CASE obs[p].status \notin {"skipped", "deleted"}
      <4>1. baseline'[p] = disk[p] /\ disk[p] # Absent
        BY <1>3, <2>2, <3>5 DEF Stage, StatusOf
      <4>2. disk[p] # None
        BY <1>10, <4>1
      <4>3. BeforeOf(p)' = disk[p]
        BY <4>1, <4>2 DEF BeforeOf
      <4> QED
        BY <3>1, <3>2, <3>5, <4>3
    <3> QED
      BY <3>3, <3>4, <3>5
  <2> QED
    BY <2>1, <2>2
<1>12. ASSUME NEW p \in Paths
       PROVE  \A k \in DOMAIN trail'[p] : trail'[p][k].content \in Values
  <2>1. CASE p \notin DOMAIN obs
    BY <1>7, <2>1 DEF SnapshotInv, ContentInv, Values, Stored
  <2>2. CASE p \in DOMAIN obs
    <3>1. PICK y : /\ trail'[p] = Append(trail[p], y)
                   /\ y.content = IF obs[p].status = "skipped" THEN obs[p].before ELSE disk[p]
      BY <1>6, <2>2
    <3>2. y.content \in Values
      BY <1>3, <1>4, <1>10, <2>2, <3>1
    <3> QED
      BY <3>1, <3>2, TrailValues DEF SnapshotInv
  <2> QED
    BY <2>1, <2>2
<1> QED
  BY <1>5, <1>8, <1>9, <1>11, <1>12

(* Records of closed turns: theirs are the family, the paths and `before`. *)
LEMMA ResolvedTold ==
  ASSUME NEW tr, NEW ids, NEW files, Told(tr, ids, files), NEW aft, NEW g, g = Resolve(files, aft)
  PROVE  DOMAIN g = DOMAIN files /\ Told(tr, ids, g)
<1>1. DOMAIN g = DOMAIN files
  BY DEF Resolve
<1>2. \A p \in DOMAIN files : g[p].before = files[p].before
  BY DEF Resolve
<1> QED
  BY <1>1, <1>2 DEF Told

RecordOf(r, C, n, tr) ==
  /\ r.by = "daemon" /\ Family(r) \subseteq Nat \ {0} /\ \A i \in Family(r) : i < n
  /\ DOMAIN r.files \subseteq Paths /\ Told(tr, Family(r), r.files)
  /\ \E c \in Range(C) : Family(r) = Family(c)

LEMMA RecordsAre ==
  ASSUME NEW C, NEW n, NEW tr, ClosedsOK(C, n, tr), NEW aft, NEW R, R = Records(C, aft)
  PROVE  /\ Sequence(R)
         /\ \A r \in Range(R) : RecordOf(r, C, n, tr)
<1>1. Len(C) \in Nat /\ DOMAIN C = 1 .. Len(C)
  BY AnySequence DEF ClosedsOK, Sequence
<1>2. R = [i \in 1 .. Len(C) |-> Record(C[i], aft)]
  BY <1>1 DEF Records
<1>3. Sequence(R)
  <2>1. R \in [1 .. Len(C) -> Range(R)]
    BY <1>2 DEF Range
  <2> QED
    BY <1>1, <2>1, SeqDef DEF Sequence
<1>4. ASSUME NEW r \in Range(R)
      PROVE  RecordOf(r, C, n, tr)
  <2>1. PICK i \in 1 .. Len(C) : r = Record(C[i], aft)
    BY <1>2 DEF Range
  <2>2. PICK c : c = C[i]
    OBVIOUS
  <2>3. c \in Range(C)
    BY <1>1, <2>2 DEF Range
  <2>4. ClosedOK(c, n, tr)
    BY <2>3 DEF ClosedsOK
  <2>5. r.by = "daemon" /\ r.id = c.id /\ r.merges = c.merges /\ r.files = Resolve(c.files, aft)
    BY <2>1, <2>2 DEF Record
  <2>6. Family(r) = Family(c)
    BY <2>5 DEF Family
  <2>7. DOMAIN r.files = DOMAIN c.files /\ Told(tr, Family(c), r.files)
    BY <2>4, <2>5, ResolvedTold DEF ClosedOK
  <2> QED
    BY <2>3, <2>4, <2>5, <2>6, <2>7 DEF ClosedOK, FilesOK, RecordOf
<1> QED
  BY <1>3, <1>4

(* The log after it got the records of some closed turns.                  *)
LEMMA LogGrows ==
  ASSUME Sequence(logf), NEW C, NEW n, NEW tr, ClosedsOK(C, n, tr), NEW aft, NEW z,
         z = logf \o Records(C, aft)
  PROVE  /\ Sequence(z) /\ Logged \subseteq Range(z)
         /\ \A r \in Range(z) \ Logged : RecordOf(r, C, n, tr)
<1>1. PICK R : R = Records(C, aft)
  OBVIOUS
<1>2. /\ Sequence(R)
      /\ \A r \in Range(R) : RecordOf(r, C, n, tr)
  BY <1>1, RecordsAre
<1>3. Sequence(z) /\ Range(z) = Range(logf) \cup Range(R)
  BY <1>1, <1>2, ConcatSequence
<1> QED
  BY <1>2, <1>3 DEF Logged

(* What was recorded is told still, and is older than what is open.        *)
LEMMA LoggedGrows ==
  ASSUME SnapshotInv, NEW tz, NEW x, Grows(trail, tz, x),
         x \in {0, nextId} \/ (eng.open # None /\ x = eng.open.id)
  PROVE  \A r \in ByDaemon : Told(tz, Family(r), r.files)
<1>1. ASSUME NEW r \in ByDaemon PROVE Told(tz, Family(r), r.files)
  <2>1. /\ Family(r) \in SUBSET (Nat \ {0}) /\ Told(trail, Family(r), r.files)
        /\ \A i \in Family(r) : i < nextId /\ (eng.open # None => i < eng.open.id)
    BY DEF SnapshotInv, LoggedInv
  <2>2. nextId \in Nat /\ (eng.open # None => eng.open.id \in Nat)
    BY DEF SnapshotInv, EngineInv, EngineOK, OpenOK
  <2>3. x \notin Family(r)
    BY <2>1, <2>2
  <2> QED
    BY <2>1, <2>3, ToldStays DEF SnapshotInv, EngineInv
<1> QED
  BY <1>1

JournalOK(j, e, n, tr) ==
  /\ j.id \in Nat \ {0} /\ j.id < n /\ e.open # None /\ j.id = e.open.id
  /\ DOMAIN j.files \subseteq Paths /\ Told(tr, {j.id}, j.files)

LEMMA JournalTold ==
  ASSUME NEW e, NEW n, NEW t, NEW tr, EngineOK(e, n, t, tr), NEW aft,
         NEW j, j = Journal(e, aft), j # None
  PROVE  JournalOK(j, e, n, tr)
<1>1. /\ e.open # None /\ j.id = e.open.id /\ j.files = Resolve(e.open.files, aft)
  BY DEF Journal
<1>2. OpenOK(e.open, n, t, tr)
  BY <1>1 DEF EngineOK
<1>3. DOMAIN j.files = DOMAIN e.open.files /\ Told(tr, {e.open.id}, j.files)
  BY <1>1, <1>2, ResolvedTold DEF OpenOK
<1> QED
  BY <1>1, <1>2, <1>3 DEF OpenOK, FilesOK, JournalOK

(* What the log and the journal are after a step of the daemon.            *)
LogAfter(z, C, m, tz) ==
  /\ Sequence(z) /\ Logged \subseteq Range(z)
  /\ \A r \in Range(z) \ Logged : r.by = "daemon"
  /\ \A r \in Range(z) :
       r.by = "daemon" =>
         /\ Family(r) \subseteq Nat \ {0} /\ \A i \in Family(r) : i < m
         /\ DOMAIN r.files \subseteq Paths /\ Told(tz, Family(r), r.files)
         /\ r \in Logged \/ \E c \in Range(C) : Family(r) = Family(c)

LEMMA LoggedAfter ==
  ASSUME SnapshotInv, NEW tz, NEW x, Grows(trail, tz, x),
         x \in {0, nextId} \/ (eng.open # None /\ x = eng.open.id),
         NEW C, NEW m \in Nat, nextId <= m, ClosedsOK(C, m, tz), NEW aft,
         NEW z, z = logf \o Records(C, aft)
  PROVE  LogAfter(z, C, m, tz)
<1>1. /\ Sequence(z) /\ Logged \subseteq Range(z)
      /\ \A r \in Range(z) \ Logged : RecordOf(r, C, m, tz)
  BY LogGrows DEF SnapshotInv, LoggedInv
<1>2. ASSUME NEW r \in Logged, r.by = "daemon"
      PROVE  /\ Family(r) \subseteq Nat \ {0} /\ \A i \in Family(r) : i < m
             /\ DOMAIN r.files \subseteq Paths /\ Told(tz, Family(r), r.files)
  <2>1. r \in ByDaemon /\ nextId \in Nat
    BY <1>2 DEF ByDaemon, SnapshotInv, EngineInv
  <2>2. /\ Family(r) \subseteq Nat \ {0} /\ \A i \in Family(r) : i < nextId
        /\ DOMAIN r.files \subseteq Paths
    BY <2>1 DEF SnapshotInv, LoggedInv
  <2> QED
    BY <2>1, <2>2, LoggedGrows
<1> QED
  BY <1>1, <1>2 DEF LogAfter, RecordOf

(* An iteration of the daemon, with what is between its steps.             *)
Iterated(sig, unread, kept, obs, w, seen, id, told, done) ==
  /\ kept \subseteq pending \cup queue
  /\ obs = Observe(kept, unread) /\ w \in {eng, ObserveGitChange(eng, now)}
  /\ seen = ObserveChanges(w, now, obs, nextId)
  /\ id = IF seen.reserved THEN nextId + 1 ELSE nextId
  /\ told = Signal(sig, seen.eng, id) /\ done = Tick(told.eng, now)
  /\ Stage(obs) /\ Follow(obs, seen.eng.open.id)
  /\ eng' = done.eng /\ nextId' = IF told.reserved THEN id + 1 ELSE id
  /\ logf' = logf \o Records(told.closed \o done.closed, after')
  /\ journal' = Journal(done.eng, after')
  /\ opaque \cup unread \subseteq opaque'
  /\ pending' = pending \cup queue \/ Unrecorded(pending \cup queue, obs) \subseteq opaque'

LEMMA IterateIs ==
  ASSUME NEW sig \in {"start", "stop", None}, NEW unread \in SUBSET Paths, Iterate(sig, unread)
  PROVE  \E kept, obs, w, seen, id, told, done :
           Iterated(sig, unread, kept, obs, w, seen, id, told, done)
<1> DEFINE burst == pending \cup queue
           f     == IF queue = {} \/ first # None THEN first ELSE now
           l     == IF queue = {} THEN last ELSE now
           due   == Due(f, l)
           kept  == IF due THEN burst \ Guarded ELSE {}
           obs   == Observe(kept, unread)
           w     == IF gitEvent THEN ObserveGitChange(eng, now) ELSE eng
           seen  == ObserveChanges(w, now, obs, nextId)
           id    == IF seen.reserved THEN nextId + 1 ELSE nextId
           told  == Signal(sig, seen.eng, id)
           done  == Tick(told.eng, now)
<1>1. /\ kept \subseteq pending \cup queue
      /\ w \in {eng, ObserveGitChange(eng, now)}
  OBVIOUS
<1>2. /\ Stage(obs) /\ Follow(obs, seen.eng.open.id)
      /\ eng' = done.eng /\ nextId' = IF told.reserved THEN id + 1 ELSE id
      /\ logf' = logf \o Records(told.closed \o done.closed, after')
      /\ journal' = Journal(done.eng, after')
  BY Zenon DEF Iterate
<1>3. /\ opaque' = opaque \cup unread \cup IF due THEN Unrecorded(burst, obs) ELSE {}
      /\ pending' = IF due THEN {} ELSE burst
  BY Zenon DEF Iterate
<1> HIDE DEF kept, w, f, l, due, obs
<1>4. /\ opaque \cup unread \subseteq opaque'
      /\ pending' = pending \cup queue \/ Unrecorded(pending \cup queue, obs) \subseteq opaque'
  BY <1>3
<1>5. obs = Observe(kept, unread)
  BY DEF obs
<1> HIDE DEF burst
<1>6. seen = ObserveChanges(w, now, obs, nextId)
  OBVIOUS
<1> HIDE DEF seen
<1>7. id = IF seen.reserved THEN nextId + 1 ELSE nextId
  OBVIOUS
<1> HIDE DEF id
<1>8. told = Signal(sig, seen.eng, id)
  OBVIOUS
<1> HIDE DEF told
<1>9. done = Tick(told.eng, now)
  OBVIOUS
<1> HIDE DEF done
<1>10. Iterated(sig, unread, kept, obs, w, seen, id, told, done)
  BY <1>1, <1>2, <1>4, <1>5, <1>6, <1>7, <1>8, <1>9 DEF Iterated
<1> QED
  BY <1>10

(* What the engine is between the steps of an iteration.                   *)
Between(w, seen, id, told, done) ==
  /\ EngineOK(w, nextId, now, trail) /\ SameOrNew(eng, w, nextId)
  /\ EngineOK(seen.eng, id, now, trail') /\ TrailOK(trail', id) /\ id \in Nat \ {0}
  /\ nextId <= id /\ SameOrNew(w, seen.eng, nextId)
  /\ \E x \in Nat : /\ Grows(trail, trail', x)
                    /\ x \in {0, nextId} \/ (w.open # None /\ x = w.open.id)
  /\ EngineOK(told.eng, nextId', now, trail')
  /\ Handed(told.closed, told.eng, nextId', trail')
  /\ SameOrNew(seen.eng, told.eng, id) /\ nextId' \in Nat \ {0} /\ id <= nextId'
  /\ TrailOK(trail', nextId') /\ nextId' \in Nat
  /\ EngineOK(eng', nextId', now, trail') /\ Handed(done.closed, eng', nextId', trail')
  /\ eng'.open # None =>
       /\ eng'.open = told.eng.open /\ eng'.open.id \in Nat
       /\ eng'.open.id \in {nextId, id} \/ (eng.open # None /\ eng'.open.id = eng.open.id)

LEMMA EnginesBetween ==
  ASSUME SnapshotInv, up, UNCHANGED <<disk, up>>,
         NEW sig \in {"start", "stop", None}, NEW unread, NEW kept, NEW obs, NEW w, NEW seen,
         NEW id, NEW told, NEW done,
         Iterated(sig, unread, kept, obs, w, seen, id, told, done)
  PROVE  Between(w, seen, id, told, done)
<1>3. /\ obs = Observe(kept, unread) /\ Stage(obs) /\ Follow(obs, seen.eng.open.id)
      /\ w \in {eng, ObserveGitChange(eng, now)} /\ kept \subseteq pending \cup queue
  BY DEF Iterated
<1>4. /\ seen = ObserveChanges(w, now, obs, nextId)
      /\ id = IF seen.reserved THEN nextId + 1 ELSE nextId
  BY DEF Iterated
<1>5. told = Signal(sig, seen.eng, id) /\ nextId' = IF told.reserved THEN id + 1 ELSE id
  BY DEF Iterated
<1>6. done = Tick(told.eng, now) /\ eng' = done.eng
  BY DEF Iterated
<1>9. /\ nextId \in Nat \ {0} /\ now \in Nat /\ TrailOK(trail, nextId) /\ nextId \in Nat
      /\ EngineOK(eng, nextId, now, trail) /\ kept \subseteq Paths
  BY <1>3 DEF SnapshotInv, EngineInv, ContentInv, Values, Stored
<1>10. /\ Staged(trail, obs) /\ Followed(trail, trail', obs, seen.eng.open.id)
       /\ trail' = [p \in Paths |-> trail'[p]]
       /\ \A p \in Paths : SeenBefore(trail'[p], Len(trail'[p]) + 1) = BeforeOf(p)'
       /\ \A p \in Paths : \A k \in DOMAIN trail'[p] : trail'[p][k].content \in Values
  BY <1>3, <1>9, Observing
<1>11. EngineOK(w, nextId, now, trail) /\ SameOrNew(eng, w, nextId)
  <2>1. CASE w = eng
    BY <1>9, <2>1 DEF SameOrNew
  <2>2. CASE w = ObserveGitChange(eng, now)
    BY <1>9, <2>2, GitChange
  <2> QED
    BY <1>3, <2>1, <2>2
<1>12. /\ EngineOK(seen.eng, id, now, trail') /\ TrailOK(trail', id) /\ id \in Nat \ {0}
       /\ nextId <= id /\ SameOrNew(w, seen.eng, nextId)
       /\ \E x \in Nat : /\ Grows(trail, trail', x)
                         /\ x \in {0, nextId} \/ (w.open # None /\ x = w.open.id)
  <2>1. Changed(w, nextId, now, trail, seen.eng, id, trail')
    BY <1>4, <1>9, <1>10, <1>11, Changes
  <2> QED
    BY <2>1 DEF Changed
<1>13. /\ EngineOK(told.eng, nextId', now, trail') /\ Handed(told.closed, told.eng, nextId', trail')
       /\ SameOrNew(seen.eng, told.eng, id) /\ nextId' \in Nat \ {0} /\ id <= nextId'
  <2>1. Signaled(seen.eng, id, told, nextId', now, trail')
    BY <1>5, <1>9, <1>12, Signals
  <2> QED
    BY <2>1 DEF Signaled
<1>14. TrailOK(trail', nextId') /\ nextId' \in Nat
  <2>1. id \in Nat /\ nextId' \in Nat /\ id <= nextId' /\ TrailOK(trail', id)
    BY <1>12, <1>13
  <2> QED
    BY <2>1, TrailLater
<1>15. /\ EngineOK(eng', nextId', now, trail') /\ Handed(done.closed, eng', nextId', trail')
       /\ eng'.open # None => eng'.open = told.eng.open
  <2>1. Ticked(told.eng, done, nextId', now, trail')
    BY <1>6, <1>9, <1>13, <1>14, Ticks
  <2> QED
    BY <1>6, <2>1 DEF Ticked
<1>24. ASSUME eng'.open # None
       PROVE  /\ eng'.open = told.eng.open /\ eng'.open.id \in Nat
              /\ eng'.open.id \in {nextId, id} \/ (eng.open # None /\ eng'.open.id = eng.open.id)
  <2>1. eng'.open = told.eng.open /\ eng'.open.id \in Nat
    BY <1>15, <1>24 DEF EngineOK, OpenOK
  <2>2. told.eng.open.id = id \/ (seen.eng.open # None /\ told.eng.open.id = seen.eng.open.id)
    BY <1>13, <1>24, <2>1 DEF SameOrNew
  <2>3. seen.eng.open # None =>
          seen.eng.open.id = nextId \/ (w.open # None /\ seen.eng.open.id = w.open.id)
    BY <1>12 DEF SameOrNew
  <2>4. w.open # None => w.open.id = nextId \/ (eng.open # None /\ w.open.id = eng.open.id)
    BY <1>11 DEF SameOrNew
  <2> QED
    BY <2>1, <2>2, <2>3, <2>4
<1> QED
  BY <1>11, <1>12, <1>13, <1>14, <1>15, <1>24 DEF Between

(* What an iteration leaves alone, and what becomes of the events.         *)
LEMMA IteratesAside ==
  ASSUME NEW sig, NEW unread, Iterate(sig, unread)
  PROVE  /\ up /\ UNCHANGED <<disk, writes, now, up, guard, undo, replaced>>
         /\ queue' = {} /\ (pending' = {} \/ pending' = pending \cup queue)
<1>1. up /\ queue' = {}
  BY DEF Iterate
<1>2. UNCHANGED <<disk, writes, now, up, guard, undo, replaced>>
  BY DEF Iterate
<1>3. pending' = {} \/ pending' = pending \cup queue
  BY DEF Iterate
<1> QED
  BY <1>1, <1>2, <1>3

LEMMA IterateStep ==
  ASSUME SnapshotInv, NEW sig \in {"start", "stop", None}, NEW unread \in SUBSET Paths,
         Iterate(sig, unread)
  PROVE  SnapshotInv'
<1>2. PICK kept, obs, w, seen, id, told, done :
        Iterated(sig, unread, kept, obs, w, seen, id, told, done)
  BY IterateIs
<1>3. /\ obs = Observe(kept, unread) /\ Stage(obs) /\ Follow(obs, seen.eng.open.id)
      /\ w \in {eng, ObserveGitChange(eng, now)} /\ kept \subseteq pending \cup queue
  BY <1>2 DEF Iterated
<1>6. done = Tick(told.eng, now) /\ eng' = done.eng
  BY <1>2 DEF Iterated
<1>7. /\ logf' = logf \o Records(told.closed \o done.closed, after')
      /\ journal' = Journal(eng', after')
  BY <1>2 DEF Iterated
<1>8. /\ up /\ UNCHANGED <<disk, writes, now, up, guard, undo, replaced>>
      /\ queue' = {} /\ (pending' = {} \/ pending' = pending \cup queue)
  BY IteratesAside
<1>9. /\ nextId \in Nat \ {0} /\ now \in Nat /\ TrailOK(trail, nextId) /\ nextId \in Nat
      /\ EngineOK(eng, nextId, now, trail) /\ kept \subseteq Paths
  BY <1>3 DEF SnapshotInv, EngineInv, ContentInv, Values, Stored
<1>10. /\ Staged(trail, obs) /\ Followed(trail, trail', obs, seen.eng.open.id)
       /\ trail' = [p \in Paths |-> trail'[p]]
       /\ \A p \in Paths : SeenBefore(trail'[p], Len(trail'[p]) + 1) = BeforeOf(p)'
       /\ \A p \in Paths : \A k \in DOMAIN trail'[p] : trail'[p][k].content \in Values
  BY <1>3, <1>8, <1>9, Observing
<1>11. Between(w, seen, id, told, done)
  BY <1>2, <1>8, EnginesBetween
<1>12. /\ EngineOK(w, nextId, now, trail) /\ SameOrNew(eng, w, nextId)
       /\ nextId <= id /\ id \in Nat \ {0}
       /\ \E x \in Nat : /\ Grows(trail, trail', x)
                         /\ x \in {0, nextId} \/ (w.open # None /\ x = w.open.id)
  BY <1>11 DEF Between
<1>13. /\ Handed(told.closed, told.eng, nextId', trail')
       /\ nextId' \in Nat \ {0} /\ id <= nextId'
  BY <1>11 DEF Between
<1>14. TrailOK(trail', nextId') /\ nextId' \in Nat
  BY <1>11 DEF Between
<1>15. EngineOK(eng', nextId', now, trail') /\ Handed(done.closed, eng', nextId', trail')
  BY <1>11 DEF Between
<1>16. PICK x \in Nat : /\ Grows(trail, trail', x)
                        /\ x \in {0, nextId} \/ (w.open # None /\ x = w.open.id)
  BY <1>12
<1>17. x \in {0, nextId} \/ (eng.open # None /\ x = eng.open.id)
  BY <1>12, <1>16 DEF SameOrNew
<1>18. PICK C : C = told.closed \o done.closed
  OBVIOUS
<1>19. ClosedsOK(C, nextId', trail') /\ Range(C) = Range(told.closed) \cup Range(done.closed)
  <2>1. Sequence(C) /\ Range(C) = Range(told.closed) \cup Range(done.closed)
    BY <1>13, <1>15, <1>18, ConcatSequence DEF Handed, ClosedsOK
  <2> QED
    BY <1>13, <1>15, <2>1 DEF Handed, ClosedsOK
<1>20. nextId <= nextId'
  BY <1>9, <1>12, <1>13, <1>14
<1>21. /\ Sequence(logf') /\ Logged \subseteq Logged'
       /\ \A r \in Logged' \ Logged : r.by = "daemon"
       /\ \A r \in Logged' :
            r.by = "daemon" =>
              /\ Family(r) \subseteq Nat \ {0} /\ \A i \in Family(r) : i < nextId'
              /\ DOMAIN r.files \subseteq Paths /\ Told(trail', Family(r), r.files)
              /\ r \in Logged \/ \E c \in Range(C) : Family(r) = Family(c)
  <2>1. PICK z : z = logf \o Records(C, after')
    OBVIOUS
  <2>2. LogAfter(z, C, nextId', trail')
    BY <1>14, <1>16, <1>17, <1>19, <1>20, <2>1, LoggedAfter
  <2>3. logf' = z
    BY <1>7, <1>18, <2>1
  <2>4. Logged' = Range(z)
    BY <2>3 DEF Logged
  <2> QED
    BY <2>2, <2>3, <2>4 DEF LogAfter
<1>22. EngineInv'
  BY <1>8, <1>9, <1>10, <1>13, <1>14, <1>15 DEF SnapshotInv, EngineInv
<1>23. KnownInv'
  BY <1>10 DEF KnownInv
<1>24. ASSUME eng'.open # None
       PROVE  /\ eng'.open = told.eng.open /\ eng'.open.id \in Nat
              /\ eng'.open.id \in {nextId, id} \/ (eng.open # None /\ eng'.open.id = eng.open.id)
  BY <1>11, <1>24 DEF Between
<1>25. ASSUME NEW r \in ByDaemon', eng'.open # None, NEW i \in Family(r)
       PROVE  i < eng'.open.id
  <2>1. CASE r \in Logged
    <3>1. i \in Nat /\ i < nextId /\ (eng.open # None => i < eng.open.id)
      BY <1>25, <2>1 DEF SnapshotInv, LoggedInv, ByDaemon
    <3>2. i < id
      BY <1>9, <1>12, <3>1
    <3> QED
      BY <1>24, <1>25, <3>1, <3>2
  <2>2. CASE \E c \in Range(C) : Family(r) = Family(c)
    <3>1. PICK c \in Range(C) : Family(r) = Family(c)
      BY <2>2
    <3>2. CASE c \in Range(told.closed)
      <4>1. told.eng.open # None /\ told.eng.open = eng'.open
        BY <1>24, <1>25
      <4> QED
        BY <1>13, <1>25, <3>1, <3>2, <4>1 DEF Handed
    <3>3. CASE c \in Range(done.closed)
      BY <1>15, <1>25, <3>1, <3>3 DEF Handed
    <3> QED
      BY <1>19, <3>2, <3>3
  <2> QED
    BY <1>21, <2>1, <2>2 DEF ByDaemon
<1>26. journal' # None => JournalOK(journal', eng', nextId', trail')
  BY <1>7, <1>15, JournalTold
<1>27. LoggedInv'
  BY <1>21, <1>25, <1>26 DEF LoggedInv, ByDaemon, JournalOK
<1>28. ContentInv'
  <2>1. pending' \subseteq Paths
    BY <1>8 DEF SnapshotInv, ContentInv, Values, Stored
  <2> QED
    BY <1>8, <1>10, <1>21, <2>1 DEF SnapshotInv, ContentInv, Values, Stored
<1>29. UndoInv'
  BY <1>8, <1>21 DEF SnapshotInv, UndoInv
<1> QED
  BY <1>22, <1>23, <1>27, <1>28, <1>29 DEF SnapshotInv

LEMMA ShutdownStep ==
  ASSUME SnapshotInv, NEW unread \in SUBSET Paths, Shutdown(unread)
  PROVE  SnapshotInv'
<1>1. PICK obs : obs = Observe(pending, unread)
  OBVIOUS
<1>2. PICK seen : seen = ObserveChanges(eng, now, obs, nextId)
  OBVIOUS
<1>3. PICK C : C = ForceClose(seen.eng, now).closed
  OBVIOUS
<1>4. /\ Stage(obs) /\ Follow(obs, seen.eng.open.id)
      /\ nextId' = IF seen.reserved THEN nextId + 1 ELSE nextId
      /\ logf' = logf \o Records(C, after') /\ journal' = None
  BY <1>1, <1>2, <1>3 DEF Shutdown
<1>5. /\ up /\ up' = FALSE /\ eng' = NewEngine /\ eng'.open = None
      /\ UNCHANGED <<disk, writes, now, guard, undo, replaced>> /\ queue' = {} /\ pending' = {}
  BY NewEngineOK DEF Shutdown, Die
<1>6. /\ nextId \in Nat \ {0} /\ now \in Nat /\ TrailOK(trail, nextId)
      /\ EngineOK(eng, nextId, now, trail) /\ pending \subseteq Paths
  BY DEF SnapshotInv, EngineInv, ContentInv, Values, Stored
<1>7. /\ Staged(trail, obs) /\ Followed(trail, trail', obs, seen.eng.open.id)
      /\ trail' = [p \in Paths |-> trail'[p]]
      /\ \A p \in Paths : \A k \in DOMAIN trail'[p] : trail'[p][k].content \in Values
  BY <1>1, <1>4, <1>5, <1>6, Observing
<1>8. /\ EngineOK(seen.eng, nextId', now, trail') /\ TrailOK(trail', nextId')
      /\ nextId' \in Nat \ {0} /\ nextId <= nextId' /\ nextId' \in Nat
      /\ \E x \in Nat : /\ Grows(trail, trail', x)
                        /\ x \in {0, nextId} \/ (eng.open # None /\ x = eng.open.id)
  <2>1. Changed(eng, nextId, now, trail, seen.eng, nextId', trail')
    BY <1>2, <1>4, <1>6, <1>7, Changes
  <2> QED
    BY <2>1 DEF Changed
<1>9. ClosedsOK(C, nextId', trail')
  BY <1>3, <1>8, ForcesClosed
<1>10. /\ Sequence(logf') /\ Logged \subseteq Logged'
       /\ \A r \in Logged' \ Logged : r.by = "daemon"
       /\ \A r \in Logged' :
            r.by = "daemon" =>
              /\ Family(r) \subseteq Nat \ {0} /\ \A i \in Family(r) : i < nextId'
              /\ DOMAIN r.files \subseteq Paths /\ Told(trail', Family(r), r.files)
  <2>1. PICK z : z = logf \o Records(C, after')
    OBVIOUS
  <2>2. LogAfter(z, C, nextId', trail')
    BY <1>8, <1>9, <2>1, LoggedAfter
  <2>3. logf' = z
    BY <1>4, <2>1
  <2>4. Logged' = Range(z)
    BY <2>3 DEF Logged
  <2> QED
    BY <2>2, <2>3, <2>4 DEF LogAfter
<1>11. EngineInv'
  <2>1. EngineOK(eng', nextId', now', trail')
    BY <1>5, NewEngineOK
  <2> QED
    BY <1>5, <1>6, <1>7, <1>8, <2>1 DEF EngineInv
<1>12. KnownInv'
  BY <1>5 DEF KnownInv
<1>13. LoggedInv'
  BY <1>4, <1>5, <1>10 DEF LoggedInv, ByDaemon
<1>14. ContentInv'
  BY <1>5, <1>7, <1>10 DEF SnapshotInv, ContentInv, Values, Stored
<1>15. UndoInv'
  BY <1>5, <1>10 DEF SnapshotInv, UndoInv
<1> QED
  BY <1>11, <1>12, <1>13, <1>14, <1>15 DEF SnapshotInv

-----------------------------------------------------------------------------
(* The theorems.                                                           *)

LEMMA EveryStep == SnapshotInv /\ [Next]_vars => SnapshotInv'
<1> SUFFICES ASSUME SnapshotInv, [Next]_vars PROVE SnapshotInv'
  OBVIOUS
<1>1. CASE UNCHANGED vars
  <2>1. EngineInv' /\ KnownInv' /\ LoggedInv'
    BY <1>1, NowStays, Elsewhere DEF vars
  <2>2. ContentInv' /\ UndoInv'
    BY <1>1 DEF SnapshotInv, ContentInv, Values, Stored, UndoInv, Logged, vars
  <2> QED
    BY <2>1, <2>2 DEF SnapshotInv
<1>2. CASE \E p \in Paths : Edit(p)
  BY <1>2, EditStep
<1>3. CASE GitTransition \/ Advance
  BY <1>3, WorldStep
<1>4. CASE \E sig \in {"start", "stop", None}, unread \in SUBSET Paths : Iterate(sig, unread)
  BY <1>4, IterateStep
<1>5. CASE \E unread \in SUBSET Paths : Shutdown(unread)
  BY <1>5, ShutdownStep
<1>6. CASE Crash \/ Restart
  BY <1>6, CrashStep, RestartStep
<1>7. CASE \E i \in DOMAIN logf, allow \in BOOLEAN : UndoPlan(i, allow)
  <2>1. PICK i \in DOMAIN logf : \E allow \in BOOLEAN : UndoPlan(i, allow)
    BY <1>7
  <2>2. PICK allow \in BOOLEAN : UndoPlan(i, allow)
    BY <2>1
  <2> QED
    BY <2>2, UndoPlanStep
<1>8. CASE \/ UndoGuard \/ UndoVerified \/ UndoFail \/ UndoTorn \/ UndoUnverified
           \/ UndoRecord
  BY <1>8, UndoGuardStep, UndoFailStep, UndoTornStep, UndoUnverifiedStep, UndoRecordStep
<1>9. CASE \E p \in Paths : UndoRead(p) \/ UndoRevert(p)
  BY <1>9, UndoReadStep, UndoRevertStep
<1>10. CASE UndoFinish \/ UndoKilled
  BY <1>10, UndoEndStep
<1> QED
  BY <1>1, <1>2, <1>3, <1>4, <1>5, <1>6, <1>7, <1>8, <1>9, <1>10 DEF Next

LEMMA Invariantly == Spec => []SnapshotInv
  BY Initially, EveryStep, PTL DEF Spec

(* `before` of a file in a turn of the daemon is what the recorder had     *)
(* last seen of it when the turn, or the oldest fragment folded into it,   *)
(* first observed it (engine.rs `observe_changes` and `fold_recent_bares`, *)
(* daemon.rs `stage` and `resolve`), across restarts and crashes, for any  *)
(* files and any bounds.                                                   *)
THEOREM BeforesAreLastSeen == Spec => []BeforeIsLastSeen
<1>1. SnapshotInv => BeforeIsLastSeen
  <2> SUFFICES ASSUME SnapshotInv, NEW r \in ByDaemon, NEW p \in DOMAIN r.files
               PROVE  r.files[p].before = SeenBefore(trail[p], FirstOf(trail[p], Family(r)))
    BY DEF BeforeIsLastSeen
  <2>1. p \in Paths /\ Told(trail, Family(r), r.files)
    BY DEF SnapshotInv, LoggedInv
  <2>2. PICK s : s = trail[p]
    OBVIOUS
  <2>3. PICK ids : ids = Family(r)
    OBVIOUS
  <2>4. PICK k \in DOMAIN s : FirstAt(s, ids, k) /\ r.files[p].before = SeenBefore(s, k)
    BY <2>1, <2>2, <2>3 DEF Told
  <2>5. Len(s) \in Nat /\ DOMAIN s = 1 .. Len(s)
    <3>1. Sequence(s)
      BY <2>1, <2>2 DEF SnapshotInv, EngineInv, TrailOK
    <3> QED
      BY <3>1, AnySequence DEF Sequence
  <2>6. s[k].id \in ids /\ \A j \in 1 .. k - 1 : s[j].id \notin ids
    BY <2>4, <2>5 DEF FirstAt
  <2>7. ASSUME NEW i \in DOMAIN s, s[i].id \in ids, \A j \in 1 .. i - 1 : s[j].id \notin ids
        PROVE  i = k
    BY <2>4, <2>5, <2>6, <2>7
  <2>8. FirstOf(s, ids) = k
    BY <2>4, <2>6, <2>7 DEF FirstOf
  <2> QED
    BY <2>2, <2>3, <2>4, <2>8
<1> QED
  BY <1>1, Invariantly, PTL

(* What an undo has read and then overwritten is the `before` of an undo   *)
(* turn (undo_coordinator.rs `execute_revert`, readcmds.rs                 *)
(* `append_undo_turn`), for any files and any bounds, unless the undo was  *)
(* killed before it recorded, or the write was cut short or could not be   *)
(* verified.                                                               *)
THEOREM OverwritesAreRecorded == Spec => []OverwrittenIsRecorded
<1>1. SnapshotInv => OverwrittenIsRecorded
  BY DEF SnapshotInv, UndoInv, OverwrittenIsRecorded
<1> QED
  BY <1>1, Invariantly, PTL

-----------------------------------------------------------------------------
(* What the engine holds of files, and hands over.                         *)

FilesOf(T) == UNION {DOMAIN c.files : c \in T}
OpenFiles(e) == IF e.open = None THEN {} ELSE DOMAIN e.open.files

(* The files of turns that are not logged, and those of all that it holds. *)
Owed(e) == OpenFiles(e) \cup FilesOf(Range(e.pending))
Carried(e) == Owed(e) \cup FilesOf(e.recentBare)

(* A method keeps or hands over what was owed and what it observed, and    *)
(* hands over nothing else.                                                *)
PassesOn(e, f, C, seen) ==
  /\ Owed(e) \cup seen \subseteq Owed(f) \cup FilesOf(Range(C))
  /\ Carried(f) \cup FilesOf(Range(C)) \subseteq Carried(e) \cup seen
  /\ f.open = None \/ f.open \in OpenTurns

LEMMA FilesOfSome ==
  /\ FilesOf({}) = {} /\ FilesOf(Range(<< >>)) = {}
  /\ \A c : FilesOf({c}) = DOMAIN c.files
  /\ \A S, T : FilesOf(S \cup T) = FilesOf(S) \cup FilesOf(T)
  /\ \A S, T : S \subseteq T => FilesOf(S) \subseteq FilesOf(T)
<1>1. Range(<< >>) = {}
  BY EmptySequence
<1> QED
  BY <1>1 DEF FilesOf

LEMMA OwnTermsFiles ==
  ASSUME NEW o, NEW n, NEW t, NEW tr, OpenOK(o, n, t, tr), NEW at, NEW c, c = CloseOnOwnTerms(o, at)
  PROVE  c.files = o.files
<1>1. \E boundary, grade, truncated : c = Finish(o, at, boundary, grade, truncated)
  <2>1. CASE o.source = "quiet"
    BY <2>1 DEF CloseOnOwnTerms
  <2>2. CASE o.source = "git"
    BY <2>2 DEF CloseOnOwnTerms
  <2>3. CASE o.source = "bracket"
    BY <2>3 DEF CloseOnOwnTerms
  <2> QED
    BY <2>1, <2>2, <2>3 DEF OpenOK
<1> QED
  BY <1>1, FinishIs

LEMMA GitPasses ==
  ASSUME NEW e, NEW n, NEW t \in Nat, NEW tr, EngineOK(e, n, t, tr),
         e.open = None \/ e.open \in OpenTurns,
         NEW f, f = ObserveGitChange(e, t)
  PROVE  PassesOn(e, f, << >>, {})
<1> DEFINE w == [e EXCEPT !.gitUntil = t + GIT_SETTLE_MS]
<1>1. /\ IsEngine(w) /\ w.open = e.open
      /\ w.recentBare = e.recentBare /\ w.pending = e.pending
  BY DEF EngineOK, IsEngine
<1> HIDE DEF w
<1>2. CASE ~ HasOpen(e, "quiet")
  <2>1. f = w
    BY <1>2 DEF ObserveGitChange, w
  <2> QED
    BY <1>1, <2>1, FilesOfSome DEF PassesOn, Owed, Carried, OpenFiles
<1>3. CASE HasOpen(e, "quiet") /\ Monus(t, e.open.openedAt) <= GIT_SETTLE_MS + QUIET_MS
  <2>1. f = [w EXCEPT !.open.source = "git", !.open.tool = Git]
    BY <1>3 DEF ObserveGitChange, w
  <2>2. PICK o : o = [[e.open EXCEPT !.source = "git"] EXCEPT !.tool = Git]
    OBVIOUS
  <2>3. e.open \in OpenTurns /\ e.open # None
    BY <1>3 DEF HasOpen
  <2>4. o \in OpenTurns /\ o.files = e.open.files
    <3>1. PICK a : a = [e.open EXCEPT !.source = "git"]
      OBVIOUS
    <3>2. a \in OpenTurns /\ a.files = e.open.files
      BY <2>3, <3>1 DEF OpenTurns
    <3>3. o = [a EXCEPT !.tool = Git]
      BY <2>2, <3>1
    <3> QED
      BY <3>2, <3>3 DEF OpenTurns
  <2>5. f.open = o /\ f.recentBare = e.recentBare /\ f.pending = e.pending
    BY <1>1, <2>1, <2>2 DEF IsEngine
  <2>6. o # None
    BY <2>4, NoneAssumption
  <2> QED
    BY <2>3, <2>4, <2>5, <2>6, FilesOfSome DEF PassesOn, Owed, Carried, OpenFiles
<1>4. CASE HasOpen(e, "quiet") /\ ~ (Monus(t, e.open.openedAt) <= GIT_SETTLE_MS + QUIET_MS)
  <2>1. PICK c : c = CloseOnOwnTerms(e.open, LastActivity(e))
    OBVIOUS
  <2>2. f = SetAside(w, c)
    BY <1>4, <2>1 DEF ObserveGitChange, w
  <2>3. c.files = e.open.files /\ e.open # None /\ ClosedsOK(e.pending, n, tr)
    BY <1>4, <2>1, OwnTermsFiles DEF EngineOK, HasOpen
  <2>4. PICK z : z = Append(e.pending, c)
    OBVIOUS
  <2>5. Range(z) = Range(e.pending) \cup {c}
    <3>1. Sequence(e.pending)
      BY <2>3 DEF ClosedsOK
    <3> QED
      BY <2>4, <3>1, AppendSequence
  <2>6. f.open = None /\ f.recentBare = e.recentBare \cup {c} /\ f.pending = z
    BY <1>1, <2>2, <2>4 DEF SetAside, TakeOpen, IsEngine
  <2>7. /\ FilesOf(Range(z)) = FilesOf(Range(e.pending)) \cup DOMAIN e.open.files
        /\ FilesOf(e.recentBare \cup {c}) = FilesOf(e.recentBare) \cup DOMAIN e.open.files
    <3>1. FilesOf({c}) = DOMAIN e.open.files
      BY <2>3, FilesOfSome
    <3>2. \A S : FilesOf(S \cup {c}) = FilesOf(S) \cup FilesOf({c})
      BY FilesOfSome
    <3> QED
      BY <2>5, <3>1, <3>2
  <2> QED
    BY <2>3, <2>6, <2>7, FilesOfSome DEF PassesOn, Owed, Carried, OpenFiles
<1> QED
  BY <1>2, <1>3, <1>4

(* A batch, as the recorder stages it.                                     *)
Batch(obs) ==
  /\ DOMAIN obs \subseteq Paths
  /\ obs = [p \in DOMAIN obs |-> obs[p]]
  /\ \A p \in DOMAIN obs : obs[p] \in Sightings

LEMMA OpensTyped ==
  ASSUME NEW source \in {"quiet", "git", "bracket"}, NEW tool \in {Agent, Git, None},
         NEW t \in Nat, NEW n \in Nat, NEW o, o = OpenTurn(source, tool, t, n, None)
  PROVE  o \in OpenTurns /\ o.files = << >> /\ o # None
<1>1. PICK F : F = UNION {[P -> Sightings] : P \in SUBSET Paths}
  OBVIOUS
<1>2. << >> \in F
  <2>1. << >> \in [{} -> Sightings]
    OBVIOUS
  <2> QED
    BY <1>1, <2>1
<1>3. PICK g : g = << >>
  OBVIOUS
<1>4. o = [ source |-> source, tool |-> tool, openedAt |-> t, files |-> g, id |-> n,
            emitterTurn |-> None ]
  BY <1>3 DEF OpenTurn
<1>5. o \in [ source : {"quiet", "git", "bracket"}, tool : {Agent, Git, None}, openedAt : Nat,
              files : F, id : Nat, emitterTurn : {None} ]
  BY <1>2, <1>3, <1>4
<1>6. o \in OpenTurns
  BY <1>1, <1>5 DEF OpenTurns
<1>7. o # None
  BY <1>6, NoneAssumption
<1> QED
  BY <1>3, <1>4, <1>6, <1>7

LEMMA ChangePasses ==
  ASSUME NEW e, NEW n \in Nat \ {0}, NEW t \in Nat, NEW tr, TrailOK(tr, n), EngineOK(e, n, t, tr),
         e.open = None \/ e.open \in OpenTurns, NEW obs, Batch(obs),
         NEW r, r = ObserveChanges(e, t, obs, n)
  PROVE  /\ PassesOn(e, r.eng, << >>, DOMAIN obs)
         /\ DOMAIN obs \subseteq OpenFiles(r.eng) /\ r.eng.pending = e.pending
<1>1. CASE obs = << >>
  <2>1. r.eng = e /\ DOMAIN obs = {}
    BY <1>1 DEF ObserveChanges, Result
  <2> QED
    BY <2>1, FilesOfSome DEF PassesOn
<1>2. CASE obs # << >>
  <2>1. PICK o : o = TurnOfChange(e, t, n)
    OBVIOUS
  <2>2. PICK g : g = FilesWith(o, obs)
    OBVIOUS
  <2>3. PICK q : q = [o EXCEPT !.files = g]
    OBVIOUS
  <2>4. r.eng = [e EXCEPT !.open = q, !.lastChange = t]
    BY <1>2, <2>1, <2>2, <2>3 DEF ObserveChanges, FilesWith, Result
  <2>5. r.eng.open = q /\ r.eng.recentBare = e.recentBare /\ r.eng.pending = e.pending
    BY <2>4 DEF EngineOK, IsEngine
  <2>6. o \in OpenTurns /\ DOMAIN o.files = OpenFiles(e)
    <3>1. CASE e.open # None
      BY <2>1, <3>1 DEF TurnOfChange, OpenFiles
    <3>2. CASE e.open = None
      <4>1. \E source, tool : /\ o = OpenTurn(source, tool, t, n, None)
                              /\ source \in {"quiet", "git", "bracket"} /\ tool \in {Git, None}
        BY <2>1, <3>2 DEF TurnOfChange
      <4>2. << >> \in UNION {[P -> Sightings] : P \in SUBSET Paths} /\ DOMAIN << >> = {}
        OBVIOUS
      <4>3. o \in OpenTurns /\ o.files = << >>
        BY <4>1, OpensTyped
      <4> QED
        BY <3>2, <4>2, <4>3 DEF OpenFiles
    <3> QED
      BY <3>1, <3>2
  <2>7. /\ DOMAIN o.files \subseteq Paths
        /\ \A p \in DOMAIN o.files : o.files[p] \in Sightings
    BY <2>6 DEF OpenTurns
  <2>8. DOMAIN g = DOMAIN o.files \cup DOMAIN obs
    BY <2>2 DEF FilesWith
  <2>9. \A p \in DOMAIN g : g[p] \in Sightings
    <3>1. ASSUME NEW p \in DOMAIN g PROVE g[p] \in Sightings
      <4>1. CASE p \notin DOMAIN o.files
        BY <2>2, <2>8, <3>1, <4>1 DEF FilesWith, Batch
      <4>2. CASE p \in DOMAIN o.files /\ p \in DOMAIN obs
        <5>1. g[p] = [o.files[p] EXCEPT !.status = obs[p].status]
          BY <2>2, <2>8, <4>2 DEF FilesWith
        <5>2. o.files[p] \in Sightings /\ obs[p] \in Sightings
          BY <2>7, <4>2 DEF Batch
        <5> QED
          BY <5>1, <5>2 DEF Sightings
      <4>3. CASE p \in DOMAIN o.files /\ p \notin DOMAIN obs
        BY <2>2, <2>7, <2>8, <4>3 DEF FilesWith
      <4> QED
        BY <4>1, <4>2, <4>3
    <3> QED
      BY <3>1
  <2>10. g \in UNION {[P -> Sightings] : P \in SUBSET Paths}
    <3>1. g = [p \in DOMAIN g |-> g[p]]
      BY <2>2 DEF FilesWith
    <3>2. g \in [DOMAIN g -> Sightings]
      BY <2>9, <3>1
    <3>3. DOMAIN g \in SUBSET Paths
      BY <2>7, <2>8 DEF Batch
    <3> QED
      BY <3>2, <3>3
  <2>11. q \in OpenTurns /\ q.files = g
    <3> HIDE DEF Sightings
    <3> QED
      BY <2>3, <2>6, <2>10 DEF OpenTurns
  <2>12. q # None
    BY <2>11, NoneAssumption
  <2>13. OpenFiles(r.eng) = OpenFiles(e) \cup DOMAIN obs
    BY <2>5, <2>6, <2>8, <2>11, <2>12 DEF OpenFiles
  <2> QED
    BY <2>5, <2>11, <2>13, FilesOfSome DEF PassesOn, Owed, Carried
<1> QED
  BY <1>1, <1>2

LEMMA AlonePasses ==
  ASSUME NEW e, NEW n, NEW t, NEW tr, EngineOK(e, n, t, tr), NEW at,
         NEW C, C = IF e.open = None THEN << >> ELSE <<CloseOnOwnTerms(e.open, at)>>
  PROVE  FilesOf(Range(C)) = OpenFiles(e)
<1>1. CASE e.open = None
  BY <1>1, FilesOfSome DEF OpenFiles
<1>2. CASE e.open # None
  <2>1. PICK c : c = CloseOnOwnTerms(e.open, at)
    OBVIOUS
  <2>2. c.files = e.open.files
    BY <1>2, <2>1, OwnTermsFiles DEF EngineOK
  <2>3. Range(C) = {c}
    BY <1>2, <2>1, OneSequence
  <2> QED
    BY <1>2, <2>2, <2>3, FilesOfSome DEF OpenFiles
<1> QED
  BY <1>1, <1>2

LEMMA StartPasses ==
  ASSUME NEW e, NEW n \in Nat \ {0}, NEW t \in Nat, NEW tr, EngineOK(e, n, t, tr),
         NEW r, r = ObserveStart(e, t, Agent, None, n)
  PROVE  PassesOn(e, r.eng, r.closed, {})
<1>1. PICK o : o = OpenTurn("bracket", Agent, t, n, None)
  OBVIOUS
<1>2. o \in OpenTurns /\ o.files = << >> /\ o # None
  BY <1>1, OpensTyped
<1>3. PICK C : C = IF e.open = None THEN << >> ELSE <<CloseOnOwnTerms(e.open, t)>>
  OBVIOUS
<1>4. r.eng = [TakeOpen(e) EXCEPT !.open = o] /\ r.closed = C
  BY <1>1, <1>3 DEF ObserveStart, Result
<1>5. r.eng.open = o /\ r.eng.recentBare = e.recentBare /\ r.eng.pending = e.pending
  <2>1. PICK w : w = TakeOpen(e)
    OBVIOUS
  <2>2. IsEngine(w) /\ w.recentBare = e.recentBare /\ w.pending = e.pending
    BY <2>1, TakesOpen DEF EngineOK
  <2>3. r.eng = [w EXCEPT !.open = o]
    BY <1>4, <2>1
  <2> QED
    BY <2>2, <2>3 DEF IsEngine
<1>6. FilesOf(Range(C)) = OpenFiles(e)
  BY <1>3, AlonePasses
<1>7. OpenFiles(r.eng) = {}
  BY <1>2, <1>5 DEF OpenFiles
<1> QED
  BY <1>2, <1>4, <1>5, <1>6, <1>7 DEF PassesOn, Owed, Carried

(* A turn that closes on a stop has its files and those it folds.          *)
LEMMA FoldPasses ==
  ASSUME NEW turn, IsClosed(turn), NEW B, NEW lastRich, NEW c, c = FoldRecentBares(turn, B, lastRich)
  PROVE  /\ DOMAIN turn.files \subseteq DOMAIN c.files
         /\ DOMAIN c.files \subseteq DOMAIN turn.files \cup FilesOf(B)
<1>1. PICK frags : frags = {b \in B : Eligible(turn, b, lastRich)}
  OBVIOUS
<1>2. PICK g : g = FoldedFiles(turn, frags)
  OBVIOUS
<1>3. DOMAIN g = DOMAIN turn.files \cup FilesOf(frags)
  BY <1>2 DEF FoldedFiles, FilesOf
<1>4. FilesOf(frags) \subseteq FilesOf(B)
  BY <1>1, FilesOfSome
<1>5. c.files = g
  <2>1. PICK M, O : c = [turn EXCEPT !.merges = M, !.openedAt = O, !.files = g]
    BY <1>1, <1>2 DEF FoldRecentBares
  <2> QED
    BY <2>1 DEF IsClosed
<1> QED
  BY <1>3, <1>4, <1>5

LEMMA StopClosedPasses ==
  ASSUME NEW e, NEW n, NEW t, NEW tr, EngineOK(e, n, t, tr), NEW turn, IsClosed(turn),
         NEW before, Sequence(before), NEW reserved,
         DOMAIN turn.files \cup FilesOf(Range(before)) = OpenFiles(e),
         NEW now1, NEW r, r = CloseOnStop(e, turn, before, now1, reserved)
  PROVE  PassesOn(e, r.eng, r.closed, {})
<1>1. PICK c : c = FoldRecentBares(turn, e.recentBare, e.lastRich)
  OBVIOUS
<1>2. /\ DOMAIN turn.files \subseteq DOMAIN c.files
      /\ DOMAIN c.files \subseteq DOMAIN turn.files \cup FilesOf(e.recentBare)
  BY <1>1, FoldPasses
<1>3. PICK z : z = Append(before, c)
  OBVIOUS
<1>4. /\ r.eng = [TakeOpen(e) EXCEPT !.recentBare = {}, !.lastRich = now1]
      /\ r.closed = z
  BY <1>1, <1>3 DEF CloseOnStop, Result
<1>5. r.eng.open = None /\ r.eng.recentBare = {} /\ r.eng.pending = e.pending
  <2>1. PICK w : w = TakeOpen(e)
    OBVIOUS
  <2>2. IsEngine(w) /\ w.open = None /\ w.recentBare = e.recentBare /\ w.pending = e.pending
    BY <2>1, TakesOpen DEF EngineOK
  <2>3. r.eng = [w EXCEPT !.recentBare = {}, !.lastRich = now1]
    BY <1>4, <2>1
  <2> QED
    BY <2>2, <2>3 DEF IsEngine
<1>6. FilesOf(Range(z)) = FilesOf(Range(before)) \cup DOMAIN c.files
  <2>1. Range(z) = Range(before) \cup {c}
    BY <1>3, AppendSequence
  <2>2. /\ FilesOf(Range(before) \cup {c}) = FilesOf(Range(before)) \cup FilesOf({c})
        /\ FilesOf({c}) = DOMAIN c.files
    BY FilesOfSome
  <2> QED
    BY <2>1, <2>2
<1>7. OpenFiles(r.eng) = {} /\ FilesOf(r.eng.recentBare) = {}
  BY <1>5, FilesOfSome DEF OpenFiles
<1> QED
  BY <1>2, <1>4, <1>5, <1>6, <1>7 DEF PassesOn, Owed, Carried

LEMMA StopPasses ==
  ASSUME NEW e, NEW n \in Nat \ {0}, NEW t \in Nat, NEW tr, EngineOK(e, n, t, tr),
         NEW tool, NEW r, r = ObserveStop(e, t, tool, n)
  PROVE  PassesOn(e, r.eng, r.closed, {})
<1> DEFINE ownBracket == HasOpen(e, "bracket") /\ e.open.tool = tool
           convertible == HasOpen(e, "quiet") /\ Monus(t, e.open.openedAt) <= FOLD_WINDOW_MS
<1>1. Sequence(<< >>) /\ FilesOf(Range(<< >>)) = {}
  BY EmptySequence, FilesOfSome
<1>2. CASE ownBracket
  <2>1. PICK c : c = Finish(e.open, t, "bracket", "rich", FALSE)
    OBVIOUS
  <2>2. r = CloseOnStop(e, c, << >>, t, FALSE)
    BY <1>2, <2>1 DEF ObserveStop
  <2>3. IsClosed(c) /\ c.files = e.open.files
    BY <2>1 DEF Finish, IsClosed
  <2>4. DOMAIN c.files \cup FilesOf(Range(<< >>)) = OpenFiles(e)
    BY <1>1, <1>2, <2>3 DEF HasOpen, OpenFiles
  <2> QED
    BY <1>1, <2>2, <2>3, <2>4, StopClosedPasses
<1>3. CASE ~ ownBracket /\ convertible
  <2>1. PICK d : d = Finish(e.open, t, "stop-only", "rich", FALSE)
    OBVIOUS
  <2>2. PICK c : c = [d EXCEPT !.tool = tool]
    OBVIOUS
  <2>3. r = CloseOnStop(e, c, << >>, t, FALSE)
    BY <1>3, <2>1, <2>2 DEF ObserveStop
  <2>4. IsClosed(d) /\ d.files = e.open.files
    BY <2>1 DEF Finish, IsClosed
  <2>5. IsClosed(c) /\ c.files = e.open.files
    BY <2>2, <2>4 DEF IsClosed
  <2>6. DOMAIN c.files \cup FilesOf(Range(<< >>)) = OpenFiles(e)
    BY <1>1, <1>3, <2>5 DEF HasOpen, OpenFiles
  <2> QED
    BY <1>1, <2>3, <2>5, <2>6, StopClosedPasses
<1>4. CASE ~ ownBracket /\ ~ convertible
  <2>1. PICK o : o = OpenTurn("quiet", tool, t, n, None)
    OBVIOUS
  <2>2. PICK c : c = Finish(o, t, "stop-only", "rich", FALSE)
    OBVIOUS
  <2>3. PICK C : C = IF e.open = None THEN << >> ELSE <<CloseOnOwnTerms(e.open, t)>>
    OBVIOUS
  <2>4. r = CloseOnStop(e, c, C, t, TRUE)
    BY <1>4, <2>1, <2>2, <2>3 DEF ObserveStop
  <2>5. IsClosed(c) /\ DOMAIN c.files = {}
    <3>1. IsClosed(c) /\ c.files = o.files
      BY <2>2 DEF Finish, IsClosed
    <3>2. o.files = << >> /\ DOMAIN << >> = {}
      BY <2>1 DEF OpenTurn
    <3> QED
      BY <3>1, <3>2
  <2>6. FilesOf(Range(C)) = OpenFiles(e) /\ Sequence(C)
    BY <2>3, AlonePasses, ClosedAlone DEF ClosedsOK
  <2>7. DOMAIN c.files \cup FilesOf(Range(C)) = OpenFiles(e)
    BY <2>5, <2>6
  <2> QED
    BY <2>4, <2>5, <2>6, <2>7, StopClosedPasses
<1> QED
  BY <1>2, <1>3, <1>4

LEMMA TickPasses ==
  ASSUME NEW e, NEW n \in Nat, NEW t \in Nat, NEW tr, EngineOK(e, n, t, tr),
         e.open = None \/ e.open \in OpenTurns, NEW r, r = Tick(e, t)
  PROVE  PassesOn(e, r.eng, r.closed, {}) /\ r.eng.pending = << >>
<1>1. PICK p : p = Prune(e, t)
  OBVIOUS
<1>2. PICK R : R = StillRecent(e.recentBare, t)
  OBVIOUS
<1>3. /\ IsEngine(p) /\ p.open = e.open /\ p.recentBare = R /\ p.pending = << >>
  <2>1. p = [e EXCEPT !.recentBare = R, !.pending = << >>]
    BY <1>1, <1>2 DEF Prune
  <2> QED
    BY <2>1 DEF EngineOK, IsEngine
<1>4. FilesOf(R) \subseteq FilesOf(e.recentBare) /\ FilesOf(Range(<< >>)) = {}
  <2>1. R \subseteq e.recentBare
    BY <1>2 DEF StillRecent
  <2> QED
    BY <2>1, FilesOfSome
<1>5. CASE ~ (e.open # None /\ Elapsed(e, t))
  <2>1. r.eng = p /\ r.closed = e.pending
    BY <1>1, <1>5 DEF Tick, Result
  <2> QED
    BY <1>3, <1>4, <2>1 DEF PassesOn, Owed, Carried, OpenFiles
<1>6. CASE e.open # None /\ Elapsed(e, t)
  <2>1. PICK at : at = IF e.open.source = "bracket" THEN LastActivity(e) ELSE t
    OBVIOUS
  <2>2. PICK c : c = CloseOnOwnTerms(e.open, at)
    OBVIOUS
  <2>3. PICK S : S = IF c.grade = "bare" THEN {c} ELSE {}
    OBVIOUS
  <2>4. PICK z : z = Append(e.pending, c)
    OBVIOUS
  <2>5. r.eng = [TakeOpen(p) EXCEPT !.recentBare = R \cup S] /\ r.closed = z
    BY <1>1, <1>3, <1>6, <2>1, <2>2, <2>3, <2>4 DEF Tick, Result
  <2>6. r.eng.open = None /\ r.eng.recentBare = R \cup S /\ r.eng.pending = << >>
    <3>1. PICK w : w = TakeOpen(p)
      OBVIOUS
    <3>2. IsEngine(w) /\ w.open = None /\ w.pending = << >>
      BY <1>3, <3>1, TakesOpen
    <3> QED
      BY <2>5, <3>1, <3>2 DEF IsEngine
  <2>7. c.files = e.open.files
    BY <1>6, <2>2, OwnTermsFiles DEF EngineOK
  <2>8. FilesOf({c}) = OpenFiles(e)
    BY <1>6, <2>7, FilesOfSome DEF OpenFiles
  <2>9. FilesOf(R \cup S) \subseteq FilesOf(e.recentBare) \cup OpenFiles(e)
    <3>1. FilesOf(R \cup S) = FilesOf(R) \cup FilesOf(S) /\ FilesOf(S) \subseteq FilesOf({c})
      BY <2>3, FilesOfSome
    <3> QED
      BY <1>4, <2>8, <3>1
  <2>10. FilesOf(Range(z)) = FilesOf(Range(e.pending)) \cup OpenFiles(e)
    <3>1. Sequence(e.pending)
      BY DEF EngineOK, ClosedsOK
    <3>2. Range(z) = Range(e.pending) \cup {c}
      BY <2>4, <3>1, AppendSequence
    <3>3. FilesOf(Range(e.pending) \cup {c}) = FilesOf(Range(e.pending)) \cup FilesOf({c})
      BY FilesOfSome
    <3> QED
      BY <2>8, <3>2, <3>3
  <2>11. OpenFiles(r.eng) = {}
    BY <2>6 DEF OpenFiles
  <2> QED
    BY <1>4, <2>5, <2>6, <2>9, <2>10, <2>11 DEF PassesOn, Owed, Carried
<1> QED
  BY <1>5, <1>6

LEMMA SignalPasses ==
  ASSUME NEW e, NEW n \in Nat \ {0}, now \in Nat, NEW tr, EngineOK(e, n, now, tr),
         e.open = None \/ e.open \in OpenTurns,
         NEW sig \in {"start", "stop", None}, NEW r, r = Signal(sig, e, n)
  PROVE  PassesOn(e, r.eng, r.closed, {})
<1>1. CASE sig = "start"
  <2>1. r = ObserveStart(e, now, Agent, None, n)
    BY <1>1, Signs DEF Signal
  <2> QED
    BY <2>1, StartPasses
<1>2. CASE sig = "stop"
  <2>1. r = ObserveStop(e, now, Agent, n)
    BY <1>2, Signs DEF Signal
  <2> QED
    BY <2>1, StopPasses
<1>3. CASE sig # "start" /\ sig # "stop"
  <2>1. r = Result(e, << >>, FALSE)
    BY <1>3, Signs DEF Signal
  <2>2. r.eng = e /\ r.closed = << >>
    BY <2>1 DEF Result
  <2> QED
    BY <2>2, FilesOfSome DEF PassesOn
<1> QED
  BY <1>1, <1>2, <1>3

-----------------------------------------------------------------------------
(* What the log says of a file: the `after` of its last record, or else    *)
(* what was there to begin with.                                           *)

Answer(log, d, p) ==
  IF \E r \in Range(log) : p \in DOMAIN r.files
  THEN log[Max({i \in DOMAIN log : p \in DOMAIN log[i].files})].files[p].after
  ELSE d

LEMMA AnswerIs ==
  ASSUME NEW log, Sequence(log), NEW d, NEW p, NEW i \in DOMAIN log, p \in DOMAIN log[i].files,
         \A j \in DOMAIN log : p \in DOMAIN log[j].files => j <= i
  PROVE  Answer(log, d, p) = log[i].files[p].after
<1>1. PICK S : S = {j \in DOMAIN log : p \in DOMAIN log[j].files}
  OBVIOUS
<1>2. Len(log) \in Nat /\ DOMAIN log = 1 .. Len(log)
  BY AnySequence DEF Sequence
<1>3. S \in SUBSET Nat /\ S # {} /\ i \in S /\ i \in Nat /\ \A j \in S : j <= i
  BY <1>1, <1>2
<1>4. Max(S) \in S /\ \A j \in S : Max(S) >= j
  BY <1>3, GreatestOf
<1>5. Max(S) = i
  <2>1. Max(S) <= i /\ i <= Max(S) /\ Max(S) \in Nat
    BY <1>3, <1>4
  <2> QED
    BY <1>3, <2>1
<1>6. log[i] \in Range(log)
  BY DEF Range
<1> QED
  BY <1>1, <1>5, <1>6 DEF Answer

LEMMA AnswerOf ==
  ASSUME NEW log, Sequence(log), NEW d, NEW p, \E r \in Range(log) : p \in DOMAIN r.files
  PROVE  \E i \in DOMAIN log :
           /\ p \in DOMAIN log[i].files /\ Answer(log, d, p) = log[i].files[p].after
           /\ \A j \in DOMAIN log : p \in DOMAIN log[j].files => j <= i
<1>1. PICK S : S = {j \in DOMAIN log : p \in DOMAIN log[j].files}
  OBVIOUS
<1>2. Len(log) \in Nat /\ DOMAIN log = 1 .. Len(log)
  BY AnySequence DEF Sequence
<1>3. S \in SUBSET Nat /\ S # {} /\ \A j \in S : j <= Len(log)
  BY <1>1, <1>2 DEF Range
<1>4. Max(S) \in S /\ \A j \in S : Max(S) >= j
  BY <1>2, <1>3, GreatestOf
<1>5. PICK i : i = Max(S)
  OBVIOUS
<1>6. i \in DOMAIN log /\ p \in DOMAIN log[i].files
  BY <1>1, <1>4, <1>5
<1>7. \A j \in DOMAIN log : p \in DOMAIN log[j].files => j <= i
  <2>1. \A j \in S : j \in Nat /\ i \in Nat /\ i >= j
    BY <1>3, <1>4, <1>5
  <2> QED
    BY <1>1, <2>1
<1> QED
  BY <1>6, <1>7, AnswerIs

LEMMA AnswerStays ==
  ASSUME NEW s, Sequence(s), NEW z, Sequence(z), NEW d, NEW p,
         \A i \in DOMAIN s : i \in DOMAIN z /\ z[i] = s[i],
         \A j \in DOMAIN z : j \notin DOMAIN s => p \notin DOMAIN z[j].files
  PROVE  Answer(z, d, p) = Answer(s, d, p)
<1>1. CASE \A x \in Range(s) : p \notin DOMAIN x.files
  <2>1. \A i \in DOMAIN s : p \notin DOMAIN s[i].files
    BY <1>1 DEF Range
  <2>2. \A j \in DOMAIN z : p \notin DOMAIN z[j].files
    BY <2>1
  <2>3. \A x \in Range(z) : p \notin DOMAIN x.files
    BY <2>2 DEF Range
  <2> QED
    BY <1>1, <2>3 DEF Answer
<1>2. CASE \E x \in Range(s) : p \in DOMAIN x.files
  <2>1. PICK i \in DOMAIN s :
          /\ p \in DOMAIN s[i].files /\ Answer(s, d, p) = s[i].files[p].after
          /\ \A j \in DOMAIN s : p \in DOMAIN s[j].files => j <= i
    BY <1>2, AnswerOf
  <2>2. i \in DOMAIN z /\ p \in DOMAIN z[i].files /\ z[i] = s[i]
    BY <2>1
  <2>3. \A j \in DOMAIN z : p \in DOMAIN z[j].files => j <= i
    BY <2>1
  <2>4. Answer(z, d, p) = z[i].files[p].after
    BY <2>2, <2>3, AnswerIs
  <2> QED
    BY <2>1, <2>2, <2>4
<1> QED
  BY <1>1, <1>2

(* A log after it got some records.                                        *)
Longer(z, s, r) ==
  /\ Sequence(z) /\ Sequence(s) /\ Sequence(r)
  /\ \A i \in DOMAIN s : i \in DOMAIN z /\ z[i] = s[i]
  /\ \A j \in DOMAIN z : j \notin DOMAIN s => z[j] \in Range(r)
  /\ \A i \in DOMAIN s : \A j \in DOMAIN z : j \notin DOMAIN s => i < j
  /\ \A j \in DOMAIN r : \E k \in DOMAIN z : z[k] = r[j] /\ k \notin DOMAIN s
  /\ \A k \in DOMAIN z : k \in Nat

LEMMA WiderSeq ==
  ASSUME NEW s, Sequence(s), NEW T, Range(s) \subseteq T
  PROVE  s \in Seq(T)
<1>1. Len(s) \in Nat /\ DOMAIN s = 1 .. Len(s) /\ s \in [1 .. Len(s) -> Range(s)]
  BY AnySequence DEF Sequence
<1>2. s \in [1 .. Len(s) -> T]
  BY <1>1
<1> QED
  BY <1>1, <1>2, SeqDef

LEMMA Concatenated ==
  ASSUME NEW s, Sequence(s), NEW r, Sequence(r), NEW z, z = s \o r
  PROVE  Longer(z, s, r)
<1>1. PICK T : T = Range(s) \cup Range(r)
  OBVIOUS
<1>2. s \in Seq(T) /\ r \in Seq(T)
  BY <1>1, WiderSeq
<1>3. /\ Len(s) \in Nat /\ DOMAIN s = 1 .. Len(s) /\ Len(r) \in Nat /\ DOMAIN r = 1 .. Len(r)
      /\ Sequence(z)
  BY AnySequence, ConcatSequence DEF Sequence
<1>4. /\ DOMAIN z = 1 .. Len(s) + Len(r)
      /\ \A i \in 1 .. Len(s) : z[i] = s[i]
      /\ \A i \in 1 .. Len(r) : z[Len(s) + i] = r[i]
  BY <1>2
<1>5. ASSUME NEW j \in DOMAIN z, j \notin DOMAIN s
      PROVE  z[j] \in Range(r) /\ \A i \in DOMAIN s : i < j
  <2>1. j - Len(s) \in DOMAIN r /\ j = Len(s) + (j - Len(s))
    BY <1>3, <1>4, <1>5
  <2>2. z[j] = r[j - Len(s)]
    BY <1>3, <1>4, <2>1
  <2>3. z[j] \in Range(r)
    BY <2>1, <2>2 DEF Range
  <2>4. \A i \in DOMAIN s : i < j
    BY <1>3, <1>4, <1>5
  <2> QED
    BY <2>3, <2>4
<1>6. ASSUME NEW j \in DOMAIN r
      PROVE  \E k \in DOMAIN z : z[k] = r[j] /\ k \notin DOMAIN s
  <2>1. Len(s) + j \in DOMAIN z /\ z[Len(s) + j] = r[j] /\ Len(s) + j \notin DOMAIN s
    BY <1>3, <1>4
  <2> QED
    BY <2>1
<1>7. \A i \in DOMAIN s : i \in DOMAIN z /\ z[i] = s[i]
  BY <1>3, <1>4
<1>8. \A k \in DOMAIN z : k \in Nat
  BY <1>3, <1>4
<1> QED
  BY <1>3, <1>5, <1>6, <1>7, <1>8 DEF Longer

LEMMA Appended ==
  ASSUME NEW s, Sequence(s), NEW x, NEW z, z = Append(s, x)
  PROVE  \E r : Range(r) = {x} /\ Longer(z, s, r)
<1>1. PICK T : T = Range(s) \cup {x}
  OBVIOUS
<1>2. Len(s) \in Nat /\ DOMAIN s = 1 .. Len(s)
  BY AnySequence DEF Sequence
<1>3. s \in Seq(T) /\ x \in T
  BY <1>1, WiderSeq
<1>4. /\ z \in Seq(T) /\ DOMAIN z = 1 .. Len(s) + 1 /\ z[Len(s) + 1] = x
      /\ \A i \in 1 .. Len(s) : z[i] = s[i]
  BY <1>3
<1>5. Sequence(z)
  BY <1>4, AnySequence
<1>6. PICK n : n = Len(s)
  OBVIOUS
<1>7. /\ n + 1 \in DOMAIN z /\ n + 1 \notin DOMAIN s
      /\ \A j \in DOMAIN z : j \notin DOMAIN s => j = n + 1
      /\ \A i \in DOMAIN s : i \in DOMAIN z /\ i < n + 1 /\ z[i] = s[i]
      /\ \A k \in DOMAIN z : k \in Nat
      /\ z[n + 1] = x
  BY <1>2, <1>4, <1>6
<1>8. PICK r : r = <<x>>
  OBVIOUS
<1>9. Sequence(r) /\ Range(r) = {x} /\ DOMAIN r = {1} /\ r[1] = x
  BY <1>8, OneSequence
<1>10. PICK m : m = n + 1
  OBVIOUS
<1>11. /\ m \in DOMAIN z /\ m \notin DOMAIN s /\ z[m] = x
       /\ \A j \in DOMAIN z : j \notin DOMAIN s => j = m
       /\ \A i \in DOMAIN s : i \in DOMAIN z /\ i < m /\ z[i] = s[i]
       /\ \A k \in DOMAIN z : k \in Nat
  BY <1>7, <1>10
<1> HIDE DEF Range
<1> QED
  BY <1>5, <1>9, <1>11 DEF Longer

Agree(T, p, v) == \A x \in T : p \in DOMAIN x.files => x.files[p].after = v

(* New records that agree on a file have the last word; without any, the   *)
(* log says what it said.                                                  *)
LEMMA AnswerGrows ==
  ASSUME NEW s, NEW r, NEW z, Longer(z, s, r), NEW d, NEW p, NEW v,
         Agree(Range(r), p, v)
  PROVE  /\ (\E x \in Range(r) : p \in DOMAIN x.files) => Answer(z, d, p) = v
         /\ (\A x \in Range(r) : p \notin DOMAIN x.files) => Answer(z, d, p) = Answer(s, d, p)
<1>1. ASSUME NEW x \in Range(r), p \in DOMAIN x.files PROVE Answer(z, d, p) = v
  <2>1. PICK j \in DOMAIN r : x = r[j]
    BY DEF Range
  <2>2. PICK m \in DOMAIN z : z[m] = x /\ m \notin DOMAIN s
    BY <2>1 DEF Longer
  <2>3. Sequence(z) /\ \E y \in Range(z) : p \in DOMAIN y.files
    BY <1>1, <2>2 DEF Longer, Range
  <2>4. PICK i \in DOMAIN z :
          /\ p \in DOMAIN z[i].files /\ Answer(z, d, p) = z[i].files[p].after
          /\ \A k \in DOMAIN z : p \in DOMAIN z[k].files => k <= i
    BY <2>3, AnswerOf
  <2>5. m <= i /\ m \in Nat /\ i \in Nat
    BY <1>1, <2>2, <2>4 DEF Longer
  <2>6. i \notin DOMAIN s
    <3>1. i \in DOMAIN s => i < m
      BY <2>2 DEF Longer
    <3> QED
      BY <2>5, <3>1
  <2>7. z[i] \in Range(r)
    BY <2>4, <2>6 DEF Longer
  <2> QED
    BY <2>4, <2>7 DEF Agree
<1>2. ASSUME \A x \in Range(r) : p \notin DOMAIN x.files
      PROVE  Answer(z, d, p) = Answer(s, d, p)
  <2>1. \A i \in DOMAIN s : i \in DOMAIN z /\ z[i] = s[i]
    BY DEF Longer
  <2>2. \A j \in DOMAIN z : j \notin DOMAIN s => p \notin DOMAIN z[j].files
    BY <1>2 DEF Longer
  <2>3. Sequence(z) /\ Sequence(s)
    BY DEF Longer
  <2> QED
    BY <2>1, <2>2, <2>3, AnswerStays
<1> QED
  BY <1>1, <1>2

LEMMA AnswerAppended ==
  ASSUME NEW s, NEW r, NEW u, Range(u) = {r}, NEW z, Longer(z, s, u), NEW d, NEW p
  PROVE  Answer(z, d, p) = IF p \in DOMAIN r.files THEN r.files[p].after ELSE Answer(s, d, p)
<1>1. PICK v : v = IF p \in DOMAIN r.files THEN r.files[p].after ELSE d
  OBVIOUS
<1>2. Agree(Range(u), p, v)
  BY <1>1 DEF Agree
<1>3. /\ (\E x \in Range(u) : p \in DOMAIN x.files) => Answer(z, d, p) = v
      /\ (\A x \in Range(u) : p \notin DOMAIN x.files) => Answer(z, d, p) = Answer(s, d, p)
  BY <1>2, AnswerGrows
<1> QED
  BY <1>1, <1>3

-----------------------------------------------------------------------------
(* What the log and the journal tell of a file, against what it holds.     *)

Start(p) == IF trail[p][1].content = Unknown THEN 0 ELSE Absent
Shown(p) == Last(trail[p]).content
Mirrored == IF journal = None THEN {} ELSE DOMAIN journal.files
Tale(p) == IF p \in Mirrored THEN journal.files[p].after ELSE Answer(logf, Start(p), p)

(* Files of turns that the engine may still write, files with an event     *)
(* that is not handled, files that an undo has reverted and not recorded.  *)
Held == OpenFiles(eng) \cup FilesOf(eng.recentBare)
Waiting == queue \cup pending
Done == IF undo.at = "revert" THEN DOMAIN undo.done ELSE {}

MirrorInv ==
  /\ eng.open = None \/ eng.open \in OpenTurns
  /\ eng.pending = << >>
  /\ after \in [Paths -> Contents \cup {Absent, None}]
  /\ up => journal = Journal(eng, after)
  /\ ~ up => Waiting = {}
  /\ \A r \in Logged : r.id \in Nat /\ r.id < nextId /\ (journal # None => r.id # journal.id)

(* What would be written of a file is what was last seen of it, and that   *)
(* is what it holds unless an event waits.                                 *)
HeldAt(p) == up /\ p \in Held => after[p] = Shown(p) /\ Shown(p) # Unknown
ShownAt(p) == up => p \in Waiting \/ Shown(p) \in {disk[p], Unknown}

(* The log and the journal tell what the file holds, unless an event waits *)
(* or an undo has not recorded its revert; what was last seen is what they *)
(* tell, or is a content that was overwritten since.                       *)
TaleAt(p) ==
  p \in Mirrored \/ p \notin Done =>
    /\ p \in Waiting \/ Tale(p) = disk[p]
    /\ Shown(p) \in {Tale(p), Unknown} \/ (Shown(p) \in Nat /\ Shown(p) # disk[p])

(* The same of what an undo that is under way will have recorded.          *)
DoneAt(p) ==
  p \in Done =>
    \/ Shown(p) \in {undo.done[p].after, Unknown}
    \/ undo.done[p].after \in Nat /\ disk[p] # undo.done[p].after
    \/ undo.done[p].after = Absent /\ Shown(p) \in Nat

ToldAt(p) == HeldAt(p) /\ ShownAt(p) /\ TaleAt(p) /\ DoneAt(p)

LogInv == MirrorInv /\ \A p \in Paths \ opaque : ToldAt(p)

LEMMA Typing ==
  ASSUME SnapshotInv, NEW p \in Paths
  PROVE  /\ Shown(p) \in Values /\ disk[p] \in Stored /\ writes \in Nat
         /\ Unknown \notin Nat /\ Absent \notin Nat /\ Absent # Unknown
         /\ p \in Done => undo.done[p].after \in Stored
<1>1. Sequence(trail[p]) /\ Len(trail[p]) >= 1
  BY DEF SnapshotInv, EngineInv, TrailOK
<1>2. Len(trail[p]) \in DOMAIN trail[p]
  <2>1. Len(trail[p]) \in Nat /\ DOMAIN trail[p] = 1 .. Len(trail[p])
    BY <1>1, AnySequence DEF Sequence
  <2> QED
    BY <1>1, <2>1
<1>3. Shown(p) \in Values
  BY <1>2 DEF Shown, Last, SnapshotInv, ContentInv
<1> QED
  BY <1>3, ContentAssumption DEF SnapshotInv, ContentInv, Done

LEMMA SameTale ==
  ASSUME UNCHANGED <<trail, logf, journal>>
  PROVE  /\ Mirrored' = Mirrored
         /\ \A p \in Paths : Shown(p)' = Shown(p) /\ Tale(p)' = Tale(p)
<1>1. Mirrored' = Mirrored
  BY DEF Mirrored
<1>2. \A p \in Paths : Shown(p)' = Shown(p) /\ Start(p)' = Start(p)
  BY DEF Shown, Start
<1>3. ASSUME NEW p \in Paths PROVE Tale(p)' = Tale(p)
  <2>1. Answer(logf, Start(p), p)' = Answer(logf, Start(p), p)
    BY <1>2 DEF Answer
  <2> QED
    BY <1>1, <2>1 DEF Tale
<1> QED
  BY <1>1, <1>2, <1>3

LEMMA SameMirror ==
  ASSUME MirrorInv, UNCHANGED <<up, eng, after, logf, journal, nextId>>,
         ~ up => Waiting' = {}
  PROVE  MirrorInv' /\ Held' = Held
<1>1. Journal(eng, after)' = Journal(eng, after)
  BY DEF Journal, Resolve
<1>2. Held' = Held
  BY DEF Held, OpenFiles, FilesOf
<1> QED
  BY <1>1, <1>2 DEF MirrorInv, Logged

LEMMA LogInitially == Init => LogInv
<1> SUFFICES ASSUME Init PROVE LogInv
  OBVIOUS
<1>1. SnapshotInv
  BY Initially
<1>2. /\ eng.open = None /\ eng.pending = << >> /\ eng.recentBare = {}
  BY DEF Init, NewEngine
<1>3. Logged = {} /\ Sequence(logf) /\ Range(logf) = {}
  BY EmptySequence DEF Init, Logged
<1>4. Held = {} /\ Mirrored = {} /\ Done = {}
  BY <1>2, FilesOfSome DEF Held, OpenFiles, Mirrored, Done, Init, Idle
<1>5. MirrorInv
  BY <1>2, <1>3 DEF MirrorInv, Init, Journal
<1>6. ASSUME NEW p \in Paths PROVE ToldAt(p)
  <2>1. PICK b : b = Boot(p)
    OBVIOUS
  <2>2. trail[p] = <<b>>
    BY <2>1 DEF Init
  <2>3. Shown(p) = b.content /\ trail[p][1] = b
    BY <2>2 DEF Shown, Last
  <2>4. b.content = IF disk[p] = Absent THEN Absent ELSE Unknown
    BY <2>1 DEF Boot, Seen
  <2>5. disk[p] \in {Absent, 0}
    BY DEF Init
  <2>6. Tale(p) = disk[p]
    <3>1. Answer(logf, Start(p), p) = Start(p)
      BY <1>3 DEF Answer
    <3>2. Start(p) = disk[p]
      BY <1>1, <2>3, <2>4, <2>5, Typing DEF Start
    <3> QED
      BY <1>4, <3>1, <3>2 DEF Tale
  <2>7. Shown(p) \in {Tale(p), Unknown} /\ Shown(p) \in {disk[p], Unknown}
    BY <2>3, <2>4, <2>6
  <2> QED
    BY <1>4, <2>6, <2>7 DEF ToldAt, HeldAt, ShownAt, TaleAt, DoneAt
<1> QED
  BY <1>5, <1>6 DEF LogInv

-----------------------------------------------------------------------------
(* Steps of the world and of undo.                                         *)

LEMMA LogWrite ==
  ASSUME SnapshotInv, LogInv, NEW q \in Paths,
         UNCHANGED <<up, eng, after, logf, journal, nextId, trail, pending>>,
         disk' \in {[disk EXCEPT ![q] = writes + 1], [disk EXCEPT ![q] = Absent]},
         queue' = IF up THEN queue \cup {q} ELSE queue,
         opaque' = IF up THEN opaque ELSE opaque \cup {q},
         Done' = Done, \A p \in Done : undo'.done[p].after = undo.done[p].after
  PROVE  LogInv'
<1>1. UNCHANGED <<up, eng, after, logf, journal, nextId, trail, pending>>
  OBVIOUS
<1>2. ~ up => Waiting' = {}
  BY <1>1 DEF Waiting, LogInv, MirrorInv
<1>3. MirrorInv' /\ Held' = Held
  BY <1>1, <1>2, SameMirror DEF LogInv
<1>4. Mirrored' = Mirrored /\ \A p \in Paths : Shown(p)' = Shown(p) /\ Tale(p)' = Tale(p)
  BY <1>1, SameTale
<1>5. Done' = Done /\ \A p \in Done : undo'.done[p].after = undo.done[p].after
  OBVIOUS
<1>6. Waiting \subseteq Waiting' /\ opaque \subseteq opaque'
      /\ (q \in Waiting' \/ q \in opaque')
  BY <1>1 DEF Waiting
<1>7. \A p \in Paths : p # q => disk'[p] = disk[p] /\ (p \in Waiting' <=> p \in Waiting)
  <2>2. \A p \in Paths : p # q => disk'[p] = disk[p]
    BY DEF SnapshotInv, ContentInv
  <2>3. \A p \in Paths : p # q => (p \in Waiting' <=> p \in Waiting)
    BY <1>1 DEF Waiting
  <2> QED
    BY <2>2, <2>3
<1>8. disk'[q] \in {writes + 1, Absent}
  BY DEF SnapshotInv, ContentInv
<1>9. ASSUME NEW p \in Paths, p \notin opaque' PROVE ToldAt(p)'
  <2>1. ToldAt(p)
    BY <1>6, <1>9 DEF LogInv
  <2>2. CASE p # q
    BY <1>1, <1>3, <1>4, <1>5, <1>7, <2>1, <2>2 DEF ToldAt, HeldAt, ShownAt, TaleAt, DoneAt
  <2>3. CASE p = q
    <3>1. q \in Waiting'
      BY <1>6, <1>9, <2>3
    <3>2. \A v \in Stored : v \in Nat => v # disk'[q]
      <4>1. \A v \in Stored : v \in Nat => v <= writes /\ v # Absent
        BY Typing DEF Stored
      <4> QED
        BY <1>8, <4>1, Typing
    <3>3. Shown(q) \in Values /\ Unknown \notin Nat /\ (q \in Done => undo.done[q].after \in Stored)
      BY Typing
    <3>4. Shown(q) \in Nat => Shown(q) # disk'[q]
      BY <3>2, <3>3 DEF Values
    <3>5. q \in Done /\ undo.done[q].after \in Nat => disk'[q] # undo.done[q].after
      BY <3>2, <3>3
    <3> QED
      BY <1>1, <1>3, <1>4, <1>5, <2>1, <2>3, <3>1, <3>4, <3>5
      DEF ToldAt, HeldAt, ShownAt, TaleAt, DoneAt
  <2> QED
    BY <2>2, <2>3
<1> QED
  BY <1>3, <1>9 DEF LogInv

LEMMA LogEdit ==
  ASSUME SnapshotInv, LogInv, NEW q \in Paths, Edit(q)
  PROVE  LogInv'
<1>1. /\ UNCHANGED <<up, eng, after, logf, journal, nextId, trail, pending, undo>>
      /\ queue' = IF up THEN queue \cup {q} ELSE queue
      /\ opaque' = IF up THEN opaque ELSE opaque \cup {q}
  BY DEF Edit, daemon
<1>2. disk' \in {[disk EXCEPT ![q] = writes + 1], [disk EXCEPT ![q] = Absent]}
  BY DEF Edit
<1>3. Done' = Done
  BY <1>1 DEF Done
<1> QED
  BY <1>1, <1>2, <1>3, LogWrite

(* A write of undo that is cut short is like an edit.                      *)
LEMMA LogTorn ==
  ASSUME SnapshotInv, LogInv, UndoTorn
  PROVE  LogInv'
<1>1. PICK q : q = undo.on.path
  OBVIOUS
<1>2. /\ UNCHANGED <<up, eng, after, logf, journal, nextId, trail, pending>>
      /\ queue' = IF up THEN queue \cup {q} ELSE queue
      /\ opaque' = IF up THEN opaque ELSE opaque \cup {q}
      /\ disk' = [disk EXCEPT ![q] = writes + 1]
  BY <1>1 DEF UndoTorn, daemon
<1>3. q \in Paths
  BY <1>1 DEF SnapshotInv, ContentInv, UndoTorn, Reverting
<1>4. undo'.at = undo.at /\ undo'.done = undo.done
  BY DEF SnapshotInv, UndoInv, UndoTorn, Reverting
<1>5. Done' = Done
  BY <1>4 DEF Done
<1> QED
  BY <1>2, <1>3, <1>4, <1>5, LogWrite

(* Steps that touch neither files nor turns.                               *)
LEMMA LogAside ==
  ASSUME LogInv,
         UNCHANGED <<disk, queue, pending, up, eng, after, logf, journal, nextId, trail>>,
         opaque \subseteq opaque',
         \A p \in Paths \ opaque' :
           /\ p \in Done' <=> p \in Done
           /\ p \in Done => undo'.done[p].after = undo.done[p].after
  PROVE  LogInv'
<1>1. Waiting' = Waiting
  BY DEF Waiting
<1>2. MirrorInv' /\ Held' = Held
  BY <1>1, SameMirror DEF LogInv, MirrorInv
<1>3. Mirrored' = Mirrored /\ \A p \in Paths : Shown(p)' = Shown(p) /\ Tale(p)' = Tale(p)
  BY SameTale
<1>4. ASSUME NEW p \in Paths, p \notin opaque' PROVE ToldAt(p)'
  <2>1. ToldAt(p)
    BY <1>4 DEF LogInv
  <2> QED
    BY <1>1, <1>2, <1>3, <1>4, <2>1 DEF ToldAt, HeldAt, ShownAt, TaleAt, DoneAt
<1> QED
  BY <1>2, <1>4 DEF LogInv

LEMMA LogWorld == ASSUME LogInv, GitTransition \/ Advance PROVE LogInv'
<1>1. /\ UNCHANGED <<disk, queue, pending, up, eng, after, logf, journal, nextId, trail>>
      /\ UNCHANGED <<undo, opaque>>
  BY DEF GitTransition, Advance, daemon, hist, world
<1>2. Done' = Done
  BY <1>1 DEF Done
<1> QED
  BY <1>1, <1>2, LogAside

LEMMA LogPlans ==
  ASSUME SnapshotInv, LogInv,
         \/ \E i \in DOMAIN logf, allow \in BOOLEAN : UndoPlan(i, allow)
         \/ UndoGuard \/ \E p \in Paths : UndoRead(p)
         \/ UndoVerified \/ UndoFail \/ UndoUnverified \/ UndoFinish \/ UndoKilled
  PROVE  LogInv'
<1>1. UNCHANGED <<disk, queue, pending, up, eng, after, logf, journal, nextId, trail>>
  BY DEF UndoPlan, UndoGuard, UndoRead, UndoVerified, UndoFail, UndoUnverified, UndoFinish,
         UndoKilled, daemon, hist, world
<1>2. /\ opaque \subseteq opaque'
      /\ \A p \in Paths \ opaque' : /\ p \in Done' <=> p \in Done
                                    /\ p \in Done => undo'.done[p].after = undo.done[p].after
  <2>1. CASE \E i \in DOMAIN logf, allow \in BOOLEAN : UndoPlan(i, allow)
    <3>1. undo.at = "idle" /\ undo'.at = "plan" /\ UNCHANGED opaque
      BY <2>1 DEF UndoPlan, hist
    <3> QED
      BY <3>1 DEF Done
  <2>2. CASE UndoGuard
    <3>1. /\ undo.at = "plan" /\ UNCHANGED opaque
          /\ undo'.at = "idle" \/ (undo'.at = "revert" /\ undo'.done = << >>)
      BY <2>2 DEF UndoGuard, Idle, hist
    <3> QED
      BY <3>1 DEF Done
  <2>3. CASE (\E p \in Paths : UndoRead(p)) \/ UndoVerified \/ UndoFail
    <3>1. /\ UNCHANGED opaque /\ undo.at = "revert"
          /\ \/ \E o : undo' = [undo EXCEPT !.on = o]
             \/ undo' = [undo EXCEPT !.todo = {}, !.on = None]
      BY <2>3 DEF UndoRead, UndoVerified, UndoFail, Reverting, hist
    <3>2. undo'.at = undo.at /\ undo'.done = undo.done
      BY <3>1 DEF SnapshotInv, UndoInv
    <3> QED
      BY <3>1, <3>2 DEF Done
  <2>6. CASE UndoUnverified
    <3>1. /\ opaque' = opaque \cup {undo.on.path} /\ undo.at = "revert"
          /\ undo' = [undo EXCEPT !.todo = {}, !.on = None,
                                  !.done = [q \in DOMAIN @ \ {undo.on.path} |-> @[q]]]
      BY <2>6 DEF UndoUnverified, Reverting
    <3>2. /\ undo'.at = undo.at
          /\ undo'.done = [q \in DOMAIN undo.done \ {undo.on.path} |-> undo.done[q]]
      BY <3>1 DEF SnapshotInv, UndoInv
    <3>3. Done' = DOMAIN undo.done \ {undo.on.path} /\ Done = DOMAIN undo.done
      BY <3>1, <3>2 DEF Done
    <3> QED
      BY <3>1, <3>2, <3>3
  <2>4. CASE UndoFinish
    <3>1. undo.at = "linger" /\ undo'.at = "idle" /\ UNCHANGED opaque
      BY <2>4 DEF UndoFinish, Idle, hist
    <3> QED
      BY <3>1 DEF Done
  <2>5. CASE UndoKilled
    <3>1. undo'.at = "idle" /\ opaque' = opaque \cup Done
      BY <2>5 DEF UndoKilled, Idle, Done
    <3> QED
      BY <3>1 DEF Done
  <2> QED
    BY <2>1, <2>2, <2>3, <2>4, <2>5, <2>6
<1> QED
  BY <1>1, <1>2, LogAside

LEMMA OneMore ==
  ASSUME NEW s, Sequence(s), Len(s) >= 1, NEW y
  PROVE  Last(Append(s, y)) = y /\ Append(s, y)[1] = s[1]
<1> DEFINE z == Append(s, y)
<1>1. /\ Len(s) \in Nat /\ DOMAIN s = 1 .. Len(s) /\ Len(z) = Len(s) + 1
      /\ z[Len(s) + 1] = y /\ \A i \in DOMAIN s : z[i] = s[i]
  BY AppendSequence
<1>2. 1 \in DOMAIN s
  BY <1>1
<1> HIDE DEF z
<1>3. Last(z) = y /\ z[1] = s[1]
  BY <1>1, <1>2 DEF Last
<1> QED
  BY <1>3 DEF z

(* The mirror of an open turn has its files, with what would be written.   *)
LEMMA JournalIs ==
  ASSUME NEW e, e.open \in OpenTurns, NEW aft \in [Paths -> Contents \cup {Absent, None}],
         NEW j, j = Journal(e, aft)
  PROVE  /\ j # None /\ e.open # None /\ j.id = e.open.id /\ DOMAIN j.files = OpenFiles(e)
         /\ \A p \in DOMAIN j.files : j.files[p].after = aft[p]
<1>1. e.open # None
  BY NoneAssumption
<1>2. PICK g : g = Resolve(e.open.files, aft)
  OBVIOUS
<1>3. j = [id |-> e.open.id, files |-> g]
  BY <1>1, <1>2 DEF Journal
<1>4. PICK F : F = e.open.files
  OBVIOUS
<1>5. e.open.id \in Nat /\ DOMAIN F \subseteq Paths /\ \A p \in DOMAIN F : F[p] \in Sightings
  BY <1>4 DEF OpenTurns
<1>6. /\ DOMAIN g = DOMAIN F /\ g = [p \in DOMAIN g |-> g[p]]
      /\ \A p \in DOMAIN g : g[p].after = aft[p]
  BY <1>2, <1>4 DEF Resolve
<1>7. ASSUME NEW p \in DOMAIN F PROVE g[p] \in Mirrors
  <2>1. g[p] = [ before |-> F[p].before, after |-> aft[p],
                 op |-> IF F[p].status = "deleted" THEN "delete"
                        ELSE IF F[p].before = Absent THEN "create" ELSE "modify",
                 skipped |-> F[p].status = "skipped" ]
    BY <1>2, <1>4 DEF Resolve
  <2>2. F[p].before \in Contents \cup {Absent, Unknown} /\ aft[p] \in Contents \cup {Absent, None}
    BY <1>5 DEF Sightings
  <2> QED
    BY <2>1, <2>2 DEF Mirrors
<1>8. g \in UNION {[P -> Mirrors] : P \in SUBSET Paths}
  <2>1. g \in [DOMAIN g -> Mirrors]
    BY <1>6, <1>7
  <2> QED
    BY <1>5, <1>6, <2>1
<1>9. j # None
  <2>1. j \in Journals
    BY <1>3, <1>5, <1>8 DEF Journals
  <2> QED
    BY <2>1, NoneAssumption
<1> QED
  BY <1>1, <1>3, <1>4, <1>6, <1>9 DEF OpenFiles

LEMMA MirroredIs ==
  ASSUME MirrorInv, up
  PROVE  Mirrored = OpenFiles(eng) /\ \A p \in Mirrored : journal.files[p].after = after[p]
<1>1. CASE eng.open = None
  BY <1>1 DEF MirrorInv, Mirrored, OpenFiles, Journal
<1>2. CASE eng.open # None
  <2>1. eng.open \in OpenTurns /\ journal = Journal(eng, after)
    BY <1>2 DEF MirrorInv
  <2>2. after \in [Paths -> Contents \cup {Absent, None}]
    BY DEF MirrorInv
  <2> QED
    BY <2>1, <2>2, JournalIs DEF Mirrored
<1> QED
  BY <1>1, <1>2

LEMMA LogReverts ==
  ASSUME SnapshotInv, LogInv, NEW q \in Paths, UndoRevert(q)
  PROVE  LogInv'
<1>1. UNCHANGED <<up, eng, after, journal, logf, nextId, pending>>
  BY DEF UndoRevert, daemon
<1>2. PICK v : v = Restored(undo.turn.files[q])
  OBVIOUS
<1>3. disk'[q] = v /\ \A p \in Paths : p # q => disk'[p] = disk[p]
  <2>1. disk' = [disk EXCEPT ![q] = v] /\ DOMAIN disk = Paths
    BY <1>2 DEF UndoRevert, SnapshotInv, ContentInv
  <2> QED
    BY <2>1
<1>4. PICK y : y = Seen(v, "undo", 0)
  OBVIOUS
<1>5. trail'[q] = Append(trail[q], y) /\ \A p \in Paths : p # q => trail'[p] = trail[p]
  <2>1. trail' = [trail EXCEPT ![q] = Append(@, y)] /\ DOMAIN trail = Paths
    BY <1>3, <1>4 DEF UndoRevert, SnapshotInv, EngineInv
  <2> QED
    BY <2>1
<1>6. Shown(q)' = v
  <2>1. Sequence(trail[q]) /\ Len(trail[q]) >= 1
    BY DEF SnapshotInv, EngineInv, TrailOK
  <2>2. Last(trail'[q]) = y
    BY <1>5, <2>1, OneMore
  <2> QED
    BY <1>4, <2>2 DEF Shown, Seen
<1>7. PICK t, d, u, o :
        undo = [at |-> "revert", turn |-> t, todo |-> d, done |-> u, on |-> o]
  BY DEF SnapshotInv, UndoInv, UndoRevert, Reverting
<1>8. PICK w : w = [p \in DOMAIN u \cup {q} |-> IF p = q THEN InverseEntry(undo.turn.files[q], q)
                                                 ELSE u[p]]
  OBVIOUS
<1>9. undo' = [at |-> "revert", turn |-> t, todo |-> d \ {q}, done |-> w, on |-> o]
  BY <1>7, <1>8 DEF UndoRevert
<1>10. /\ undo'.at = "revert" /\ undo'.done = w /\ undo.at = "revert" /\ undo.done = u
       /\ Done' = DOMAIN u \cup {q} /\ Done = DOMAIN u
  BY <1>7, <1>8, <1>9 DEF Done
<1>11. w[q].after = v /\ \A p \in Paths : p # q /\ p \in Done => w[p] = u[p]
  BY <1>2, <1>8, <1>10 DEF InverseEntry
<1>12. /\ \A p \in Paths : p # q => (p \in Waiting' <=> p \in Waiting)
       /\ ~ up => Waiting' = {}
  BY <1>1 DEF UndoRevert, Waiting, LogInv, MirrorInv
<1>13. MirrorInv' /\ Held' = Held /\ Mirrored' = Mirrored
  BY <1>1, <1>12, SameMirror DEF LogInv, Mirrored
<1>14. opaque \subseteq opaque'
  BY DEF UndoRevert
<1>15. ASSUME NEW p \in Paths, p \notin opaque' PROVE ToldAt(p)'
  <2>1. CASE p # q
    <3>1. Shown(p)' = Shown(p) /\ Start(p)' = Start(p)
      BY <1>5, <2>1 DEF Shown, Start
    <3>2. Tale(p)' = Tale(p)
      <4>1. Answer(logf, Start(p), p)' = Answer(logf, Start(p), p)
        BY <1>1, <3>1 DEF Answer
      <4> QED
        BY <1>1, <1>13, <4>1 DEF Tale
    <3>3. /\ p \in Done' <=> p \in Done
          /\ p \in Done => undo'.done[p].after = undo.done[p].after
      BY <1>10, <1>11, <2>1
    <3>4. ToldAt(p)
      BY <1>14, <1>15 DEF LogInv
    <3> QED
      BY <1>1, <1>3, <1>12, <1>13, <2>1, <3>1, <3>2, <3>3, <3>4
      DEF ToldAt, HeldAt, ShownAt, TaleAt, DoneAt
  <2>2. CASE p = q
    <3>1. q \notin Unwritten
      BY <1>15, <2>2 DEF UndoRevert
    <3>2. q \notin Mirrored /\ q \notin FilesOf(eng.recentBare)
      BY <3>1 DEF Unwritten, Mirrored, FilesOf
    <3>3. up => q \notin Held
      BY <3>2, MirroredIs DEF Held, LogInv
    <3>4. q \in Done' /\ undo'.done[q].after = v
      BY <1>10, <1>11
    <3> QED
      BY <1>1, <1>3, <1>6, <1>13, <2>2, <3>2, <3>3, <3>4
      DEF ToldAt, HeldAt, ShownAt, TaleAt, DoneAt
  <2> QED
    BY <2>1, <2>2
<1> QED
  BY <1>13, <1>15 DEF LogInv

(* What a log with one more record says.                                   *)
LEMMA LogAnswers ==
  ASSUME Sequence(logf), NEW r, logf' = Append(logf, r), NEW d, NEW p
  PROVE  Answer(logf', d, p) = IF p \in DOMAIN r.files THEN r.files[p].after ELSE Answer(logf, d, p)
<1>1. PICK z : z = Append(logf, r)
  OBVIOUS
<1>2. PICK u : Range(u) = {r} /\ Longer(z, logf, u)
  BY <1>1, Appended
<1>3. Answer(z, d, p) = IF p \in DOMAIN r.files THEN r.files[p].after ELSE Answer(logf, d, p)
  BY <1>2, AnswerAppended
<1> QED
  BY <1>1, <1>3

LEMMA LoggedOneMore ==
  ASSUME Sequence(logf), NEW r, logf' = Append(logf, r)
  PROVE  Logged' = Logged \cup {r}
<1>1. PICK z : z = Append(logf, r)
  OBVIOUS
<1>2. Range(z) = Range(logf) \cup {r}
  BY <1>1, AppendSequence
<1> QED
  BY <1>1, <1>2 DEF Logged

LEMMA LogRecordsUndo ==
  ASSUME SnapshotInv, LogInv, UndoRecord
  PROVE  LogInv'
<1>1. /\ UNCHANGED <<up, eng, after, journal, trail, disk, queue, pending>>
      /\ undo.at = "revert" /\ undo'.at = "linger" /\ Sequence(logf)
      /\ opaque' = opaque \cup {p \in DOMAIN undo.done : disk[p] # undo.done[p].after}
  BY DEF UndoRecord, Reverting, daemon, world, SnapshotInv, LoggedInv
<1>2. Done' = {} /\ Done = DOMAIN undo.done /\ Waiting' = Waiting /\ Mirrored' = Mirrored
  BY <1>1 DEF Done, Waiting, Mirrored
<1>3. \A p \in Paths : Shown(p)' = Shown(p) /\ Start(p)' = Start(p)
  BY <1>1 DEF Shown, Start
<1>4. /\ nextId \in Nat /\ nextId' \in Nat /\ nextId <= nextId'
      /\ \A r \in Logged' : \/ r \in Logged
                            \/ r.id = nextId /\ nextId' = nextId + 1
      /\ \A p \in Paths : Answer(logf', Start(p), p) =
                            IF p \in Done THEN undo.done[p].after ELSE Answer(logf, Start(p), p)
  <2>1. CASE undo.done = << >>
    <3>1. UNCHANGED <<logf, nextId>> /\ Done = {} /\ nextId \in Nat
      BY <1>2, <2>1 DEF UndoRecord, SnapshotInv, EngineInv
    <3> QED
      BY <3>1 DEF Logged
  <2>2. CASE undo.done # << >>
    <3>1. PICK r : r = [id |-> nextId, by |-> "undo", merges |-> {}, files |-> undo.done]
      OBVIOUS
    <3>2. logf' = Append(logf, r) /\ nextId' = nextId + 1 /\ nextId \in Nat
      BY <2>2, <3>1 DEF UndoRecord, SnapshotInv, EngineInv
    <3>3. Logged' = Logged \cup {r} /\ r.id = nextId /\ r.files = undo.done
      BY <1>1, <3>1, <3>2, LoggedOneMore
    <3>4. \A p \in Paths : Answer(logf', Start(p), p) =
                             IF p \in DOMAIN r.files THEN r.files[p].after
                             ELSE Answer(logf, Start(p), p)
      BY <1>1, <3>2, LogAnswers
    <3> QED
      BY <1>2, <3>2, <3>3, <3>4
  <2> QED
    BY <2>1, <2>2
<1>5. MirrorInv'
  <2>1. Journal(eng, after)' = Journal(eng, after)
    BY <1>1 DEF Journal, Resolve
  <2>2. journal # None => journal.id \in Nat /\ journal.id < nextId
    BY DEF SnapshotInv, LoggedInv
  <2>3. \A r \in Logged' : r.id \in Nat /\ r.id < nextId' /\ (journal # None => r.id # journal.id)
    <3>1. \A r \in Logged : r.id \in Nat /\ r.id < nextId /\ (journal # None => r.id # journal.id)
      BY DEF LogInv, MirrorInv
    <3> QED
      BY <1>4, <2>2, <3>1
  <2> QED
    BY <1>1, <1>2, <2>1, <2>3 DEF LogInv, MirrorInv
<1>6. Held' = Held
  BY <1>1 DEF Held, OpenFiles, FilesOf
<1>7. ASSUME NEW p \in Paths, p \notin opaque' PROVE ToldAt(p)'
  <2>1. ToldAt(p) /\ (p \in Done => disk[p] = undo.done[p].after)
    BY <1>1, <1>2, <1>7 DEF LogInv
  <2>2. HeldAt(p)' /\ ShownAt(p)' /\ DoneAt(p)'
    BY <1>1, <1>2, <1>3, <1>6, <2>1 DEF ToldAt, HeldAt, ShownAt, DoneAt
  <2>3. CASE p \in Mirrored
    <3>1. Tale(p)' = Tale(p)
      BY <1>1, <1>2, <2>3 DEF Tale
    <3> QED
      BY <1>1, <1>2, <1>3, <2>1, <2>2, <2>3, <3>1 DEF ToldAt, TaleAt
  <2>4. CASE p \notin Mirrored /\ p \notin Done
    <3>1. Tale(p)' = Tale(p)
      BY <1>2, <1>3, <1>4, <2>4 DEF Tale
    <3> QED
      BY <1>1, <1>2, <1>3, <2>1, <2>2, <2>4, <3>1 DEF ToldAt, TaleAt
  <2>5. CASE p \notin Mirrored /\ p \in Done
    <3>1. Tale(p)' = undo.done[p].after
      BY <1>2, <1>3, <1>4, <2>5 DEF Tale
    <3>2. Tale(p)' = disk'[p] /\ Shown(p)' = Shown(p)
      BY <1>1, <1>3, <2>1, <2>5, <3>1
    <3>3. \/ Shown(p) \in {undo.done[p].after, Unknown}
          \/ undo.done[p].after = Absent /\ Shown(p) \in Nat
      BY <2>1, <2>5 DEF ToldAt, DoneAt
    <3>4. Shown(p)' \in {Tale(p)', Unknown} \/ (Shown(p)' \in Nat /\ Shown(p)' # disk'[p])
      BY <2>1, <2>5, <3>1, <3>2, <3>3, Typing
    <3> QED
      BY <2>2, <3>2, <3>4 DEF ToldAt, TaleAt
  <2> QED
    BY <2>3, <2>4, <2>5
<1> QED
  BY <1>5, <1>7 DEF LogInv

(* A kill: what waited is lost, and the journal stays as it is.            *)
LEMMA LogCrash ==
  ASSUME SnapshotInv, LogInv, Crash
  PROVE  LogInv'
<1>1. /\ UNCHANGED <<after, logf, journal, nextId, trail, disk, undo>> /\ up' = FALSE
      /\ Waiting' = {} /\ opaque' = opaque \cup Waiting
  BY DEF Crash, Die, Waiting
<1>2. eng'.open = None /\ eng'.pending = << >>
  BY DEF Crash, Die, NewEngine
<1>3. MirrorInv'
  BY <1>1, <1>2 DEF LogInv, MirrorInv, Logged
<1>4. Mirrored' = Mirrored /\ \A p \in Paths : Shown(p)' = Shown(p) /\ Tale(p)' = Tale(p)
  BY <1>1, SameTale
<1>5. Done' = Done
  BY <1>1 DEF Done
<1>6. ASSUME NEW p \in Paths, p \notin opaque' PROVE ToldAt(p)'
  <2>1. ToldAt(p) /\ p \notin Waiting
    BY <1>1, <1>6 DEF LogInv
  <2> QED
    BY <1>1, <1>4, <1>5, <1>6, <2>1 DEF ToldAt, HeldAt, ShownAt, TaleAt, DoneAt
<1> QED
  BY <1>3, <1>6 DEF LogInv

(* A start: what the journal told the log tells.                           *)
LEMMA LogRestart ==
  ASSUME SnapshotInv, LogInv, Restart
  PROVE  LogInv'
<1>1. /\ UNCHANGED <<nextId, disk, undo, opaque, queue, pending, eng>> /\ ~ up /\ up'
      /\ journal' = None /\ after' = [p \in Paths |-> None]
      /\ Sequence(logf) /\ eng = NewEngine
  BY DEF Restart, world, SnapshotInv, LoggedInv, EngineInv
<1>2. Waiting = {} /\ Waiting' = {} /\ Done' = Done /\ Mirrored' = {}
  BY <1>1 DEF Waiting, Done, Mirrored, LogInv, MirrorInv
<1>3. eng'.open = None /\ eng'.pending = << >> /\ Held' = {}
  <2>1. eng'.open = None /\ eng'.pending = << >> /\ eng'.recentBare = {}
    BY <1>1 DEF NewEngine
  <2> QED
    BY <2>1, FilesOfSome DEF Held, OpenFiles
<1>4. ASSUME NEW p \in Paths
      PROVE  /\ Shown(p)' = IF disk[p] = Absent THEN Absent ELSE Unknown
             /\ Start(p)' = Start(p)
  <2>1. PICK b : b = Boot(p)
    OBVIOUS
  <2>2. trail'[p] = Append(trail[p], b) /\ Sequence(trail[p]) /\ Len(trail[p]) >= 1
    BY <2>1 DEF Restart, SnapshotInv, EngineInv, TrailOK
  <2>3. Last(trail'[p]) = b /\ trail'[p][1] = trail[p][1]
    <3>1. Last(Append(trail[p], b)) = b /\ Append(trail[p], b)[1] = trail[p][1]
      BY <2>2, OneMore
    <3> QED
      BY <2>2, <3>1
  <2>4. b.content = IF disk[p] = Absent THEN Absent ELSE Unknown
    BY <2>1 DEF Boot, Seen
  <2> QED
    BY <2>3, <2>4 DEF Shown, Start
<1>5. /\ \A r \in Logged' : r \in Logged \/ (journal # None /\ r.id = journal.id)
      /\ \A p \in Paths : Answer(logf', Start(p), p) = Tale(p)
  <2>1. CASE journal = None
    <3>1. logf' = logf
      BY <2>1 DEF Restart
    <3> QED
      BY <2>1, <3>1 DEF Logged, Tale, Mirrored
  <2>2. CASE journal # None
    <3>1. journal.id \notin LoggedIds
      <4>1. \A r \in Logged : r.id # journal.id
        BY <2>2 DEF LogInv, MirrorInv
      <4>2. \A i \in DOMAIN logf : logf[i] \in Logged
        BY DEF Logged, Range
      <4> QED
        BY <4>1, <4>2 DEF LoggedIds
    <3>2. PICK r : r = [ id |-> journal.id, by |-> "daemon", merges |-> {},
                         files |-> journal.files ]
      OBVIOUS
    <3>3. logf' = Append(logf, r)
      BY <2>2, <3>1, <3>2 DEF Restart
    <3>4. Logged' = Logged \cup {r} /\ r.id = journal.id /\ r.files = journal.files
      BY <1>1, <3>2, <3>3, LoggedOneMore
    <3>5. \A p \in Paths : Answer(logf', Start(p), p) =
                             IF p \in DOMAIN r.files THEN r.files[p].after
                             ELSE Answer(logf, Start(p), p)
      BY <1>1, <3>3, LogAnswers
    <3> QED
      BY <2>2, <3>4, <3>5 DEF Tale, Mirrored
  <2> QED
    BY <2>1, <2>2
<1>6. MirrorInv'
  <2>1. \A r \in Logged' : r.id \in Nat /\ r.id < nextId
    BY <1>5 DEF LogInv, MirrorInv, SnapshotInv, LoggedInv
  <2> QED
    BY <1>1, <1>2, <1>3, <2>1 DEF MirrorInv, Journal
<1>7. ASSUME NEW p \in Paths, p \notin opaque' PROVE ToldAt(p)'
  <2>1. ToldAt(p)
    BY <1>1, <1>7 DEF LogInv
  <2>2. Tale(p)' = Tale(p)
    BY <1>2, <1>4, <1>5 DEF Tale
  <2>3. HeldAt(p)' /\ ShownAt(p)'
    BY <1>1, <1>3, <1>4 DEF HeldAt, ShownAt
  <2>4. TaleAt(p)'
    <3>1. p \notin Done => Tale(p) = disk[p]
      BY <1>2, <2>1 DEF ToldAt, TaleAt
    <3> QED
      BY <1>1, <1>2, <1>4, <2>2, <3>1 DEF TaleAt
  <2>5. DoneAt(p)'
    BY <1>1, <1>2, <1>4, Typing DEF DoneAt, Stored
  <2> QED
    BY <2>2, <2>3, <2>4, <2>5 DEF ToldAt
<1> QED
  BY <1>6, <1>7 DEF LogInv

-----------------------------------------------------------------------------
(* Steps of the daemon.                                                    *)

LEMMA RecordsTouch ==
  ASSUME NEW C, Sequence(C), NEW aft, NEW R, R = Records(C, aft)
  PROVE  /\ Sequence(R)
         /\ \A p : (\E r \in Range(R) : p \in DOMAIN r.files) <=> p \in FilesOf(Range(C))
         /\ \A r \in Range(R) : \A p \in DOMAIN r.files : r.files[p].after = aft[p]
<1>1. Len(C) \in Nat /\ DOMAIN C = 1 .. Len(C)
  BY AnySequence DEF Sequence
<1>2. R = [i \in 1 .. Len(C) |-> Record(C[i], aft)]
  BY <1>1 DEF Records
<1>3. Sequence(R)
  <2>1. R \in [1 .. Len(C) -> Range(R)]
    BY <1>2 DEF Range
  <2> QED
    BY <1>1, <2>1, SeqDef DEF Sequence
<1>4. \A i \in 1 .. Len(C) :
        /\ DOMAIN R[i].files = DOMAIN C[i].files
        /\ \A p \in DOMAIN R[i].files : R[i].files[p].after = aft[p]
  BY <1>2 DEF Record, Resolve
<1>5. DOMAIN R = 1 .. Len(C)
  BY <1>2
<1>6. ASSUME NEW p, NEW r \in Range(R), p \in DOMAIN r.files PROVE p \in FilesOf(Range(C))
  <2>1. PICK i \in 1 .. Len(C) : r = R[i]
    BY <1>5 DEF Range
  <2>2. C[i] \in Range(C) /\ p \in DOMAIN C[i].files
    BY <1>1, <1>4, <1>6, <2>1 DEF Range
  <2> QED
    BY <2>2 DEF FilesOf
<1>7. ASSUME NEW p, p \in FilesOf(Range(C)) PROVE \E r \in Range(R) : p \in DOMAIN r.files
  <2>1. PICK c \in Range(C) : p \in DOMAIN c.files
    BY <1>7 DEF FilesOf
  <2>2. PICK i \in 1 .. Len(C) : c = C[i]
    BY <1>1 DEF Range
  <2>3. R[i] \in Range(R) /\ p \in DOMAIN R[i].files
    BY <1>4, <1>5, <2>1, <2>2 DEF Range
  <2> QED
    BY <2>3
<1>8. ASSUME NEW r \in Range(R), NEW p \in DOMAIN r.files PROVE r.files[p].after = aft[p]
  <2>1. PICK i \in 1 .. Len(C) : r = R[i]
    BY <1>5 DEF Range
  <2> QED
    BY <1>4, <1>8, <2>1
<1> QED
  BY <1>3, <1>6, <1>7, <1>8

LEMMA LogWith ==
  ASSUME Sequence(logf), NEW C, Sequence(C), logf' = logf \o Records(C, after'), NEW d, NEW p
  PROVE  Answer(logf', d, p) = IF p \in FilesOf(Range(C)) THEN after'[p] ELSE Answer(logf, d, p)
<1>1. PICK R : R = Records(C, after')
  OBVIOUS
<1>2. /\ Sequence(R)
      /\ (\E r \in Range(R) : p \in DOMAIN r.files) <=> p \in FilesOf(Range(C))
      /\ \A r \in Range(R) : p \in DOMAIN r.files => r.files[p].after = after'[p]
  BY <1>1, RecordsTouch
<1>3. PICK z : z = logf \o R
  OBVIOUS
<1>4. Longer(z, logf, R)
  BY <1>2, <1>3, Concatenated
<1>5. Answer(z, d, p) = IF p \in FilesOf(Range(C)) THEN after'[p] ELSE Answer(logf, d, p)
  <2>1. Agree(Range(R), p, after'[p])
    BY <1>2 DEF Agree
  <2>2. /\ (\E x \in Range(R) : p \in DOMAIN x.files) => Answer(z, d, p) = after'[p]
        /\ (\A x \in Range(R) : p \notin DOMAIN x.files) => Answer(z, d, p) = Answer(logf, d, p)
    BY <1>4, <2>1, AnswerGrows
  <2> QED
    BY <1>2, <2>2
<1>6. logf' = z
  BY <1>1, <1>3
<1> QED
  BY <1>5, <1>6

(* The daemon observed the files X, and logged the turns C.                *)
Handled(X, C) ==
  /\ UNCHANGED <<disk, undo>> /\ X \subseteq Paths
  /\ Sequence(C) /\ logf' = logf \o Records(C, after')
  /\ opaque \subseteq opaque'
  /\ \A p \in X \ opaque' : after'[p] = disk[p] /\ Shown(p)' = disk[p]
  /\ \A p \in Paths \ X : after'[p] = after[p] /\ Shown(p)' = Shown(p)
  /\ \A p \in Paths : Start(p)' = Start(p)
  /\ \A p \in (Waiting \cap Paths) \ (X \cup opaque') : p \in Waiting' \/ Shown(p) = disk[p]
  /\ Waiting' \subseteq Waiting
  /\ Mirrored \cup X \subseteq Mirrored' \cup FilesOf(Range(C))
  /\ Mirrored' \cup FilesOf(Range(C)) \subseteq Held \cup X
  /\ \A p \in Mirrored' : journal'.files[p].after = after'[p]
  /\ up' => Held' \subseteq Held \cup X

LEMMA HandledIsTold ==
  ASSUME SnapshotInv, LogInv, up, NEW X, NEW C, Handled(X, C),
         NEW p \in Paths, p \notin opaque'
  PROVE  ToldAt(p)'
<1>1. ToldAt(p) /\ p \notin opaque
  BY DEF LogInv, Handled
<1>2. disk'[p] = disk[p] /\ Done' = Done /\ undo' = undo
  BY DEF Handled, Done
<1>3. Tale(p)' = IF p \in Mirrored' \cup FilesOf(Range(C)) THEN after'[p]
                 ELSE Answer(logf, Start(p), p)
  <2>1. Answer(logf', Start(p), p) = IF p \in FilesOf(Range(C)) THEN after'[p]
                                     ELSE Answer(logf, Start(p), p)
    BY LogWith DEF Handled, SnapshotInv, LoggedInv
  <2>2. Answer(logf, Start(p), p)' = Answer(logf', Start(p), p)
    BY DEF Handled
  <2>3. p \in Mirrored' => journal'.files[p].after = after'[p]
    BY DEF Handled
  <2> QED
    BY <2>1, <2>2, <2>3 DEF Tale
<1>4. /\ Shown(p) \in Values /\ disk[p] \in Stored /\ Unknown \notin Nat /\ Absent \notin Nat
      /\ Absent # Unknown /\ (p \in Done => undo.done[p].after \in Stored)
  BY Typing
<1>5. disk[p] # Unknown
  BY <1>4 DEF Stored
<1>6. CASE p \in X
  <2>1. after'[p] = disk[p] /\ Shown(p)' = disk[p] /\ p \in Mirrored' \cup FilesOf(Range(C))
    BY <1>6 DEF Handled
  <2>2. Tale(p)' = disk[p]
    BY <1>3, <2>1
  <2>3. HeldAt(p)' /\ ShownAt(p)' /\ TaleAt(p)'
    BY <1>2, <1>5, <2>1, <2>2 DEF HeldAt, ShownAt, TaleAt
  <2>4. p \in Done =>
          \/ disk[p] = undo.done[p].after
          \/ undo.done[p].after \in Nat /\ disk[p] # undo.done[p].after
          \/ undo.done[p].after = Absent /\ disk[p] \in Nat
    BY <1>4 DEF Stored
  <2>5. DoneAt(p)'
    BY <1>2, <2>1, <2>4 DEF DoneAt
  <2> QED
    BY <2>3, <2>5 DEF ToldAt
<1>7. CASE p \notin X
  <2>1. after'[p] = after[p] /\ Shown(p)' = Shown(p) /\ (p \in Waiting' => p \in Waiting)
    BY <1>7 DEF Handled
  <2>2. p \in Waiting => p \in Waiting' \/ Shown(p) = disk[p]
    BY <1>7 DEF Handled
  <2>3. DoneAt(p)'
    BY <1>1, <1>2, <2>1 DEF ToldAt, DoneAt
  <2>4. HeldAt(p)'
    <3>1. up' /\ p \in Held' => p \in Held
      BY <1>7 DEF Handled
    <3> QED
      BY <1>1, <2>1, <3>1 DEF ToldAt, HeldAt
  <2>5. ShownAt(p)'
    BY <1>1, <1>2, <2>1, <2>2 DEF ToldAt, ShownAt
  <2>6. CASE p \in Mirrored' \cup FilesOf(Range(C))
    <3>1. p \in Held
      BY <1>7, <2>6 DEF Handled
    <3>2. after[p] = Shown(p) /\ Shown(p) # Unknown
      BY <1>1, <3>1 DEF ToldAt, HeldAt
    <3>3. Tale(p)' = Shown(p)
      BY <1>3, <2>1, <2>6, <3>2
    <3>4. p \in Waiting' \/ Shown(p) = disk[p]
      BY <1>1, <2>2, <3>2 DEF ToldAt, ShownAt
    <3>5. TaleAt(p)'
      BY <1>2, <2>1, <3>3, <3>4 DEF TaleAt
    <3> QED
      BY <2>3, <2>4, <2>5, <3>5 DEF ToldAt
  <2>7. CASE p \notin Mirrored' \cup FilesOf(Range(C))
    <3>1. p \notin Mirrored
      BY <2>7 DEF Handled
    <3>2. Tale(p)' = Tale(p)
      BY <1>3, <2>7, <3>1 DEF Tale
    <3>3. ASSUME p \notin Done
          PROVE  /\ p \in Waiting' \/ Tale(p) = disk[p]
                 /\ Shown(p) \in {Tale(p), Unknown} \/ (Shown(p) \in Nat /\ Shown(p) # disk[p])
      <4>1. /\ p \in Waiting \/ Tale(p) = disk[p]
            /\ Shown(p) \in {Tale(p), Unknown} \/ (Shown(p) \in Nat /\ Shown(p) # disk[p])
        BY <1>1, <3>3 DEF ToldAt, TaleAt
      <4> QED
        BY <1>5, <2>2, <4>1
    <3>4. TaleAt(p)'
      BY <1>2, <2>1, <2>7, <3>2, <3>3 DEF TaleAt
    <3> QED
      BY <2>3, <2>4, <2>5, <3>4 DEF ToldAt
  <2> QED
    BY <2>6, <2>7
<1> QED
  BY <1>6, <1>7

(* A batch, and what it leaves of each of its files.                       *)
BatchOf(obs, P, unread) == P \subseteq Paths /\ obs = Observe(P, unread)

BatchTaken(obs, P) ==
  /\ Batch(obs) /\ DOMAIN obs \subseteq P
  /\ after' \in [Paths -> Contents \cup {Absent, None}]
  /\ \A p \in DOMAIN obs \ opaque' : after'[p] = disk[p] /\ Shown(p)' = disk[p]
  /\ \A p \in Paths \ DOMAIN obs : after'[p] = after[p] /\ Shown(p)' = Shown(p)
  /\ \A p \in Paths : Start(p)' = Start(p)

LEMMA BatchIs ==
  ASSUME SnapshotInv, LogInv, up, NEW P, NEW unread, NEW obs, BatchOf(obs, P, unread),
         Stage(obs), NEW id, Follow(obs, id), disk' = disk, unread \subseteq opaque'
  PROVE  BatchTaken(obs, P)
<1> P \subseteq Paths /\ obs = Observe(P, unread)
  BY DEF BatchOf
<1>1. /\ DOMAIN obs \subseteq P /\ DOMAIN obs \subseteq Paths
      /\ obs = [p \in DOMAIN obs |-> obs[p]]
  BY DEF Observe, Reported
<1>2. ASSUME NEW p \in DOMAIN obs
      PROVE  /\ obs[p] = [ before |-> BeforeOf(p), status |-> StatusOf(p, unread),
                           reason |-> IF StatusOf(p, unread) = "skipped" THEN "unreadable"
                                      ELSE None ]
  BY DEF Observe
<1>3. ASSUME NEW p \in Paths
      PROVE  /\ disk[p] \in Contents \cup {Absent} /\ BeforeOf(p) \in Contents \cup {Absent, Unknown}
  <2>1. 0 .. writes \subseteq Contents
    BY ContentAssumption DEF SnapshotInv, ContentInv, Contents
  <2>2. disk[p] \in Contents \cup {Absent}
    BY <2>1, Typing DEF Stored
  <2>3. BySight(trail[p]) /\ SeenBefore(trail[p], Len(trail[p]) + 1) = BeforeOf(p)
    BY DEF SnapshotInv, KnownInv, EngineInv, TrailOK, BySight
  <2>4. Len(trail[p]) \in Nat /\ Len(trail[p]) >= 1 /\ DOMAIN trail[p] = 1 .. Len(trail[p])
    BY <2>3, AnySequence DEF BySight, Sequence
  <2>5. Len(trail[p]) + 1 \in 2 .. Len(trail[p]) + 1
    BY <2>4
  <2>6. PICK j \in 1 .. (Len(trail[p]) + 1) - 1 :
          SeenBefore(trail[p], Len(trail[p]) + 1) = trail[p][j].content
    BY <2>3, <2>5, SeenIs
  <2>7. j \in DOMAIN trail[p]
    BY <2>4, <2>6
  <2>8. BeforeOf(p) \in Values
    BY <2>3, <2>6, <2>7 DEF SnapshotInv, ContentInv
  <2> QED
    BY <2>1, <2>2, <2>8 DEF Values, Stored
<1>4. Batch(obs)
  <2>1. ASSUME NEW p \in DOMAIN obs PROVE obs[p] \in Sightings
    <3>1. BeforeOf(p) \in Contents \cup {Absent, Unknown}
      BY <1>1, <1>3
    <3>2. StatusOf(p, unread) \in {"captured", "deleted", "skipped"}
      BY DEF StatusOf
    <3> QED
      BY <1>2, <3>1, <3>2 DEF Sightings
  <2> QED
    BY <1>1, <2>1 DEF Batch
<1>5. after' = [p \in Paths |-> IF p \notin DOMAIN obs THEN after[p]
                                ELSE IF obs[p].status = "captured" THEN disk[p] ELSE Absent]
  BY DEF Stage
<1>6. after' \in [Paths -> Contents \cup {Absent, None}]
  <2>1. ASSUME NEW p \in Paths PROVE after'[p] \in Contents \cup {Absent, None}
    BY <1>3, <1>5 DEF LogInv, MirrorInv
  <2> QED
    BY <1>5, <2>1
<1>7. ASSUME NEW p \in DOMAIN obs
      PROVE  /\ p \notin opaque' => after'[p] = disk[p] /\ Shown(p)' = disk[p]
             /\ Start(p)' = Start(p)
  <2>1. p \in Paths /\ Sequence(trail[p]) /\ Len(trail[p]) >= 1
    BY <1>1 DEF SnapshotInv, EngineInv, TrailOK
  <2>2. PICK y : y = Seen(IF obs[p].status = "skipped" THEN obs[p].before ELSE disk[p],
                          "daemon", id)
    OBVIOUS
  <2>3. trail'[p] = Append(trail[p], y)
    BY <2>1, <2>2 DEF Follow
  <2>4. Last(trail'[p]) = y /\ trail'[p][1] = trail[p][1]
    <3>1. Last(Append(trail[p], y)) = y /\ Append(trail[p], y)[1] = trail[p][1]
      BY <2>1, OneMore
    <3> QED
      BY <2>3, <3>1
  <2>5. y.content = IF obs[p].status = "skipped" THEN obs[p].before ELSE disk[p]
    BY <2>2 DEF Seen
  <2>6. obs[p].status = StatusOf(p, unread)
    BY <1>2
  <2>7. p \notin opaque' => obs[p].status # "skipped"
    BY <2>6 DEF StatusOf
  <2>8. p \notin opaque' => after'[p] = disk[p]
    BY <1>5, <2>1, <2>6, <2>7 DEF StatusOf
  <2> QED
    BY <2>4, <2>5, <2>7, <2>8 DEF Shown, Start
<1>8. ASSUME NEW p \in Paths, p \notin DOMAIN obs
      PROVE  after'[p] = after[p] /\ Shown(p)' = Shown(p) /\ Start(p)' = Start(p)
  <2>1. trail'[p] = trail[p]
    BY <1>8 DEF Follow
  <2> QED
    BY <1>5, <1>8, <2>1 DEF Shown, Start
<1> QED
  BY <1>1, <1>4, <1>6, <1>7, <1>8 DEF BatchTaken

LEMMA MirroredThen ==
  ASSUME eng'.open = None \/ eng'.open \in OpenTurns,
         after' \in [Paths -> Contents \cup {Absent, None}], journal' = Journal(eng', after')
  PROVE  /\ Mirrored' = OpenFiles(eng')
         /\ \A p \in Mirrored' : journal'.files[p].after = after'[p]
<1>1. CASE eng'.open = None
  BY <1>1 DEF Mirrored, OpenFiles, Journal
<1>2. CASE eng'.open # None
  <2>1. PICK e, aft, j : e = eng' /\ aft = after' /\ j = journal'
    OBVIOUS
  <2>2. e.open \in OpenTurns /\ aft \in [Paths -> Contents \cup {Absent, None}]
        /\ j = Journal(e, aft)
    BY <1>2, <2>1
  <2>3. /\ j # None /\ DOMAIN j.files = OpenFiles(e)
        /\ \A p \in DOMAIN j.files : j.files[p].after = aft[p]
    BY <2>2, JournalIs
  <2> QED
    BY <2>1, <2>3 DEF Mirrored
<1> QED
  BY <1>1, <1>2

(* The ids of the log, of which none is that of the mirrored turn.         *)
LEMMA IdsAfter ==
  ASSUME SnapshotInv, LogInv, LoggedInv', nextId \in Nat, nextId' \in Nat, nextId <= nextId',
         NEW C, ClosedsOK(C, nextId', trail'), logf' = logf \o Records(C, after'),
         journal' # None =>
           /\ up' /\ journal'.id \in Nat
           /\ nextId <= journal'.id \/ (journal # None /\ journal'.id = journal.id)
  PROVE  \A r \in Logged' :
           r.id \in Nat /\ r.id < nextId' /\ (journal' # None => r.id # journal'.id)
<1>1. \A r \in Logged' \ Logged : r.by = "daemon"
  <2>1. PICK z : z = logf \o Records(C, after')
    OBVIOUS
  <2>2. \A r \in Range(z) \ Logged : RecordOf(r, C, nextId', trail')
    BY <2>1, LogGrows DEF SnapshotInv, LoggedInv
  <2>3. Logged' = Range(z)
    BY <2>1 DEF Logged
  <2> QED
    BY <2>2, <2>3 DEF RecordOf
<1>2. ASSUME NEW r \in Logged', r \in Logged
      PROVE  r.id \in Nat /\ r.id < nextId' /\ (journal' # None => r.id # journal'.id)
  <2>1. r.id \in Nat /\ r.id < nextId /\ (journal # None => r.id # journal.id)
    BY <1>2 DEF LogInv, MirrorInv
  <2> QED
    BY <2>1
<1>3. ASSUME NEW r \in Logged', r \notin Logged
      PROVE  r.id \in Nat /\ r.id < nextId' /\ (journal' # None => r.id # journal'.id)
  <2>1. r \in ByDaemon' /\ r.id \in Family(r)
    BY <1>1, <1>3 DEF ByDaemon, Family
  <2>2. /\ r.id \in Nat /\ r.id < nextId'
        /\ eng'.open # None => r.id < eng'.open.id
    BY <2>1 DEF LoggedInv
  <2>3. journal' # None => eng'.open # None /\ journal'.id = eng'.open.id
    BY DEF LoggedInv
  <2>4. journal' # None => r.id < journal'.id
    BY <2>2, <2>3
  <2> QED
    BY <2>2, <2>4
<1> QED
  BY <1>2, <1>3

(* What an iteration does with the files of turns.                         *)
Joined(C, closed, more) == C = closed \o more

FilesPass(obs, C) ==
  /\ OpenFiles(eng) \cup DOMAIN obs \subseteq OpenFiles(eng') \cup FilesOf(Range(C))
  /\ OpenFiles(eng') \cup FilesOf(eng'.recentBare) \cup FilesOf(Range(C))
       \subseteq Held \cup DOMAIN obs
  /\ eng'.open = None \/ eng'.open \in OpenTurns
  /\ eng'.pending = << >>
  /\ ClosedsOK(C, nextId', trail')

LEMMA IteratePasses ==
  ASSUME SnapshotInv, LogInv, up,
         NEW sig \in {"start", "stop", None}, NEW unread, NEW kept, NEW obs, NEW w, NEW seen,
         NEW id, NEW told, NEW done,
         Iterated(sig, unread, kept, obs, w, seen, id, told, done),
         Between(w, seen, id, told, done), Batch(obs),
         NEW C, Joined(C, told.closed, done.closed)
  PROVE  FilesPass(obs, C)
<1>1. /\ nextId \in Nat \ {0} /\ now \in Nat /\ TrailOK(trail, nextId)
      /\ EngineOK(eng, nextId, now, trail)
      /\ eng.open = None \/ eng.open \in OpenTurns
      /\ eng.pending = << >>
  BY DEF SnapshotInv, EngineInv, LogInv, MirrorInv
<1>2. /\ EngineOK(w, nextId, now, trail) /\ EngineOK(seen.eng, id, now, trail')
      /\ id \in Nat \ {0} /\ EngineOK(told.eng, nextId', now, trail') /\ nextId' \in Nat
      /\ Handed(told.closed, told.eng, nextId', trail')
      /\ Handed(done.closed, eng', nextId', trail')
  BY DEF Between
<1>3. /\ w \in {eng, ObserveGitChange(eng, now)} /\ seen = ObserveChanges(w, now, obs, nextId)
      /\ told = Signal(sig, seen.eng, id) /\ done = Tick(told.eng, now) /\ eng' = done.eng
  BY DEF Iterated
<1>4. PassesOn(eng, w, << >>, {})
  <2>1. CASE w = eng
    BY <1>1, <2>1, FilesOfSome DEF PassesOn
  <2>2. CASE w = ObserveGitChange(eng, now)
    BY <1>1, <2>2, GitPasses
  <2> QED
    BY <1>3, <2>1, <2>2
<1>5. w.open = None \/ w.open \in OpenTurns
  BY <1>4 DEF PassesOn
<1>6. PassesOn(w, seen.eng, << >>, DOMAIN obs)
  BY <1>1, <1>2, <1>3, <1>5, ChangePasses
<1>7. seen.eng.open = None \/ seen.eng.open \in OpenTurns
  BY <1>6 DEF PassesOn
<1>8. PassesOn(seen.eng, told.eng, told.closed, {})
  BY <1>1, <1>2, <1>3, <1>7, SignalPasses
<1>9. told.eng.open = None \/ told.eng.open \in OpenTurns
  BY <1>8 DEF PassesOn
<1>10. PassesOn(told.eng, eng', done.closed, {}) /\ eng'.pending = << >>
  <2>1. PassesOn(told.eng, done.eng, done.closed, {}) /\ done.eng.pending = << >>
    BY <1>1, <1>2, <1>3, <1>9, TickPasses
  <2> QED
    BY <1>3, <2>1
<1>11. ClosedsOK(C, nextId', trail') /\ Range(C) = Range(told.closed) \cup Range(done.closed)
  <2>1. Sequence(C) /\ Range(C) = Range(told.closed) \cup Range(done.closed)
    BY <1>2, ConcatSequence DEF Handed, ClosedsOK, Joined
  <2> QED
    BY <1>2, <2>1 DEF Handed, ClosedsOK
<1>12. /\ FilesOf(Range(C)) = FilesOf(Range(told.closed)) \cup FilesOf(Range(done.closed))
       /\ FilesOf(Range(<< >>)) = {}
  BY <1>11, FilesOfSome
<1>13. /\ Owed(eng) \cup DOMAIN obs \subseteq Owed(eng') \cup FilesOf(Range(C))
       /\ Carried(eng') \cup FilesOf(Range(C)) \subseteq Carried(eng) \cup DOMAIN obs
       /\ eng'.open = None \/ eng'.open \in OpenTurns
  <2>1. /\ Owed(eng) \subseteq Owed(w) /\ Owed(w) \cup DOMAIN obs \subseteq Owed(seen.eng)
        /\ Carried(w) \subseteq Carried(eng)
        /\ Carried(seen.eng) \subseteq Carried(w) \cup DOMAIN obs
    BY <1>4, <1>6, <1>12 DEF PassesOn
  <2>2. /\ Owed(seen.eng) \subseteq Owed(told.eng) \cup FilesOf(Range(told.closed))
        /\ Carried(told.eng) \cup FilesOf(Range(told.closed)) \subseteq Carried(seen.eng)
    BY <1>8 DEF PassesOn
  <2>3. /\ Owed(told.eng) \subseteq Owed(eng') \cup FilesOf(Range(done.closed))
        /\ Carried(eng') \cup FilesOf(Range(done.closed)) \subseteq Carried(told.eng)
        /\ eng'.open = None \/ eng'.open \in OpenTurns
    BY <1>10 DEF PassesOn
  <2> QED
    BY <1>12, <2>1, <2>2, <2>3
<1>14. /\ Owed(eng) = OpenFiles(eng) /\ Carried(eng) = Held
       /\ Owed(eng') = OpenFiles(eng')
       /\ Carried(eng') = OpenFiles(eng') \cup FilesOf(eng'.recentBare)
  BY <1>1, <1>10, <1>12 DEF Owed, Carried, Held
<1> QED
  BY <1>10, <1>11, <1>13, <1>14 DEF FilesPass

LEMMA LogIterate ==
  ASSUME SnapshotInv, SnapshotInv', LogInv, NEW sig \in {"start", "stop", None},
         NEW unread \in SUBSET Paths, Iterate(sig, unread)
  PROVE  LogInv'
<1>1. PICK kept, obs, w, seen, id, told, done :
        Iterated(sig, unread, kept, obs, w, seen, id, told, done)
  BY IterateIs
<1>2. /\ up /\ up' /\ UNCHANGED <<disk, writes, up, undo>>
      /\ queue' = {} /\ (pending' = {} \/ pending' = pending \cup queue)
  BY DEF Iterate
<1>3. /\ kept \subseteq pending \cup queue
      /\ obs = Observe(kept, unread) /\ Stage(obs) /\ Follow(obs, seen.eng.open.id)
      /\ logf' = logf \o Records(told.closed \o done.closed, after')
      /\ journal' = Journal(eng', after')
      /\ opaque \cup unread \subseteq opaque'
      /\ pending' = pending \cup queue \/ Unrecorded(pending \cup queue, obs) \subseteq opaque'
  BY <1>1 DEF Iterated
<1>4. kept \subseteq Paths /\ Waiting \subseteq Paths
  BY <1>3 DEF SnapshotInv, ContentInv, Waiting
<1>5. /\ Batch(obs) /\ DOMAIN obs \subseteq kept
      /\ after' \in [Paths -> Contents \cup {Absent, None}]
      /\ \A p \in DOMAIN obs \ opaque' : after'[p] = disk[p] /\ Shown(p)' = disk[p]
      /\ \A p \in Paths \ DOMAIN obs : after'[p] = after[p] /\ Shown(p)' = Shown(p)
      /\ \A p \in Paths : Start(p)' = Start(p)
  <2>1. disk' = disk /\ up /\ unread \subseteq opaque' /\ Stage(obs)
    BY <1>2, <1>3
  <2>2. PICK i : Follow(obs, i)
    BY <1>3
  <2>3. BatchOf(obs, kept, unread)
    BY <1>3, <1>4 DEF BatchOf
  <2>4. BatchTaken(obs, kept)
    BY <2>1, <2>2, <2>3, BatchIs
  <2> QED
    BY <2>4 DEF BatchTaken
<1>6. Between(w, seen, id, told, done)
  BY <1>1, <1>2, EnginesBetween
<1>7. PICK C : C = told.closed \o done.closed /\ Joined(C, told.closed, done.closed)
  BY DEF Joined
<1>8. /\ OpenFiles(eng) \cup DOMAIN obs \subseteq OpenFiles(eng') \cup FilesOf(Range(C))
      /\ OpenFiles(eng') \cup FilesOf(eng'.recentBare) \cup FilesOf(Range(C))
           \subseteq Held \cup DOMAIN obs
      /\ eng'.open = None \/ eng'.open \in OpenTurns
      /\ eng'.pending = << >>
      /\ ClosedsOK(C, nextId', trail')
  <2>1. up /\ Batch(obs) /\ Joined(C, told.closed, done.closed)
    BY <1>2, <1>5, <1>7
  <2>2. FilesPass(obs, C)
    BY <1>1, <1>6, <2>1, IteratePasses
  <2> QED
    BY <2>2 DEF FilesPass
<1>9. /\ Mirrored' = OpenFiles(eng')
      /\ \A p \in Mirrored' : journal'.files[p].after = after'[p]
  BY <1>3, <1>5, <1>8, MirroredThen
<1>10. Mirrored = OpenFiles(eng)
  BY <1>2, MirroredIs DEF LogInv
<1>11. Held' = OpenFiles(eng') \cup FilesOf(eng'.recentBare)
  BY DEF Held, OpenFiles, FilesOf
<1>12. Waiting' = pending' /\ Waiting' \subseteq Waiting
  BY <1>2 DEF Waiting
<1>13. \A p \in (Waiting \cap Paths) \ (DOMAIN obs \cup opaque') :
         p \in Waiting' \/ Shown(p) = disk[p]
  BY <1>3, <1>12 DEF Waiting, Unrecorded, Shown
<1>14. Handled(DOMAIN obs, C)
  <2>1. Sequence(C) /\ DOMAIN obs \subseteq Paths /\ logf' = logf \o Records(C, after')
    BY <1>3, <1>4, <1>5, <1>7, <1>8 DEF ClosedsOK
  <2> QED
    BY <1>2, <1>3, <1>5, <1>8, <1>9, <1>10, <1>11, <1>12, <1>13, <2>1 DEF Handled
<1>15. \A p \in Paths \ opaque' : ToldAt(p)'
  BY <1>2, <1>14, HandledIsTold
<1>16. ASSUME journal' # None
       PROVE  /\ up' /\ journal'.id \in Nat
              /\ nextId <= journal'.id \/ (journal # None /\ journal'.id = journal.id)
  <2>1. journal'.id \in Nat /\ eng'.open # None /\ journal'.id = eng'.open.id
    BY <1>2, <1>16 DEF SnapshotInv, LoggedInv
  <2>2. \/ eng'.open.id = nextId \/ eng'.open.id = id
        \/ eng.open # None /\ eng'.open.id = eng.open.id
    BY <1>6, <2>1 DEF Between
  <2>3. nextId <= id /\ nextId \in Nat
    BY <1>6 DEF Between, SnapshotInv, EngineInv
  <2>4. eng.open # None => journal # None /\ journal.id = eng.open.id
    BY <1>2, JournalIs DEF LogInv, MirrorInv
  <2> QED
    BY <1>2, <2>1, <2>2, <2>3, <2>4
<1>17. \A r \in Logged' :
         r.id \in Nat /\ r.id < nextId' /\ (journal' # None => r.id # journal'.id)
  <2>1. nextId \in Nat /\ nextId' \in Nat /\ nextId <= nextId'
    <3>1. /\ nextId \in Nat /\ id \in Nat /\ nextId' \in Nat /\ nextId <= id /\ id <= nextId'
      BY <1>6 DEF Between, SnapshotInv, EngineInv
    <3> QED
      BY <3>1
  <2>2. LoggedInv' /\ logf' = logf \o Records(C, after')
    BY <1>3, <1>7 DEF SnapshotInv
  <2> QED
    BY <1>8, <1>16, <2>1, <2>2, IdsAfter
<1>18. MirrorInv'
  <2>1. Journal(eng, after)' = Journal(eng', after')
    BY DEF Journal, Resolve
  <2> QED
    BY <1>2, <1>3, <1>5, <1>8, <1>17, <2>1 DEF MirrorInv
<1> QED
  BY <1>15, <1>18 DEF LogInv

LEMMA LogShutdown ==
  ASSUME SnapshotInv, SnapshotInv', LogInv, NEW unread \in SUBSET Paths, Shutdown(unread)
  PROVE  LogInv'
<1>1. PICK obs : obs = Observe(pending, unread)
  OBVIOUS
<1>2. PICK seen : seen = ObserveChanges(eng, now, obs, nextId)
  OBVIOUS
<1>3. PICK C : C = ForceClose(seen.eng, now).closed
  OBVIOUS
<1>4. /\ Stage(obs) /\ Follow(obs, seen.eng.open.id)
      /\ nextId' = IF seen.reserved THEN nextId + 1 ELSE nextId
      /\ logf' = logf \o Records(C, after') /\ journal' = None
      /\ opaque' = opaque \cup unread \cup queue \cup Unrecorded(pending, obs)
  BY <1>1, <1>2, <1>3 DEF Shutdown
<1>5. /\ up /\ up' = FALSE /\ eng'.open = None /\ eng'.pending = << >>
      /\ UNCHANGED <<disk, writes, now, undo>> /\ queue' = {} /\ pending' = {}
  BY DEF Shutdown, Die, NewEngine
<1>6. /\ nextId \in Nat \ {0} /\ now \in Nat /\ TrailOK(trail, nextId)
      /\ EngineOK(eng, nextId, now, trail) /\ pending \subseteq Paths
      /\ eng.open = None \/ eng.open \in OpenTurns
      /\ eng.pending = << >>
  BY DEF SnapshotInv, EngineInv, ContentInv, LogInv, MirrorInv
<1>7. /\ Batch(obs) /\ DOMAIN obs \subseteq pending
      /\ after' \in [Paths -> Contents \cup {Absent, None}]
      /\ \A p \in DOMAIN obs \ opaque' : after'[p] = disk[p] /\ Shown(p)' = disk[p]
      /\ \A p \in Paths \ DOMAIN obs : after'[p] = after[p] /\ Shown(p)' = Shown(p)
      /\ \A p \in Paths : Start(p)' = Start(p)
  <2>1. unread \subseteq opaque'
    BY <1>4
  <2> QED
    <3>1. disk' = disk /\ up /\ Stage(obs)
      BY <1>4, <1>5
    <3>2. PICK i : Follow(obs, i)
      BY <1>4
    <3>3. BatchOf(obs, pending, unread)
      BY <1>1, <1>6 DEF BatchOf
    <3>4. BatchTaken(obs, pending)
      BY <2>1, <3>1, <3>2, <3>3, BatchIs
    <3> QED
      BY <3>4 DEF BatchTaken
<1>8. EngineOK(seen.eng, nextId', now, trail') /\ nextId' \in Nat /\ nextId <= nextId'
  <2>1. Staged(trail, obs) /\ Followed(trail, trail', obs, seen.eng.open.id)
    BY <1>1, <1>4, <1>5, <1>6, Observing
  <2>2. Changed(eng, nextId, now, trail, seen.eng, nextId', trail')
    <3>1. trail' = [p \in Paths |-> trail'[p]]
      BY <1>1, <1>4, <1>5, <1>6, Observing
    <3> QED
      BY <1>2, <1>4, <1>6, <2>1, <3>1, Changes
  <2> QED
    BY <2>2 DEF Changed
<1>9. ClosedsOK(C, nextId', trail')
  BY <1>3, <1>8, ForcesClosed
<1>10. PassesOn(eng, seen.eng, << >>, DOMAIN obs) /\ seen.eng.pending = << >>
  BY <1>2, <1>6, <1>7, ChangePasses
<1>11. FilesOf(Range(C)) = OpenFiles(seen.eng)
  <2>1. C = IF seen.eng.open = None THEN << >> ELSE <<CloseOnOwnTerms(seen.eng.open, now)>>
    BY <1>3 DEF ForceClose, Result
  <2> QED
    BY <1>8, <2>1, AlonePasses
<1>12. /\ OpenFiles(eng) \cup DOMAIN obs \subseteq FilesOf(Range(C))
       /\ FilesOf(Range(C)) \subseteq Held \cup DOMAIN obs
  <2>1. FilesOf(Range(<< >>)) = {}
    BY FilesOfSome
  <2>2. /\ Owed(eng) = OpenFiles(eng) /\ Carried(eng) = Held
        /\ Owed(seen.eng) = OpenFiles(seen.eng) /\ OpenFiles(seen.eng) \subseteq Carried(seen.eng)
    BY <1>6, <1>10, <2>1 DEF Owed, Carried, Held
  <2> QED
    BY <1>10, <1>11, <2>1, <2>2 DEF PassesOn
<1>13. Mirrored = OpenFiles(eng) /\ Mirrored' = {} /\ Waiting' = {}
  <2>1. Mirrored = OpenFiles(eng)
    BY <1>5, MirroredIs DEF LogInv
  <2> QED
    BY <1>4, <1>5, <2>1 DEF Mirrored, Waiting
<1>14. \A p \in (Waiting \cap Paths) \ (DOMAIN obs \cup opaque') :
         p \in Waiting' \/ Shown(p) = disk[p]
  BY <1>4 DEF Waiting, Unrecorded, Shown
<1>15. Handled(DOMAIN obs, C)
  <2>1. Sequence(C) /\ DOMAIN obs \subseteq Paths /\ opaque \subseteq opaque'
    BY <1>4, <1>6, <1>7, <1>9 DEF ClosedsOK
  <2> QED
    BY <1>4, <1>5, <1>7, <1>12, <1>13, <1>14, <2>1 DEF Handled
<1>16. \A p \in Paths \ opaque' : ToldAt(p)'
  BY <1>5, <1>15, HandledIsTold
<1>17. \A r \in Logged' :
         r.id \in Nat /\ r.id < nextId' /\ (journal' # None => r.id # journal'.id)
  BY <1>4, <1>6, <1>8, <1>9, IdsAfter DEF SnapshotInv
<1>18. MirrorInv'
  BY <1>5, <1>7, <1>13, <1>17 DEF MirrorInv
<1> QED
  BY <1>16, <1>18 DEF LogInv

LEMMA LogStep == SnapshotInv /\ SnapshotInv' /\ LogInv /\ [Next]_vars => LogInv'
<1> SUFFICES ASSUME SnapshotInv, SnapshotInv', LogInv, [Next]_vars PROVE LogInv'
  OBVIOUS
<1>1. CASE UNCHANGED vars
  <2>1. /\ UNCHANGED <<disk, queue, pending, up, eng, after, logf, journal, nextId, trail>>
        /\ UNCHANGED <<undo, opaque>>
    BY <1>1 DEF vars
  <2>2. Done' = Done
    BY <2>1 DEF Done
  <2> QED
    BY <2>1, <2>2, LogAside
<1>2. CASE \E p \in Paths : Edit(p)
  BY <1>2, LogEdit
<1>3. CASE GitTransition \/ Advance
  BY <1>3, LogWorld
<1>4. CASE \E sig \in {"start", "stop", None}, unread \in SUBSET Paths : Iterate(sig, unread)
  BY <1>4, LogIterate
<1>5. CASE \E unread \in SUBSET Paths : Shutdown(unread)
  BY <1>5, LogShutdown
<1>6. CASE Crash
  BY <1>6, LogCrash
<1>7. CASE Restart
  BY <1>7, LogRestart
<1>8. CASE \/ \E i \in DOMAIN logf, allow \in BOOLEAN : UndoPlan(i, allow)
           \/ UndoGuard \/ \E p \in Paths : UndoRead(p)
           \/ UndoVerified \/ UndoFail \/ UndoUnverified \/ UndoFinish \/ UndoKilled
  BY <1>8, LogPlans
<1>9. CASE \E p \in Paths : UndoRevert(p)
  BY <1>9, LogReverts
<1>10. CASE UndoRecord
  BY <1>10, LogRecordsUndo
<1>11. CASE UndoTorn
  BY <1>11, LogTorn
<1> QED
  BY <1>1, <1>2, <1>3, <1>4, <1>5, <1>6, <1>7, <1>8, <1>9, <1>10, <1>11 DEF Next

LEMMA LogHolds == Spec => [](SnapshotInv /\ LogInv)
<1>1. Init => SnapshotInv /\ LogInv
  BY Initially, LogInitially
<1>2. SnapshotInv /\ LogInv /\ [Next]_vars => (SnapshotInv /\ LogInv)'
  BY EveryStep, LogStep
<1> QED
  BY <1>1, <1>2, PTL DEF Spec

(* When nothing is under way, the last record of a file tells what the     *)
(* file holds, for any files and any bounds, with the exceptions that      *)
(* `opaque` lists.                                                         *)
THEOREM LogTellsDisk == Spec => []LogExplainsDisk
<1>1. SnapshotInv /\ LogInv => LogExplainsDisk
  <2> SUFFICES ASSUME SnapshotInv, LogInv, Quiescent, NEW p \in Paths, p \notin opaque
               PROVE  IF \E r \in Logged : p \in DOMAIN r.files
                      THEN logf[LastRecordOf(p)].files[p].after = disk[p]
                      ELSE disk[p] \in {0, Absent}
    BY DEF LogExplainsDisk
  <2>1. up /\ p \notin Waiting /\ Done = {} /\ eng.open = None
    BY DEF Quiescent, Waiting, Done
  <2>2. Mirrored = {}
    BY <2>1, MirroredIs DEF OpenFiles, LogInv
  <2>3. Answer(logf, Start(p), p) = disk[p]
    BY <2>1, <2>2 DEF LogInv, ToldAt, TaleAt, Tale
  <2>4. CASE ~ \E r \in Logged : p \in DOMAIN r.files
    BY <2>3, <2>4 DEF Answer, Logged, Start
  <2>5. CASE \E r \in Logged : p \in DOMAIN r.files
    <3>1. Sequence(logf) /\ \E r \in Range(logf) : p \in DOMAIN r.files
      BY <2>5 DEF SnapshotInv, LoggedInv, Logged
    <3>2. PICK d : d = Start(p)
      OBVIOUS
    <3>3. PICK i \in DOMAIN logf :
            /\ p \in DOMAIN logf[i].files /\ Answer(logf, d, p) = logf[i].files[p].after
            /\ \A j \in DOMAIN logf : p \in DOMAIN logf[j].files => j <= i
      BY <3>1, AnswerOf
    <3>4. PICK S : S = {j \in DOMAIN logf : p \in DOMAIN logf[j].files}
      OBVIOUS
    <3>5. i \in S /\ (\A j \in S : j <= i) /\ \A j \in S : j \in Nat
      <4>1. \A j \in DOMAIN logf : j \in Nat
        BY <3>1, AnySequence DEF Sequence
      <4> QED
        BY <3>3, <3>4, <4>1
    <3>6. \A k \in S : (\A j \in S : j <= k) => k = i
      <4>1. \A k \in S : (\A j \in S : j <= k) => k <= i /\ i <= k /\ k \in Nat /\ i \in Nat
        BY <3>5
      <4> QED
        BY <4>1
    <3>7. LastRecordOf(p) = i
      BY <3>4, <3>5, <3>6 DEF LastRecordOf
    <3> QED
      BY <2>3, <2>5, <3>2, <3>3, <3>7
  <2> QED
    BY <2>4, <2>5
<1> QED
  BY <1>1, LogHolds, PTL
=============================================================================
