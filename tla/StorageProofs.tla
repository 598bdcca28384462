---------------------------- MODULE StorageProofs ----------------------------
(***************************************************************************)
(* What Storage never loses, for any contents, paths, budget and bounds:   *)
(* the turns of a log that is rewritten while others append to it, the     *)
(* contents the crash journal names, and what an eviction pass must spare. *)
(***************************************************************************)
EXTENDS Storage, SequenceTheorems, FiniteSetTheorems, WellFoundedInduction, TLAPS

Contents == Hashes \cup {None}
Entries == [path : Paths, before : Contents, after : Contents]
Lines == [ kind : {"turn", "torn", "garbled"}, id : Nat, at : {0, 1},
           files : SUBSET Entries, prompt : Contents ]
TurnLines == {r \in Lines : IsTurn(r)}
Captures == [kind : {"capture"}, hash : Hashes]

(* The files, and what the processes remember of them.                     *)
FileTypes ==
  /\ log \in Seq(Lines) /\ journal \in TurnLines \cup {None}
  /\ seen \in [Paths -> Contents] /\ era \in {0, 1} /\ pins \subseteq Hashes

LeftTypes ==
  left \in [ turns : Nat, records : Nat, writes : Nat, purges : Nat,
             passes : Nat, crashes : Nat,
             ops : SUBSET Operations, by : SUBSET OtherWriters ]

RecorderTypes ==
  recorder \in [ pc : {"down", "up", "load", "plan", "evict"},
                 log : Seq(Lines), victims : SUBSET Hashes, fresh : SUBSET Hashes,
                 touched : SUBSET Hashes, promised : SUBSET Hashes,
                 spared : SUBSET Hashes ]

WriterTypes ==
  writer \in {Quiet} \cup [ kind : {"write"}, record : TurnLines \cup Captures,
                            put : SUBSET Hashes ]

PurgerTypes ==
  purger \in [ pc : {"idle", "prompts", "takePrompts", "op", "rescan", "take",
                     "archived", "rename"},
               op : Operations \cup {"none"}, cut : Nat, path : Paths \cup {None},
               lines : Seq(Lines), cand : SUBSET Hashes, overlap : BOOLEAN,
               fresh : SUBSET Hashes ]

StorageTypes == FileTypes /\ LeftTypes /\ RecorderTypes /\ WriterTypes /\ PurgerTypes

(* The plan of a pass leaves out what it must spare, and what is put and   *)
(* named while it runs is fresh.                                           *)
PassSpares ==
  /\ ~ Judging => recorder.promised = {}
  /\ Judging =>
       /\ recorder.victims \cap JournalRefs = {}
       /\ recorder.victims \cap PromptRefs(TurnSet(recorder.log)) = {}
       /\ Cardinality(TurnsAt(recorder.log)) > 1 =>
            recorder.victims \cap Blobs(recorder.log[Newest(recorder.log)]) = {}
       /\ recorder.promised \subseteq recorder.fresh
       /\ writer # Quiet => writer.put \subseteq recorder.fresh

(* What the journal says the files of the open turn hold.                  *)
JournalAfters == IF journal = None THEN {} ELSE {e.after : e \in journal.files}

(* A purge that reads open.json runs without a recorder, or knows that one *)
(* came; what it is about to take is not in the journal, or was put since. *)
PurgeSpares ==
  /\ purger.pc = "idle" => purger.op = "none"
  /\ purger.pc \in {"prompts", "takePrompts", "op", "archived", "rename"} =>
       purger.op # "path"
  /\ purger.pc = "rescan" => purger.op = "path"
  /\ purger.pc = "take" => purger.op \in {"date", "path", "orphans"}
  /\ purger.op = "path" /\ ~ purger.overlap =>
       ~ RecorderLives /\ purger.cand \cap JournalRefs = {}
  /\ purger.pc = "take" /\ purger.op = "orphans" =>
       purger.cand \cap JournalAfters \subseteq purger.fresh

TurnIds(lines) == {t.id : t \in TurnSet(lines)}

(* The log that a rewrite has read is the log, unless the log has grown;   *)
(* from the second look on only excused turns are appended.                *)
RewriteReads ==
  /\ purger.pc = "archived" =>
       \/ Len(log) > Len(purger.lines)
       \/ Len(log) = Len(purger.lines) /\ TurnSet(log) = TurnSet(purger.lines)
  /\ purger.pc = "rename" => ids \subseteq TurnIds(purger.lines)

(* What the log that a pass has read names, less what it must spare, what  *)
(* was put meanwhile and what it is still to remove, is within the budget. *)
NewestBlobs(lines) == IF Cardinality(TurnsAt(lines)) > 1 THEN Blobs(lines[Newest(lines)]) ELSE {}
Unexcused(lines, spared) ==
  Snapshots(TurnSet(lines)) \ (spared \cup PromptRefs(TurnSet(lines)) \cup NewestBlobs(lines))
Weight(store, S) == Cardinality(S \cap store) + Cardinality((S \cap store) \cap Big)

PassShrinks ==
  /\ recorder.fresh \subseteq recorder.touched
  /\ Judging =>
       Weight(objects, Unexcused(recorder.log, recorder.spared)
                         \ (recorder.touched \cup recorder.victims)) <= Budget

StorageInv ==
  /\ StorageTypes /\ PassSpares /\ PassShrinks /\ PurgeSpares /\ RewriteReads
  /\ LogAppendsSurvive /\ JournalRecoverable

-----------------------------------------------------------------------------
(* Sets of line numbers.                                                   *)

LEMMA LeastOf ==
  ASSUME NEW S \in SUBSET Nat, S # {}
  PROVE  \E m \in S : \A n \in S : m <= n
<1>1. PICK m \in S : \A n \in S : ~ (<<n, m>> \in OpToRel(<, Nat))
  BY NatLessThanWellFounded, WFMin
<1>2. \A n \in S : ~ (n < m)
  BY <1>1 DEF OpToRel
<1> QED
  BY <1>2

LEMMA MaxOf ==
  ASSUME NEW S \in SUBSET Nat, S # {}, NEW n \in Nat, \A x \in S : x <= n
  PROVE  Max(S) \in S /\ \A x \in S : x <= Max(S)
<1> DEFINE T == {n - x : x \in S}
<1>1. T \in SUBSET Nat /\ T # {}
  <2>1. \A x \in S : x \in Nat /\ x <= n /\ n - x \in Nat
    OBVIOUS
  <2> QED
    BY <2>1
<1>2. PICK m \in T : \A y \in T : m <= y
  BY <1>1, LeastOf
<1>3. PICK x \in S : m = n - x
  OBVIOUS
<1>4. ASSUME NEW y \in S PROVE y <= x
  <2>1. n - y \in T /\ x \in Nat /\ y \in Nat
    OBVIOUS
  <2>2. n - x <= n - y
    BY <1>2, <1>3, <2>1
  <2> QED
    BY <2>1, <2>2
<1> QED
  BY <1>4 DEF Max

(* Some sequence has the members of a finite set in order: the inverse of  *)
(* how many of them are no greater.                                        *)
LEMMA OrderExists ==
  ASSUME NEW S \in SUBSET Nat, IsFiniteSet(S)
  PROVE  \E s \in [1 .. Cardinality(S) -> S] : \A i, j \in DOMAIN s : i < j => s[i] < s[j]
<1> DEFINE n == Cardinality(S)
           upto(x) == {y \in S : y <= x}
           rank == [x \in S |-> Cardinality(upto(x))]
<1>1. n \in Nat
  BY FS_CardinalityType
<1>2. ASSUME NEW x \in S PROVE IsFiniteSet(upto(x)) /\ rank[x] \in 1 .. n
  <2>1. upto(x) \in SUBSET S /\ x \in upto(x)
    OBVIOUS
  <2>2. /\ IsFiniteSet(upto(x)) /\ Cardinality(upto(x)) <= n
        /\ Cardinality(upto(x)) \in Nat /\ Cardinality(upto(x)) # 0
    BY <2>1, FS_Subset, FS_CardinalityType, FS_EmptySet
  <2> QED
    BY <1>1, <2>2
<1>3. ASSUME NEW x \in S, NEW y \in S, x < y PROVE rank[x] < rank[y]
  <2>0. x \in Nat /\ y \in Nat
    OBVIOUS
  <2>1. upto(x) \in SUBSET upto(y) /\ y \in upto(y) /\ y \notin upto(x)
    <3>1. ASSUME NEW z \in upto(x) PROVE z \in upto(y)
      <4>1. z \in Nat /\ z \in S /\ z <= x
        BY <3>1
      <4> QED
        BY <1>3, <2>0, <4>1
    <3>2. y \in upto(y) /\ y \notin upto(x)
      BY <1>3, <2>0
    <3> QED
      BY <3>1, <3>2
  <2>2. Cardinality(upto(x)) <= Cardinality(upto(y)) /\ Cardinality(upto(x)) # Cardinality(upto(y))
    BY <1>2, <2>1, FS_Subset
  <2> QED
    BY <1>1, <1>2, <2>2
<1>4. rank \in [S -> 1 .. n]
  BY <1>2
<1> HIDE DEF rank, n, upto
<1>5. rank \in Injection(S, 1 .. n)
  <2>1. ASSUME NEW x \in S, NEW y \in S, rank[x] = rank[y] PROVE x = y
    <3>1. x \in Nat /\ y \in Nat /\ rank[x] \in Nat /\ rank[y] \in Nat
      BY <1>1, <1>4
    <3> QED
      BY <1>3, <2>1, <3>1
  <2> QED
    BY <1>4, <2>1 DEF Injection, IsInjective
<1>6. rank \in Surjection(S, 1 .. n)
  <2>1. IsFiniteSet(1 .. n) /\ Cardinality(1 .. n) = n
    BY <1>1, FS_Interval
  <2> QED
    BY <1>5, <2>1, FS_Injection DEF n
<1> DEFINE s == [i \in 1 .. n |-> CHOOSE x \in S : rank[x] = i]
<1>7. ASSUME NEW i \in 1 .. n PROVE s[i] \in S /\ rank[s[i]] = i
  BY <1>6 DEF Surjection
<1>8. s \in [1 .. n -> S] /\ DOMAIN s = 1 .. n
  BY <1>7
<1> HIDE DEF s
<1>9. ASSUME NEW i \in 1 .. n, NEW j \in 1 .. n, i < j PROVE s[i] < s[j]
  <2>1. /\ s[i] \in Nat /\ s[j] \in Nat /\ rank[s[i]] = i /\ rank[s[j]] = j
        /\ i \in Nat /\ j \in Nat
    <3>1. i \in Nat /\ j \in Nat
      BY <1>1
    <3>2. s[i] \in S /\ s[j] \in S /\ rank[s[i]] = i /\ rank[s[j]] = j
      BY <1>7
    <3> QED
      BY <3>1, <3>2
  <2>2. s[i] # s[j] /\ ~ (s[j] < s[i])
    BY <1>3, <1>7, <1>9, <2>1
  <2> QED
    BY <2>1, <2>2
<1> QED
  BY <1>8, <1>9 DEF n

LEMMA InOrderOf ==
  ASSUME NEW S \in SUBSET Nat, IsFiniteSet(S)
  PROVE  /\ InOrder(S) \in [1 .. Cardinality(S) -> S]
         /\ \A x \in S : \E i \in DOMAIN InOrder(S) : InOrder(S)[i] = x
<1> DEFINE n == Cardinality(S)
           s == InOrder(S)
<1>1. n \in Nat
  BY FS_CardinalityType
<1>2. s \in [1 .. n -> S] /\ \A i, j \in DOMAIN s : i < j => s[i] < s[j]
  BY OrderExists DEF InOrder
<1> HIDE DEF s
<1>3. s \in Injection(1 .. n, S)
  <2>1. ASSUME NEW i \in 1 .. n, NEW j \in 1 .. n, s[i] = s[j] PROVE i = j
    <3>1. s[i] \in Nat /\ s[j] \in Nat /\ i \in Nat /\ j \in Nat /\ DOMAIN s = 1 .. n
      <4>1. i \in Nat /\ j \in Nat
        BY <1>1
      <4>2. s[i] \in S /\ s[j] \in S /\ DOMAIN s = 1 .. n
        BY <1>2
      <4> QED
        BY <4>1, <4>2
    <3>2. ~ (i < j) /\ ~ (j < i)
      BY <1>2, <2>1, <3>1
    <3> QED
      BY <3>1, <3>2
  <2> QED
    BY <1>2, <2>1 DEF Injection, IsInjective
<1>4. s \in Surjection(1 .. n, S)
  <2>1. Cardinality(1 .. n) = n
    BY <1>1, FS_Interval
  <2> HIDE DEF n
  <2> QED
    BY <1>1, <1>3, <2>1, FS_Injection DEF n
<1> QED
  BY <1>1, <1>2, <1>4 DEF Surjection, s

-----------------------------------------------------------------------------
(* The lines of the log.                                                   *)

LEMMA LinesOf ==
  ASSUME NEW s \in Seq(Lines)
  PROVE  /\ Len(s) \in Nat /\ DOMAIN s = 1 .. Len(s) /\ Range(s) \subseteq Lines
         /\ IsFiniteSet(DOMAIN s) /\ DOMAIN s \subseteq Nat
         /\ \A i \in DOMAIN s : s[i] \in Lines
         /\ TurnSet(s) = {s[i] : i \in TurnsAt(s)}
<1>1. Len(s) \in Nat /\ DOMAIN s = 1 .. Len(s) /\ \A i \in DOMAIN s : s[i] \in Lines
  BY LenProperties, ElementOfSeq
<1>2. Range(s) = {s[i] : i \in DOMAIN s}
  BY DEF Range
<1>3. TurnSet(s) = {s[i] : i \in TurnsAt(s)}
  BY <1>2 DEF TurnSet, TurnsAt, IsTurn
<1>4. IsFiniteSet(DOMAIN s) /\ DOMAIN s \subseteq Nat
  BY <1>1, FS_Interval
<1> QED
  BY <1>1, <1>2, <1>3, <1>4

LEMMA AppendOf ==
  ASSUME NEW s \in Seq(Lines), NEW r \in Lines
  PROVE  /\ Append(s, r) \in Seq(Lines) /\ Len(Append(s, r)) = Len(s) + 1
         /\ TurnSet(Append(s, r)) = TurnSet(s) \cup {x \in {r} : IsTurn(x)}
<1>1. /\ Append(s, r) \in Seq(Lines) /\ Len(Append(s, r)) = Len(s) + 1
      /\ \A i \in 1 .. Len(s) : Append(s, r)[i] = s[i]
      /\ Append(s, r)[Len(s) + 1] = r
  BY AppendProperties
<1>2. DOMAIN s = 1 .. Len(s) /\ DOMAIN Append(s, r) = 1 .. Len(s) + 1 /\ Len(s) \in Nat
  BY <1>1, LinesOf
<1>3. Range(Append(s, r)) = Range(s) \cup {r}
  BY <1>1, <1>2 DEF Range
<1> QED
  BY <1>1, <1>3 DEF TurnSet, IsTurn

LEMMA AppendLineOf ==
  ASSUME NEW s \in Seq(Lines), NEW r \in Lines
  PROVE  /\ AppendLine(s, r) \in Seq(Lines)
         /\ EndsTorn(s) => Len(AppendLine(s, r)) = Len(s) /\ TurnSet(AppendLine(s, r)) = TurnSet(s)
         /\ ~ EndsTorn(s) =>
              /\ Len(AppendLine(s, r)) = Len(s) + 1
              /\ TurnSet(AppendLine(s, r)) = TurnSet(s) \cup {x \in {r} : IsTurn(x)}
<1>1. CASE ~ EndsTorn(s)
  BY <1>1, AppendOf DEF AppendLine
<1>2. CASE EndsTorn(s)
  <2> DEFINE glued == [r EXCEPT !.kind = IF IsTurn(r) THEN "garbled" ELSE "torn",
                                !.files = @ \cup Last(s).files]
  <2>1. /\ Len(s) \in Nat \ {0} /\ DOMAIN s = 1 .. Len(s) /\ Last(s) \in Lines
        /\ Last(s) = s[Len(s)] /\ Last(s).kind = "torn"
    BY <1>2, LinesOf, EmptySeq, LenProperties DEF EndsTorn, Last
  <2>2. /\ Front(s) \in Seq(Lines) /\ Len(Front(s)) = Len(s) - 1
        /\ \A i \in 1 .. Len(s) - 1 : Front(s)[i] = s[i]
    BY <2>1, SubSeqProperties DEF Front
  <2>3. glued \in Lines /\ ~ IsTurn(glued)
    BY <2>1 DEF Lines, IsTurn
  <2> HIDE DEF glued
  <2>4. /\ Append(Front(s), glued) \in Seq(Lines)
        /\ Len(Append(Front(s), glued)) = Len(s)
        /\ TurnSet(Append(Front(s), glued)) = TurnSet(Front(s))
    <3>1. {x \in {glued} : IsTurn(x)} = {}
      BY <2>3
    <3>2. Len(s) - 1 + 1 = Len(s)
      BY <2>1
    <3>3. /\ Append(Front(s), glued) \in Seq(Lines)
          /\ Len(Append(Front(s), glued)) = Len(Front(s)) + 1
          /\ TurnSet(Append(Front(s), glued)) = TurnSet(Front(s)) \cup {x \in {glued} : IsTurn(x)}
      BY <2>2, <2>3, AppendOf
    <3> QED
      BY <2>2, <3>1, <3>2, <3>3
  <2>5. TurnSet(Front(s)) = TurnSet(s)
    <3>1. DOMAIN Front(s) = 1 .. Len(s) - 1
      BY <2>2, LinesOf
    <3> QED
      BY <2>1, <2>2, <3>1 DEF TurnSet, Range
  <2> QED
    BY <1>2, <2>4, <2>5 DEF AppendLine, glued
<1> QED
  BY <1>1, <1>2

(* Every turn id is still there when duplicates are left out: the first    *)
(* line of the same revert stays.                                          *)
LEMMA DeduplicatedOf ==
  ASSUME NEW s \in Seq(Lines)
  PROVE  /\ Deduplicated(s) \in Seq(Lines)
         /\ TurnIds(s) \subseteq TurnIds(Deduplicated(s))
<1> DEFINE K == Firsts(s)
           kept == InOrder(K)
<1>1. /\ K \in SUBSET Nat /\ IsFiniteSet(K) /\ K \subseteq DOMAIN s
      /\ Cardinality(K) \in Nat
  BY LinesOf, FS_Subset, FS_CardinalityType DEF Firsts
<1> HIDE DEF K
<1>2. /\ kept \in [1 .. Cardinality(K) -> K]
      /\ \A x \in K : \E i \in DOMAIN kept : kept[i] = x
  BY <1>1, InOrderOf
<1>3. Deduplicated(s) = [i \in DOMAIN kept |-> s[kept[i]]]
  BY DEF Deduplicated, K
<1> HIDE DEF kept
<1>4. /\ Deduplicated(s) \in [1 .. Cardinality(K) -> Lines]
      /\ Range(Deduplicated(s)) = {s[i] : i \in K}
  <2>1. \A i \in DOMAIN kept : s[kept[i]] \in Lines
    BY <1>1, <1>2, LinesOf
  <2> QED
    BY <1>2, <1>3, <2>1 DEF Range
<1>5. ASSUME NEW t \in TurnSet(s)
      PROVE  \E i \in K : s[i].id = t.id /\ s[i].kind = "turn"
  <2> DEFINE D == {j \in TurnsAt(s) : SameRevert(s[j], t)}
  <2>1. D \in SUBSET Nat /\ D # {}
    BY LinesOf DEF TurnsAt, SameRevert
  <2>2. PICK m \in D : \A j \in D : m <= j
    BY <2>1, LeastOf
  <2>3. \A j \in TurnsAt(s) : j < m => ~ SameRevert(s[j], s[m])
    <3>1. \A j \in TurnsAt(s) : SameRevert(s[j], s[m]) => j \in D
      BY DEF SameRevert
    <3> QED
      BY <2>1, <2>2, <3>1
  <2>4. m \in K
    BY <2>3 DEF K, Firsts, Repeats, TurnsAt
  <2> QED
    BY <2>4 DEF SameRevert, TurnsAt, IsTurn
<1> QED
  BY <1>1, <1>4, <1>5 DEF TurnIds, TurnSet

-----------------------------------------------------------------------------
(* What the steps leave of the types.                                      *)

LEMMA JoinedTypes ==
  ASSUME NEW T, T \subseteq Lines
  PROVE  Snapshots(T) \subseteq Hashes /\ PromptRefs(T) \subseteq Hashes
BY DEF Snapshots, PromptRefs, Blobs, PromptOf, EntryBlobs, Lines, Entries, Contents

LEMMA InitTypes == Init => StorageTypes
<1> SUFFICES ASSUME Init PROVE StorageTypes
  OBVIOUS
<1>1. PICK p \in Paths, h \in Hashes :
        LET twice == [ kind |-> "turn", id |-> 0, at |-> 0,
                       files |-> {Entry(p, None, h)}, prompt |-> None ]
        IN  /\ log \in {<< >>, <<twice, twice>>}
            /\ seen = [q \in Paths |-> IF log # << >> /\ q = p THEN h ELSE None]
  BY DEF Init
<1> DEFINE twice == [ kind |-> "turn", id |-> 0, at |-> 0,
                      files |-> {Entry(p, None, h)}, prompt |-> None ]
<1>2. twice \in Lines
  BY DEF Lines, Entries, Entry, Contents
<1> HIDE DEF twice
<1>3. log \in Seq(Lines)
  <2>1. log \in {<< >>, <<twice, twice>>}
    BY <1>1 DEF twice
  <2>2. << >> \in Seq(Lines) /\ <<twice, twice>> \in Seq(Lines)
    BY <1>2
  <2> QED
    BY <2>1, <2>2
<1>4. seen \in [Paths -> Contents]
  BY <1>1 DEF Contents
<1>5. left \in [ turns : Nat, records : Nat, writes : Nat, purges : Nat,
                 passes : Nat, crashes : Nat,
                 ops : SUBSET Operations, by : SUBSET OtherWriters ]
  BY StorageAssumption DEF Init
<1>6. Down.log \in Seq(Lines) /\ Resting.lines \in Seq(Lines)
  BY DEF Down, Idle, Resting
<1>7. /\ recorder = Down /\ purger = Resting /\ writer = Quiet /\ journal = None /\ era = 0
      /\ pins = {}
  BY DEF Init
<1> QED
  BY <1>3, <1>4, <1>5, <1>6, <1>7 DEF StorageTypes, FileTypes, LeftTypes, RecorderTypes, WriterTypes, PurgerTypes,
         Down, Idle, Resting

LEMMA FresherTypes ==
  ASSUME RecorderTypes, PurgerTypes, NEW S, S \subseteq Hashes, Fresher(S)
  PROVE  RecorderTypes' /\ PurgerTypes'
BY DEF RecorderTypes, PurgerTypes, Fresher, Judging

(* A line that is written keeps what the log was.                          *)
LEMMA GlueTypes ==
  ASSUME FileTypes, NEW r \in Lines
  PROVE  AppendLine(log, r) \in Seq(Lines)
BY AppendLineOf DEF FileTypes

LEMMA ProtectedTypes ==
  ASSUME FileTypes
  PROVE  ExtraProtected \subseteq Hashes
<1>1. JournalRefs \subseteq Hashes
  BY DEF FileTypes, JournalRefs, TurnLines, Lines, Blobs, EntryBlobs, Entries, Contents
<1>2. TornRefs(log) \subseteq Hashes
  <2>1. Range(log) \subseteq Lines
    BY LinesOf DEF FileTypes
  <2>2. \A r \in Lines : Refs(r) \subseteq Hashes
    BY DEF Refs, Lines, Blobs, EntryBlobs, PromptOf, Entries, Contents
  <2> QED
    BY <2>1, <2>2 DEF TornRefs
<1> QED
  BY <1>1, <1>2 DEF ExtraProtected, RefsOutsideLog, FileTypes

LEMMA VictimsSpare ==
  ASSUME NEW lines \in Seq(Lines), NEW P
  PROVE  /\ Victims(lines, P) \subseteq Hashes
         /\ Victims(lines, P) \cap P = {}
         /\ Victims(lines, P) \cap PromptRefs(TurnSet(lines)) = {}
         /\ Cardinality(TurnsAt(lines)) > 1 =>
              Victims(lines, P) \cap Blobs(lines[Newest(lines)]) = {}
<1> DEFINE b == Boundary(lines)
           older == {lines[j] : j \in {k \in TurnsAt(lines) : k <= b}}
<1>1. Victims(lines, P) = Snapshots(older) \ (Newer(lines, b + 1) \cup P \cup PromptRefs(TurnSet(lines)))
  BY DEF Victims
<1>2. TurnsAt(lines) \in SUBSET Nat /\ TurnsAt(lines) \subseteq 1 .. Len(lines) /\ Len(lines) \in Nat
  BY LinesOf DEF TurnsAt
<1>3. older \subseteq Lines
  BY LinesOf DEF TurnsAt
<1>4. Snapshots(older) \subseteq Hashes
  BY <1>3, JoinedTypes
<1>5. ASSUME Cardinality(TurnsAt(lines)) > 1
      PROVE  Blobs(lines[Newest(lines)]) \subseteq Newer(lines, b + 1)
  <2> DEFINE n == Newest(lines)
             over == {i \in TurnsAt(lines) : OverBudget(lines, i)}
  <2>1. TurnsAt(lines) # {}
    <3>1. Cardinality({}) = 0
      BY FS_EmptySet
    <3>2. TurnsAt(lines) = {} => Cardinality(TurnsAt(lines)) = 0
      BY <3>1
    <3> QED
      BY <1>5, <3>2
  <2>2. n \in TurnsAt(lines) /\ \A i \in TurnsAt(lines) : i <= n
    <3>1. \A x \in TurnsAt(lines) : x <= Len(lines)
      BY <1>2
    <3> QED
      BY <1>2, <2>1, <3>1, MaxOf DEF Newest
  <2>3. b \in {0} \cup over
    <3> DEFINE S == {0} \cup over
    <3>1. S \in SUBSET Nat /\ S # {} /\ \A x \in S : x <= Len(lines)
      BY <1>2
    <3> HIDE DEF S
    <3>2. Max(S) \in S
      BY <1>2, <3>1, MaxOf
    <3> QED
      BY <3>2 DEF S, Boundary
  <2>4. n \in Nat /\ n >= 1 /\ b \in Nat
    BY <1>2, <2>2, <2>3
  <2>5. ~ OverBudget(lines, n)
    BY <1>5 DEF OverBudget
  <2> HIDE DEF n, b
  <2>6. b + 1 <= n
    <3>1. CASE b = 0
      BY <2>4, <3>1
    <3>2. CASE b \in over
      <4>1. b <= n /\ b # n
        BY <2>2, <2>5, <3>2
      <4> QED
        BY <2>4, <4>1
    <3> QED
      BY <2>3, <3>1, <3>2
  <2>7. n \in {k \in TurnsAt(lines) : k >= b + 1}
    BY <2>2, <2>4, <2>6
  <2>8. Blobs(lines[n]) \subseteq Newer(lines, b + 1)
    BY <2>7 DEF Newer, Snapshots
  <2> QED
    BY <2>8 DEF n
<1> HIDE DEF b, older
<1>6. Victims(lines, P) \subseteq Hashes
  BY <1>1, <1>4
<1>7. /\ Victims(lines, P) \cap P = {} /\ Victims(lines, P) \cap PromptRefs(TurnSet(lines)) = {}
      /\ Victims(lines, P) \cap Newer(lines, b + 1) = {}
  BY <1>1
<1> QED
  BY <1>5, <1>6, <1>7

LEMMA UseTypes ==
  ASSUME LeftTypes,
         NEW what \in {"turns", "records", "writes", "purges", "passes", "crashes"},
         left[what] > 0
  PROVE  /\ Use(what) => LeftTypes'
         /\ what # "turns" /\ left.turns > 0
              /\ left' = [left EXCEPT !.turns = @ - 1, ![what] = @ - 1] => LeftTypes'
<1>1. left[what] \in Nat /\ left[what] - 1 \in Nat
  BY DEF LeftTypes
<1>2. left.turns > 0 => left.turns - 1 \in Nat
  BY DEF LeftTypes
<1> QED
  BY <1>1, <1>2 DEF LeftTypes, Use

LEMMA WritingTypes ==
  ASSUME StorageTypes, NEW S, S \subseteq Hashes, NEW r \in TurnLines \cup Captures,
         LeftTypes', Writing(S, r)
  PROVE  StorageTypes'
<1>1. Fresher(S) /\ FileTypes'
  BY DEF Writing, Put, StorageTypes, FileTypes
<1>2. RecorderTypes' /\ PurgerTypes'
  BY <1>1, FresherTypes DEF StorageTypes
<1>3. WriterTypes'
  BY DEF Writing, WriterTypes
<1> QED
  BY <1>1, <1>2, <1>3 DEF StorageTypes

LEMMA TypesStep ==
  ASSUME StorageTypes, [Next]_vars
  PROVE  StorageTypes'
<1> USE DEF StorageTypes, FileTypes
<1>0. log \in Seq(Lines) /\ era \in {0, 1} /\ LeftTypes
  OBVIOUS
<1>1. CASE StartRecorder
  <2>1. journal # None => AppendLine(log, journal) \in Seq(Lines)
    BY GlueTypes DEF TurnLines
  <2>2. FileTypes'
    BY <1>1, <2>1 DEF StartRecorder
  <2>3. RecorderTypes'
    <3>1. << >> \in Seq(Lines)
      OBVIOUS
    <3> QED
      BY <1>1, <3>1 DEF StartRecorder, RecorderTypes, Idle
  <2>4. PurgerTypes'
    BY <1>1 DEF StartRecorder, PurgerTypes
  <2> QED
    BY <1>1, <2>2, <2>3, <2>4 DEF StartRecorder, WriterTypes, LeftTypes
<1>2. ASSUME NEW p \in Paths, NEW h \in Hashes, Record(p, h) PROVE StorageTypes'
  <2>1. seen' \in [Paths -> Contents] /\ h \in Contents /\ seen[p] \in Contents
    BY <1>2 DEF Record, Contents
  <2>2. Entry(p, seen[p], h) \in Entries
    BY <2>1 DEF Entries, Entry
  <2>3. LeftTypes'
    <3>1. left.records > 0
      BY <1>2 DEF Record
    <3>2. \/ Use("records")
          \/ left.turns > 0 /\ left' = [left EXCEPT !.turns = @ - 1, !.records = @ - 1]
      BY <1>2 DEF Record
    <3> QED
      BY <3>1, <3>2, UseTypes
  <2>4. journal' \in TurnLines
    <3>1. CASE journal = None
      <4>1. journal' = Turn(era, {Entry(p, seen[p], h)}, None)
        BY <1>2, <3>1 DEF Record
      <4> QED
        BY <2>2, <4>1 DEF Turn, TurnLines, Lines, IsTurn, Contents, LeftTypes
    <3>2. CASE journal # None
      <4>1. journal' = [journal EXCEPT !.files = Extend(@, p, h)] /\ journal \in TurnLines
        BY <1>2, <3>2 DEF Record
      <4>2. Extend(journal.files, p, h) \subseteq Entries
        <5>1. journal.files \subseteq Entries
          BY <4>1 DEF TurnLines, Lines
        <5> QED
          BY <2>1, <2>2, <5>1 DEF Extend, Entries
      <4> QED
        BY <4>1, <4>2 DEF TurnLines, Lines, IsTurn
    <3> QED
      BY <3>1, <3>2
  <2>5. Fresher({h})
    BY <1>2 DEF Record, Put
  <2> QED
    BY <1>2, <2>1, <2>3, <2>4, <2>5, FresherTypes DEF Record, WriterTypes
<1>3. ASSUME NEW q \in Prompts \cup {None}, CloseTurn(q) PROVE StorageTypes'
  <2>1. [journal EXCEPT !.prompt = q] \in Lines
    BY <1>3, StorageAssumption DEF CloseTurn, TurnLines, Lines, Contents
  <2>2. FileTypes'
    BY <1>3, <2>1, GlueTypes DEF CloseTurn
  <2>3. Fresher({q} \ {None}) /\ {q} \ {None} \subseteq Hashes
    BY <1>3, StorageAssumption DEF CloseTurn, Put
  <2> QED
    BY <1>3, <2>2, <2>3, FresherTypes DEF CloseTurn, WriterTypes, LeftTypes
<1>4. CASE Crash
  <2>1. journal # None => [journal EXCEPT !.kind = "torn"] \in Lines
    BY DEF TurnLines, Lines
  <2>2. FileTypes'
    BY <1>4, <2>1, GlueTypes DEF Crash
  <2>3. RecorderTypes'
    <3>1. << >> \in Seq(Lines)
      OBVIOUS
    <3> QED
      BY <1>4, <3>1 DEF Crash, RecorderTypes, Down, Idle
  <2> QED
    BY <1>4, <2>2, <2>3, UseTypes DEF Crash, WriterTypes, PurgerTypes
<1>5. CASE StopRecorder \/ EndPass
  <2>1. RecorderTypes'
    <3>1. << >> \in Seq(Lines)
      OBVIOUS
    <3>2. recorder' = Down \/ recorder' = Idle
      BY <1>5 DEF StopRecorder, EndPass
    <3>3. CASE recorder' = Down
      BY <3>1, <3>3 DEF RecorderTypes, Down, Idle
    <3>4. CASE recorder' = Idle
      BY <3>1, <3>4 DEF RecorderTypes, Idle
    <3> QED
      BY <3>2, <3>3, <3>4
  <2> QED
    BY <1>5, <2>1 DEF StopRecorder, EndPass, PassUnchanged, WriterTypes, LeftTypes, PurgerTypes
<1>6. CASE BeginPass \/ LoadLog
  <2>1. RecorderTypes'
    BY <1>6 DEF BeginPass, LoadLog, RecorderTypes
  <2> QED
    BY <1>6, <2>1, UseTypes DEF BeginPass, LoadLog, PassUnchanged, WriterTypes, LeftTypes, PurgerTypes
<1>7. CASE PlanEviction
  <2>1. Victims(recorder.log, ExtraProtected) \subseteq Hashes
    BY VictimsSpare DEF RecorderTypes
  <2>2. RecorderTypes'
    <3>1. ExtraProtected \subseteq Hashes
      BY ProtectedTypes
    <3> QED
      BY <1>7, <2>1, <3>1 DEF PlanEviction, RecorderTypes
  <2>3. WriterTypes'
    BY <1>7 DEF PlanEviction, WriterTypes
  <2> QED
    BY <1>7, <2>2, <2>3 DEF PlanEviction, LeftTypes, PurgerTypes
<1>8. ASSUME NEW h \in Hashes, Evict(h) PROVE StorageTypes'
  <2>1. RecorderTypes'
    BY <1>8 DEF Evict, RecorderTypes
  <2> QED
    BY <1>8, <2>1 DEF Evict, PassUnchanged, WriterTypes, LeftTypes, PurgerTypes
<1>9. ASSUME NEW h \in Hashes, CapturePut(h) PROVE StorageTypes'
  <2>1. LeftTypes'
    BY <1>9, UseTypes DEF CapturePut, May
  <2>2. [kind |-> "capture", hash |-> h] \in Captures
    BY DEF Captures
  <2> QED
    BY <1>9, <2>1, <2>2, WritingTypes DEF CapturePut
<1>10. ASSUME NEW t \in TurnSet(log), NEW e \in t.files, UndoPut(t, e) PROVE StorageTypes'
  <2>1. LeftTypes'
    BY <1>10, UseTypes DEF UndoPut, UseTurn, May
  <2>2. e \in Entries
    BY LinesOf DEF TurnSet, Lines
  <2>3. Entry(e.path, e.after, e.before) \in Entries
    BY <2>2 DEF Entry, Entries
  <2>4. Turn(era, {Entry(e.path, e.after, e.before)}, None) \in TurnLines
    BY <2>3 DEF Turn, TurnLines, Lines, IsTurn, Contents, LeftTypes
  <2>5. {e.after} \subseteq Hashes /\ Writing({e.after}, Turn(era, {Entry(e.path, e.after, e.before)}, None))
    BY <1>10 DEF UndoPut
  <2> QED
    BY <2>1, <2>4, <2>5, WritingTypes
<1>11. ASSUME NEW p \in Paths, NEW h \in Hashes, NEW q \in Prompts \cup {None}, ImportPut(p, h, q)
       PROVE  StorageTypes'
  <2>1. LeftTypes'
    BY <1>11, UseTypes DEF ImportPut, UseTurn, May
  <2>2. Entry(p, None, h) \in Entries /\ q \in Contents /\ {h, q} \ {None} \subseteq Hashes
    BY StorageAssumption DEF Entry, Entries, Contents
  <2>3. Turn(0, {Entry(p, None, h)}, q) \in TurnLines
    BY <2>2 DEF Turn, TurnLines, Lines, IsTurn, Contents, LeftTypes
  <2> QED
    BY <1>11, <2>1, <2>2, <2>3, WritingTypes DEF ImportPut
<1>12. CASE WriterAppend
  <2>1. writer.record \in TurnLines \cup Captures /\ writer.put \subseteq Hashes
    BY <1>12 DEF WriterAppend, WriterTypes
  <2>2. writer.record.kind # "capture" => writer.record \in Lines
    BY <2>1 DEF TurnLines, Captures
  <2>3. FileTypes'
    <3>1. CASE writer.record.kind = "capture"
      <4>1. writer.record.hash \in Hashes
        BY <2>1, <3>1 DEF TurnLines, Captures, IsTurn
      <4>2. pins' = pins \cup {writer.record.hash} /\ UNCHANGED <<log, journal, seen, era>>
        BY <1>12, <3>1 DEF WriterAppend
      <4> QED
        BY <4>1, <4>2 DEF FileTypes
    <3>2. CASE writer.record.kind # "capture"
      BY <1>12, <2>2, <3>2, GlueTypes DEF WriterAppend, FileTypes
    <3> QED
      BY <3>1, <3>2
  <2>4. RecorderTypes' /\ WriterTypes'
    BY <1>12, <2>1 DEF WriterAppend, RecorderTypes, WriterTypes
  <2> QED
    BY <1>12, <2>3, <2>4 DEF WriterAppend, LeftTypes, PurgerTypes
<1>13. ASSUME NEW p \in Paths, Pin(p) PROVE StorageTypes'
  BY <1>13, UseTypes DEF Pin, May, RecorderTypes, WriterTypes, PurgerTypes
<1>14. CASE Age
  BY <1>14 DEF Age, LeftTypes, RecorderTypes, WriterTypes, PurgerTypes
<1>15. CASE RewriteLog
  <2>1. purger.lines \in Seq(Lines) /\ << >> \in Seq(Lines)
    BY DEF PurgerTypes
  <2>2. Deduplicated(purger.lines) \in Seq(Lines)
    BY <2>1, DeduplicatedOf
  <2> DEFINE kept == Deduplicated(purger.lines)
             terminated(r) == IF r.kind = "torn" THEN [r EXCEPT !.kind = "garbled"] ELSE r
  <2>3. log' = [i \in DOMAIN kept |-> terminated(kept[i])]
    BY <1>15 DEF RewriteLog
  <2> HIDE DEF kept
  <2>4. \A r \in Lines : terminated(r) \in Lines
    BY DEF Lines
  <2> HIDE DEF terminated
  <2>k. kept \in Seq(Lines)
    BY <2>2 DEF kept
  <2>5. log' \in Seq(Lines)
    <3>1. /\ Len(kept) \in Nat /\ DOMAIN kept = 1 .. Len(kept)
          /\ \A i \in DOMAIN kept : terminated(kept[i]) \in Lines
      BY <2>4, <2>k, LinesOf
    <3> QED
      BY <2>3, <3>1
  <2>6. PurgerTypes'
    BY <1>15, <2>1 DEF RewriteLog, Done, Resting, PurgerTypes
  <2> QED
    BY <1>15, <2>5, <2>6 DEF RewriteLog, LeftTypes, RecorderTypes, WriterTypes
<1>16. ASSUME OnlyPurger, PurgerTypes', LeftTypes' PROVE StorageTypes'
  BY <1>16 DEF OnlyPurger, RecorderTypes, WriterTypes
<1>17. Resting \in [ pc : {"idle", "prompts", "takePrompts", "op", "rescan", "take",
                           "archived", "rename"},
                     op : Operations \cup {"none"}, cut : Nat, path : Paths \cup {None},
                     lines : Seq(Lines), cand : SUBSET Hashes, overlap : BOOLEAN,
                     fresh : SUBSET Hashes ]
  <2>1. << >> \in Seq(Lines)
    OBVIOUS
  <2> QED
    BY <2>1 DEF Resting
<1>18. ASSUME NEW op \in Operations, NEW cut \in {era, era + 1}, StartPurge(op, cut)
       PROVE  StorageTypes'
  <2>1. cut \in Nat
    OBVIOUS
  <2>2. PurgerTypes' /\ LeftTypes'
    <3>1. LeftTypes'
      BY <1>18, UseTypes DEF StartPurge, MayPurge
    <3>2. purger' = [Resting EXCEPT !.pc = "prompts", !.op = op, !.cut = cut, !.lines = log]
      BY <1>18 DEF StartPurge
    <3> QED
      BY <1>17, <2>1, <3>1, <3>2 DEF PurgerTypes
  <2> QED
    BY <1>16, <1>18, <2>2 DEF StartPurge
<1>19. ASSUME NEW p \in Paths, StartPurgePath(p) PROVE StorageTypes'
  <2>1. PathCandidates(p) \subseteq Hashes
    <3>1. \A t \in TurnSet(log) : t.files \subseteq Entries
      BY LinesOf DEF TurnSet, Lines
    <3> QED
      BY <3>1 DEF PathCandidates, LogEntries, EntryBlobs, Entries, Contents
  <2>2. PurgerTypes' /\ LeftTypes'
    <3>1. LeftTypes'
      BY <1>19, UseTypes DEF StartPurgePath, MayPurge
    <3>2. purger' = [Resting EXCEPT !.pc = "rescan", !.op = "path", !.path = p,
                                    !.cand = PathCandidates(p) \ PathProtect(p)]
      BY <1>19 DEF StartPurgePath
    <3> QED
      BY <1>17, <2>1, <3>1, <3>2 DEF PurgerTypes, Operations
  <2> QED
    BY <1>16, <1>19, <2>2 DEF StartPurgePath
<1>20. TurnSet(purger.lines) \subseteq Lines
  BY LinesOf DEF PurgerTypes, TurnSet
<1>21. CASE ChoosePrompts \/ ChooseByDate \/ ChooseByPath \/ ChooseOrphans
  <2>1. \A cut : /\ PromptCandidates(TurnSet(purger.lines), cut) \subseteq Hashes
                 /\ DateCandidates(TurnSet(purger.lines), cut) \subseteq Hashes
    BY <1>20 DEF PromptCandidates, DateCandidates, Expired, Snapshots, PromptRefs, Blobs,
         PromptOf, EntryBlobs, Lines, Entries, Contents
  <2>2. purger.cand \subseteq Hashes
    BY DEF PurgerTypes
  <2>3. UNCHANGED left /\ \E pc \in {"takePrompts", "take"}, C \in SUBSET Hashes : Step(pc, C)
    <3>1. CASE ChoosePrompts
      BY <2>1, <3>1 DEF ChoosePrompts
    <3>2. CASE ChooseByDate
      BY <2>1, <3>2 DEF ChooseByDate
    <3>3. CASE ChooseByPath
      BY <2>2, <3>3 DEF ChooseByPath
    <3>4. CASE ChooseOrphans
      BY <3>4 DEF ChooseOrphans
    <3> QED
      BY <1>21, <3>1, <3>2, <3>3, <3>4
  <2>4. PurgerTypes'
    BY <2>3 DEF Step, PurgerTypes
  <2> QED
    BY <1>16, <1>21, <2>3, <2>4 DEF ChoosePrompts, ChooseByDate, ChooseByPath, ChooseOrphans, LeftTypes
<1>22. ASSUME NEW h \in Hashes, TakeOne(h) PROVE StorageTypes'
  <2>1. PurgerTypes' /\ LeftTypes'
    BY <1>22 DEF TakeOne, PurgerTypes, LeftTypes
  <2> QED
    BY <1>16, <1>22, <2>1 DEF TakeOne
<1>23. CASE Refuse \/ EndTake \/ ReadDuplicates \/ CheckLength \/ KillPurge
  <2>1. PurgerTypes' /\ LeftTypes'
    <3>1. UNCHANGED left
      BY <1>23 DEF Refuse, EndTake, ReadDuplicates, CheckLength, KillPurge
    <3>2. \/ purger' = Resting
          \/ purger' = [purger EXCEPT !.pc = "archived", !.lines = log]
          \/ \E pc \in {"op", "rename"} : purger' = [purger EXCEPT !.pc = pc, !.cand = {}]
      BY <1>23 DEF Refuse, EndTake, ReadDuplicates, CheckLength, KillPurge, Done, Step
    <3> QED
      BY <1>17, <3>1, <3>2 DEF PurgerTypes, LeftTypes
  <2> QED
    BY <1>16, <1>23, <2>1 DEF Refuse, EndTake, ReadDuplicates, CheckLength, KillPurge
<1>24. CASE UNCHANGED vars
  BY <1>24 DEF vars, LeftTypes, RecorderTypes, WriterTypes, PurgerTypes
<1> QED
  BY <1>1, <1>2, <1>3, <1>4, <1>5, <1>6, <1>7, <1>8, <1>9, <1>10, <1>11, <1>12, <1>13, <1>14,
     <1>15, <1>18, <1>19, <1>21, <1>22, <1>23, <1>24 DEF Next

-----------------------------------------------------------------------------
(* Who changes what.                                                       *)

(* Objects are removed by a pass or by a purge, one at a time.             *)
Keeping == objects \subseteq objects' /\ forsaken \subseteq forsaken' \cup objects'

LEMMA ObjectChanges ==
  ASSUME [Next]_vars
  PROVE  Keeping \/ \E h \in Hashes : Evict(h) \/ TakeOne(h)
<1>1. ASSUME NEW S, Put(S) PROVE Keeping
  BY <1>1 DEF Put, Keeping
<1>2. ASSUME UNCHANGED <<objects, forsaken>> PROVE Keeping
  BY <1>2 DEF Keeping
<1>3. CASE \E p \in Paths, h \in Hashes : Record(p, h)
  BY <1>1, <1>3 DEF Record
<1>4. CASE \E q \in Prompts \cup {None} : CloseTurn(q)
  BY <1>1, <1>4 DEF CloseTurn
<1>5. CASE \/ \E h \in Hashes : CapturePut(h)
           \/ \E t \in TurnSet(log) : \E e \in t.files : UndoPut(t, e)
           \/ \E p \in Paths, h \in Hashes, q \in Prompts \cup {None} : ImportPut(p, h, q)
  BY <1>1, <1>5 DEF CapturePut, UndoPut, ImportPut, Writing
<1>6. CASE StartRecorder \/ Crash \/ StopRecorder \/ BeginPass \/ LoadLog \/ PlanEviction
             \/ EndPass \/ WriterAppend \/ Age \/ UNCHANGED vars
             \/ \E p \in Paths : Pin(p)
  BY <1>2, <1>6 DEF StartRecorder, Crash, StopRecorder, BeginPass, LoadLog, PlanEviction,
     EndPass, WriterAppend, Age, vars, Pin, Spare
<1>7. CASE \/ \E op \in Operations, cut \in {era, era + 1} : StartPurge(op, cut)
           \/ \E p \in Paths : StartPurgePath(p)
           \/ Refuse \/ ChoosePrompts \/ ChooseByDate \/ ChooseByPath \/ ChooseOrphans
           \/ ReadDuplicates \/ CheckLength \/ RewriteLog \/ EndTake \/ KillPurge
  BY <1>2, <1>7 DEF StartPurge, StartPurgePath, Refuse, ChoosePrompts, ChooseByDate,
     ChooseByPath, ChooseOrphans, ReadDuplicates, CheckLength, RewriteLog, EndTake, KillPurge, Spare
<1> QED
  BY <1>3, <1>4, <1>5, <1>6, <1>7 DEF Next

(* The log grows by a line, or a purge rewrites it. An id that is to stay  *)
(* is that of a turn on a line of its own, and comes before the rewrite    *)
(* has looked for the last time.                                           *)
Grows(r) ==
  /\ r \in Lines /\ log' = AppendLine(log, r)
  /\ \/ ids' = ids
     \/ ~ EndsTorn(log) /\ IsTurn(r) /\ purger.pc # "rename" /\ ids' = ids \cup {r.id}
  /\ purger'.pc = purger.pc /\ purger'.lines = purger.lines

LEMMA LogChanges ==
  ASSUME StorageTypes, [Next]_vars
  PROVE  UNCHANGED <<log, ids>> \/ RewriteLog \/ (\E r \in Lines : Grows(r))
<1>1. CASE StartRecorder
  <2>1. CASE journal = None
    BY <1>1, <2>1 DEF StartRecorder
  <2>2. CASE journal # None
    <3>1. journal \in Lines /\ IsTurn(journal)
      BY <2>2 DEF StorageTypes, FileTypes, TurnLines
    <3>2. purger'.pc = purger.pc /\ purger'.lines = purger.lines
      BY <1>1 DEF StartRecorder, StorageTypes, PurgerTypes
    <3> QED
      BY <1>1, <3>1, <3>2 DEF StartRecorder, Acknowledge, Grows
  <2> QED
    BY <2>1, <2>2
<1>2. ASSUME NEW q \in Prompts \cup {None}, CloseTurn(q) PROVE \E r \in Lines : Grows(r)
  <2> DEFINE r == [journal EXCEPT !.prompt = q]
  <2>1. r \in Lines /\ IsTurn(r) /\ r.id = journal.id
    BY <1>2, StorageAssumption DEF CloseTurn, StorageTypes, FileTypes, TurnLines, Lines, Contents, IsTurn
  <2>2. purger'.pc = purger.pc /\ purger'.lines = purger.lines
    BY <1>2 DEF CloseTurn, Put, Fresher, StorageTypes, PurgerTypes
  <2>3. Grows(r)
    BY <1>2, <2>1, <2>2 DEF CloseTurn, Acknowledge, Grows
  <2> QED
    BY <2>1, <2>3
<1>3. CASE Crash
  <2>1. journal # None => [journal EXCEPT !.kind = "torn"] \in Lines
    BY DEF StorageTypes, FileTypes, TurnLines, Lines
  <2> QED
    BY <1>3, <2>1 DEF Crash, Grows
<1>4. CASE WriterAppend
  <2>1. CASE writer.record.kind = "capture"
    BY <1>4, <2>1 DEF WriterAppend
  <2>2. CASE writer.record.kind # "capture"
    <3>1. writer.record \in Lines /\ IsTurn(writer.record)
      BY <1>4, <2>2 DEF WriterAppend, StorageTypes, WriterTypes, TurnLines, Captures
    <3>2. purger.pc # "rename"
      BY <1>4, <2>2 DEF WriterAppend, LogLocked
    <3>3. Grows(writer.record)
      BY <1>4, <2>2, <3>1, <3>2 DEF WriterAppend, Acknowledge, Grows
    <3> QED
      BY <3>1, <3>3
  <2> QED
    BY <2>1, <2>2
<1>5. CASE \/ \E p \in Paths, h \in Hashes : Record(p, h)
           \/ \E h \in Hashes : Evict(h) \/ TakeOne(h) \/ CapturePut(h)
           \/ \E t \in TurnSet(log) : \E e \in t.files : UndoPut(t, e)
           \/ \E p \in Paths, h \in Hashes, q \in Prompts \cup {None} : ImportPut(p, h, q)
  BY <1>5 DEF Record, Evict, TakeOne, CapturePut, UndoPut, ImportPut, Writing, PassUnchanged, OnlyPurger
<1>6. CASE StopRecorder \/ BeginPass \/ LoadLog \/ PlanEviction \/ EndPass \/ Age \/ UNCHANGED vars
             \/ \E p \in Paths : Pin(p)
  BY <1>6 DEF StopRecorder, BeginPass, LoadLog, PlanEviction, EndPass, Age, vars, Pin, PassUnchanged
<1>7. CASE \/ \E op \in Operations, cut \in {era, era + 1} : StartPurge(op, cut)
           \/ \E p \in Paths : StartPurgePath(p)
           \/ Refuse \/ ChoosePrompts \/ ChooseByDate \/ ChooseByPath \/ ChooseOrphans
           \/ ReadDuplicates \/ CheckLength \/ EndTake \/ KillPurge
  BY <1>7 DEF StartPurge, StartPurgePath, Refuse, ChoosePrompts, ChooseByDate,
     ChooseByPath, ChooseOrphans, ReadDuplicates, CheckLength, EndTake, KillPurge, OnlyPurger
<1> QED
  BY <1>1, <1>2, <1>3, <1>4, <1>5, <1>6, <1>7 DEF Next

LEMMA RestingOf ==
  Resting.pc = "idle" /\ Resting.op = "none" /\ Resting.cand = {}
BY DEF Resting

(* Whether a purge is in the rewrite changes with two of its steps.        *)
LEMMA RewriteChanges ==
  ASSUME StorageTypes, [Next]_vars
  PROVE  \/ purger'.pc = purger.pc /\ purger'.lines = purger.lines
         \/ purger'.pc \notin {"archived", "rename"}
         \/ ReadDuplicates \/ CheckLength
<1>1. ASSUME NEW S, Put(S) PROVE purger'.pc = purger.pc /\ purger'.lines = purger.lines
  BY <1>1 DEF Put, Fresher, StorageTypes, PurgerTypes
<1>2. CASE \E p \in Paths, h \in Hashes : Record(p, h)
  BY <1>1, <1>2 DEF Record
<1>3. CASE \E q \in Prompts \cup {None} : CloseTurn(q)
  BY <1>1, <1>3 DEF CloseTurn
<1>4. CASE \/ \E h \in Hashes : CapturePut(h)
           \/ \E t \in TurnSet(log) : \E e \in t.files : UndoPut(t, e)
           \/ \E p \in Paths, h \in Hashes, q \in Prompts \cup {None} : ImportPut(p, h, q)
  BY <1>1, <1>4 DEF CapturePut, UndoPut, ImportPut, Writing
<1>5. CASE StartRecorder
  BY <1>5 DEF StartRecorder, StorageTypes, PurgerTypes
<1>6. CASE Crash \/ StopRecorder \/ BeginPass \/ LoadLog \/ PlanEviction \/ EndPass
             \/ WriterAppend \/ Age \/ UNCHANGED vars \/ RewriteLog
             \/ (\E p \in Paths : Pin(p)) \/ \E h \in Hashes : Evict(h)
  BY <1>6, RestingOf DEF Crash, StopRecorder, BeginPass, LoadLog, PlanEviction, EndPass, WriterAppend,
     Age, vars, RewriteLog, Done, Pin, Evict, PassUnchanged
<1>7. CASE \E h \in Hashes : TakeOne(h)
  BY <1>7 DEF TakeOne, StorageTypes, PurgerTypes
<1>8. CASE \/ \E op \in Operations, cut \in {era, era + 1} : StartPurge(op, cut)
           \/ \E p \in Paths : StartPurgePath(p)
           \/ Refuse \/ KillPurge
  <2>1. \/ purger' = Resting
        \/ \E op, cut : purger' = [Resting EXCEPT !.pc = "prompts", !.op = op, !.cut = cut,
                                                  !.lines = log]
        \/ \E p, S : purger' = [Resting EXCEPT !.pc = "rescan", !.op = "path", !.path = p,
                                               !.cand = S]
    BY <1>8 DEF StartPurge, StartPurgePath, Refuse, KillPurge, Done
  <2>2. ASSUME NEW op, NEW cut,
               purger' = [Resting EXCEPT !.pc = "prompts", !.op = op, !.cut = cut, !.lines = log]
        PROVE  purger'.pc = "prompts"
    BY <2>2 DEF Resting
  <2>3. ASSUME NEW p, NEW S,
               purger' = [Resting EXCEPT !.pc = "rescan", !.op = "path", !.path = p, !.cand = S]
        PROVE  purger'.pc = "rescan"
    BY <2>3 DEF Resting
  <2>4. purger'.pc \in {"idle", "prompts", "rescan"}
    BY <2>1, <2>2, <2>3, RestingOf
  <2> QED
    BY <2>4
<1>9. CASE ChoosePrompts \/ ChooseByDate \/ ChooseByPath \/ ChooseOrphans \/ EndTake
  <2>1. purger' = Resting
          \/ \E pc \in {"takePrompts", "take", "op"} : \E S :
               purger' = [purger EXCEPT !.pc = pc, !.cand = S]
    BY <1>9 DEF ChoosePrompts, ChooseByDate, ChooseByPath, ChooseOrphans, EndTake, Step, Done
  <2> QED
    BY <2>1, RestingOf DEF StorageTypes, PurgerTypes
<1>10. CASE \E h \in Hashes : Evict(h) \/ TakeOne(h) \/ CapturePut(h)
  <2>1. CASE \E h \in Hashes : Evict(h)
    BY <1>6, <2>1
  <2>2. CASE \E h \in Hashes : TakeOne(h)
    BY <1>7, <2>2
  <2>3. CASE \E h \in Hashes : CapturePut(h)
    BY <1>4, <2>3
  <2> QED
    BY <1>10, <2>1, <2>2, <2>3
<1> QED
  BY <1>2, <1>3, <1>4, <1>5, <1>6, <1>8, <1>9, <1>10 DEF Next

(* Every turn id of the log that was read is in the log that is written.   *)
LEMMA RewriteKeeps ==
  ASSUME StorageTypes, RewriteLog
  PROVE  TurnIds(purger.lines) \subseteq TurnIds(log')
<1> DEFINE kept == Deduplicated(purger.lines)
           terminated(r) == IF r.kind = "torn" THEN [r EXCEPT !.kind = "garbled"] ELSE r
<1>1. log' = [i \in DOMAIN kept |-> terminated(kept[i])]
  BY DEF RewriteLog
<1>2. kept \in Seq(Lines) /\ TurnIds(purger.lines) \subseteq TurnIds(kept)
  BY DeduplicatedOf DEF StorageTypes, PurgerTypes
<1> HIDE DEF kept
<1>3. ASSUME NEW t \in TurnSet(kept) PROVE t \in TurnSet(log')
  <2>1. PICK i \in DOMAIN kept : t = kept[i] /\ t.kind = "turn"
    BY <1>3 DEF TurnSet, Range
  <2>2. terminated(kept[i]) = t
    BY <2>1
  <2> HIDE DEF terminated
  <2>3. i \in DOMAIN log' /\ log'[i] = t
    BY <1>1, <2>1, <2>2
  <2> QED
    BY <2>1, <2>3 DEF TurnSet, Range
<1> QED
  BY <1>2, <1>3 DEF TurnIds

LEMMA LogStep ==
  ASSUME StorageTypes, RewriteReads, LogAppendsSurvive, [Next]_vars
  PROVE  RewriteReads' /\ LogAppendsSurvive'
<1> USE DEF StorageTypes, PurgerTypes
<1>0. /\ log \in Seq(Lines) /\ purger.lines \in Seq(Lines)
      /\ Len(log) \in Nat /\ Len(purger.lines) \in Nat
  BY LinesOf DEF FileTypes
<1>1. CASE UNCHANGED <<log, ids>>
  <2>1. LogAppendsSurvive'
    BY <1>1 DEF LogAppendsSurvive, TurnSet
  <2>2. CASE purger'.pc = purger.pc /\ purger'.lines = purger.lines
    BY <1>1, <2>1, <2>2 DEF RewriteReads, TurnIds, TurnSet
  <2>3. CASE purger'.pc \notin {"archived", "rename"}
    BY <2>1, <2>3 DEF RewriteReads
  <2>4. CASE ReadDuplicates
    <3>1. purger'.pc = "archived" => purger'.lines = log
      BY <2>4, RestingOf DEF ReadDuplicates, Done
    <3>2. purger'.pc # "rename"
      BY <2>4, RestingOf DEF ReadDuplicates, Done
    <3> QED
      BY <1>0, <1>1, <2>1, <3>1, <3>2 DEF RewriteReads
  <2>5. CASE CheckLength
    <3>1. purger'.pc # "archived"
      BY <2>5, RestingOf DEF CheckLength, Done, Step
    <3>2. ASSUME purger'.pc = "rename" PROVE ids' \subseteq TurnIds(purger'.lines)
      <4>1. purger'.lines = purger.lines /\ ~ (Len(log) > Len(purger.lines)) /\ purger.pc = "archived"
        BY <2>5, <3>2, RestingOf DEF CheckLength, Purging, Done, Step
      <4>2. TurnSet(log) = TurnSet(purger.lines)
        BY <1>0, <4>1 DEF RewriteReads
      <4> QED
        BY <1>1, <4>1, <4>2 DEF LogAppendsSurvive, TurnIds
    <3> QED
      BY <2>1, <3>1, <3>2 DEF RewriteReads
  <2> QED
    BY <2>2, <2>3, <2>4, <2>5, RewriteChanges
<1>2. CASE RewriteLog
  <2>1. ids' = ids /\ purger.pc = "rename" /\ purger'.pc = "idle"
    BY <1>2, RestingOf DEF RewriteLog, Purging, Done
  <2>2. ids' \subseteq TurnIds(log')
    BY <1>2, <2>1, RewriteKeeps DEF RewriteReads
  <2> QED
    BY <2>1, <2>2 DEF RewriteReads, LogAppendsSurvive, TurnIds
<1>3. ASSUME NEW r \in Lines, Grows(r) PROVE RewriteReads' /\ LogAppendsSurvive'
  <2>1. log' = AppendLine(log, r) /\ purger'.pc = purger.pc /\ purger'.lines = purger.lines
    BY <1>3 DEF Grows
  <2>2. /\ EndsTorn(log) => Len(log') = Len(log) /\ TurnSet(log') = TurnSet(log)
        /\ ~ EndsTorn(log) => /\ Len(log') = Len(log) + 1
                              /\ TurnSet(log') = TurnSet(log) \cup {x \in {r} : IsTurn(x)}
    BY <1>0, <2>1, AppendLineOf
  <2>3. ids' \subseteq TurnIds(log')
    <3>1. TurnIds(log) \subseteq TurnIds(log')
      BY <2>2 DEF TurnIds
    <3>2. ids \subseteq TurnIds(log)
      BY DEF LogAppendsSurvive, TurnIds
    <3>3. ~ EndsTorn(log) /\ IsTurn(r) => r.id \in TurnIds(log')
      BY <2>2 DEF TurnIds
    <3> QED
      BY <1>3, <3>1, <3>2, <3>3 DEF Grows
  <2>4. purger'.pc = "archived" =>
          \/ Len(log') > Len(purger'.lines)
          \/ Len(log') = Len(purger'.lines) /\ TurnSet(log') = TurnSet(purger'.lines)
    BY <1>0, <2>1, <2>2 DEF RewriteReads
  <2>5. purger'.pc = "rename" => ids' \subseteq TurnIds(purger'.lines)
    <3>1. purger.pc = "rename" => ids' = ids
      BY <1>3 DEF Grows
    <3> QED
      BY <2>1, <3>1 DEF RewriteReads
  <2> QED
    BY <2>3, <2>4, <2>5 DEF RewriteReads, LogAppendsSurvive, TurnIds
<1> QED
  BY <1>1, <1>2, <1>3, LogChanges

-----------------------------------------------------------------------------
(* The plan of a pass.                                                     *)

(* What a writer puts while a pass removes is fresh, and stays it until it *)
(* is named.                                                               *)
LEMMA PutFresh ==
  ASSUME StorageTypes, PassSpares, Judging, NEW S, S \subseteq Hashes, Fresher(S)
  PROVE  /\ recorder'.pc = "evict" /\ recorder'.fresh = recorder.fresh \cup S
         /\ recorder'.victims = recorder.victims /\ recorder'.log = recorder.log
         /\ recorder'.promised = recorder.promised
BY DEF Fresher, Judging, StorageTypes, RecorderTypes

LEMMA PassStep ==
  ASSUME StorageTypes, PassSpares, [Next]_vars
  PROVE  PassSpares'
<1>1. ASSUME UNCHANGED <<recorder, journal, writer>> PROVE PassSpares'
  BY <1>1 DEF PassSpares, Judging, JournalRefs
<1>2. ASSUME recorder' = Idle \/ recorder' = Down \/ recorder' = [Idle EXCEPT !.pc = "load"]
      PROVE  PassSpares'
  <2>1. ASSUME recorder' = Idle PROVE PassSpares'
    BY <2>1 DEF PassSpares, Judging, Idle
  <2>2. ASSUME recorder' = Down PROVE PassSpares'
    BY <2>2 DEF PassSpares, Judging, Idle, Down
  <2>3. ASSUME recorder' = [Idle EXCEPT !.pc = "load"] PROVE PassSpares'
    BY <2>3 DEF PassSpares, Judging, Idle
  <2> QED
    BY <1>2, <2>1, <2>2, <2>3
<1>3. ASSUME ~ Judging, ~ Judging', recorder'.promised = recorder.promised PROVE PassSpares'
  BY <1>3 DEF PassSpares
<1>4. CASE StartRecorder \/ Crash \/ StopRecorder \/ EndPass
  BY <1>2, <1>4 DEF StartRecorder, Crash, StopRecorder, EndPass
<1>5. ASSUME NEW p \in Paths, NEW h \in Hashes, Record(p, h) PROVE PassSpares'
  <2>1. ~ Judging /\ ~ Judging' /\ recorder'.promised = recorder.promised
    BY <1>5 DEF Record, Put, Fresher, Judging, StorageTypes, RecorderTypes
  <2> QED
    BY <1>3, <2>1
<1>6. ASSUME NEW q \in Prompts \cup {None}, CloseTurn(q) PROVE PassSpares'
  <2>1. ~ Judging /\ ~ Judging' /\ recorder'.promised = recorder.promised
    BY <1>6 DEF CloseTurn, Put, Fresher, Judging, StorageTypes, RecorderTypes
  <2> QED
    BY <1>3, <2>1
<1>7. CASE BeginPass \/ LoadLog
  <2>1. ~ Judging /\ ~ Judging' /\ recorder'.promised = recorder.promised
    BY <1>7 DEF BeginPass, LoadLog, Judging, StorageTypes, RecorderTypes
  <2> QED
    BY <1>3, <2>1
<1>8. CASE PlanEviction
  <2> DEFINE V == Victims(recorder.log, ExtraProtected)
  <2>1. recorder.log \in Seq(Lines)
    BY DEF StorageTypes, RecorderTypes
  <2>2. /\ V \cap ExtraProtected = {} /\ V \cap PromptRefs(TurnSet(recorder.log)) = {}
        /\ Cardinality(TurnsAt(recorder.log)) > 1 =>
             V \cap Blobs(recorder.log[Newest(recorder.log)]) = {}
    BY <2>1, VictimsSpare
  <2>3. JournalRefs \subseteq ExtraProtected
    BY DEF ExtraProtected, RefsOutsideLog
  <2> HIDE DEF V
  <2>4. /\ recorder'.victims = V /\ recorder'.log = recorder.log
        /\ recorder'.promised = recorder.promised /\ recorder'.pc = "evict"
    BY <1>8 DEF PlanEviction, V, StorageTypes, RecorderTypes
  <2>5. recorder.promised = {}
    BY <1>8 DEF PlanEviction, PassSpares, Judging
  <2>6. UNCHANGED journal /\ (writer' # Quiet => writer'.put = {})
    BY <1>8 DEF PlanEviction, StorageTypes, WriterTypes
  <2>7. JournalRefs' = JournalRefs
    BY <2>6 DEF JournalRefs
  <2> QED
    BY <2>2, <2>3, <2>4, <2>5, <2>6, <2>7 DEF PassSpares, Judging
<1>9. ASSUME NEW h \in Hashes, Evict(h) PROVE PassSpares'
  <2>1. /\ Judging /\ recorder'.victims \subseteq recorder.victims
        /\ recorder'.log = recorder.log /\ recorder'.pc = recorder.pc
        /\ recorder'.promised = recorder.promised /\ recorder'.fresh = recorder.fresh
        /\ UNCHANGED <<journal, writer>>
    BY <1>9 DEF Evict, PassUnchanged, StorageTypes, RecorderTypes
  <2>2. JournalRefs' = JournalRefs
    BY <2>1 DEF JournalRefs
  <2> QED
    BY <2>1, <2>2 DEF PassSpares, Judging
<1>10. ASSUME NEW S, S \subseteq Hashes, NEW r, Writing(S, r) PROVE PassSpares'
  <2>1. Fresher(S) /\ UNCHANGED journal
    BY <1>10 DEF Writing, Put
  <2>2. CASE Judging
    <3>1. writer'.put = S
      BY <1>10, <2>2 DEF Writing
    <3>2. JournalRefs' = JournalRefs
      BY <2>1 DEF JournalRefs
    <3>3. recorder'.log = recorder.log /\ recorder'.pc = "evict"
      BY <1>10, <2>1, <2>2, PutFresh
    <3> QED
      BY <1>10, <2>1, <2>2, <3>1, <3>2, <3>3, PutFresh DEF PassSpares, Judging
  <2>3. CASE ~ Judging
    <3>1. ~ Judging' /\ recorder'.promised = recorder.promised
      BY <2>1, <2>3 DEF Fresher, Judging, StorageTypes, RecorderTypes
    <3> QED
      BY <1>3, <2>3, <3>1
  <2> QED
    BY <2>2, <2>3
<1>11. ASSUME NEW h \in Hashes, CapturePut(h) PROVE PassSpares'
  BY <1>10, <1>11 DEF CapturePut
<1>12. ASSUME NEW t \in TurnSet(log), NEW e \in t.files, UndoPut(t, e) PROVE PassSpares'
  BY <1>10, <1>12 DEF UndoPut
<1>13. ASSUME NEW p \in Paths, NEW h \in Hashes, NEW q \in Prompts \cup {None}, ImportPut(p, h, q)
       PROVE  PassSpares'
  <2>1. {h, q} \ {None} \subseteq Hashes
    BY StorageAssumption
  <2> QED
    BY <1>10, <1>13, <2>1 DEF ImportPut
<1>14. CASE WriterAppend
  <2>1. /\ recorder'.pc = recorder.pc /\ recorder'.victims = recorder.victims
        /\ recorder'.log = recorder.log /\ recorder'.fresh = recorder.fresh
        /\ recorder'.promised = IF Judging THEN recorder.promised \cup writer.put
                                ELSE recorder.promised
        /\ writer' = Quiet /\ writer # Quiet /\ UNCHANGED journal
    BY <1>14 DEF WriterAppend, StorageTypes, RecorderTypes
  <2>2. JournalRefs' = JournalRefs
    BY <2>1 DEF JournalRefs
  <2> QED
    BY <2>1, <2>2 DEF PassSpares, Judging
<1>15. CASE Age \/ RewriteLog \/ UNCHANGED vars \/ \E p \in Paths : Pin(p)
  BY <1>1, <1>15 DEF Age, RewriteLog, vars, Pin
<1>16. CASE \/ \E op \in Operations, cut \in {era, era + 1} : StartPurge(op, cut)
            \/ \E p \in Paths : StartPurgePath(p)
            \/ Refuse \/ ChoosePrompts \/ ChooseByDate \/ ChooseByPath \/ ChooseOrphans
            \/ ReadDuplicates \/ CheckLength \/ EndTake \/ KillPurge
            \/ \E h \in Hashes : TakeOne(h)
  BY <1>1, <1>16 DEF StartPurge, StartPurgePath, Refuse, ChoosePrompts, ChooseByDate,
     ChooseByPath, ChooseOrphans, ReadDuplicates, CheckLength, EndTake, KillPurge, TakeOne, OnlyPurger
<1>17. CASE \E h \in Hashes : Evict(h) \/ TakeOne(h) \/ CapturePut(h)
  <2>1. CASE \E h \in Hashes : TakeOne(h)
    BY <1>16, <2>1
  <2> QED
    BY <1>9, <1>11, <1>17, <2>1
<1> QED
  BY <1>4, <1>5, <1>6, <1>7, <1>8, <1>12, <1>13, <1>14, <1>15, <1>16, <1>17 DEF Next

-----------------------------------------------------------------------------
(* What the objects of a set weigh.  Each counts once, a big one twice.    *)

LEMMA NoneWeigh ==
  ASSUME NEW S, NEW store, S \cap store = {}
  PROVE  Weight(store, S) = 0
<1>1. (S \cap store) \cap Big = {}
  OBVIOUS
<1>2. Cardinality({}) = 0
  BY FS_EmptySet
<1> QED
  BY <1>1, <1>2 DEF Weight

LEMMA OneLess ==
  ASSUME NEW S, IsFiniteSet(S), NEW x \in S, NEW store
  PROVE  Weight(store, S) = SizeIn(store, x) + Weight(store, S \ {x})
<1> DEFINE A == S \cap store
           B == A \cap Big
           C == (S \ {x}) \cap store
           D == C \cap Big
<1>1. IsFiniteSet(A) /\ IsFiniteSet(B) /\ IsFiniteSet(C) /\ IsFiniteSet(D)
  <2>1. A \subseteq S /\ B \subseteq S /\ C \subseteq S /\ D \subseteq S
    OBVIOUS
  <2> QED
    BY <2>1, FS_Subset
<1>2. /\ Cardinality(A) \in Nat /\ Cardinality(B) \in Nat
      /\ Cardinality(C) \in Nat /\ Cardinality(D) \in Nat
  BY <1>1, FS_CardinalityType
<1>3. CASE x \notin store
  <2>1. A = C /\ B = D /\ SizeIn(store, x) = 0
    BY <1>3 DEF SizeIn
  <2>2. Weight(store, S) = Cardinality(A) + Cardinality(B)
        /\ Weight(store, S \ {x}) = Cardinality(C) + Cardinality(D)
    BY DEF Weight
  <2> HIDE DEF A, B, C, D
  <2> QED
    BY <1>2, <2>1, <2>2
<1>4. CASE x \in store
  <2>1. C = A \ {x} /\ x \in A /\ D = B \ {x} /\ (x \in B <=> x \in Big)
    BY <1>4
  <2> HIDE DEF A, B, C, D
  <2>2. Cardinality(A) = Cardinality(C) + 1
    <3>1. Cardinality(C) = Cardinality(A) - 1
      BY <1>1, <2>1, FS_RemoveElement
    <3> QED
      BY <1>2, <3>1
  <2>3. Cardinality(B) = Cardinality(D) + (IF x \in Big THEN 1 ELSE 0)
    <3>1. CASE x \in Big
      <4>1. Cardinality(D) = Cardinality(B) - 1
        BY <1>1, <2>1, <3>1, FS_RemoveElement
      <4> QED
        BY <1>2, <3>1, <4>1
    <3>2. CASE x \notin Big
      <4>1. D = B
        BY <2>1, <3>2
      <4> QED
        BY <1>2, <3>2, <4>1
    <3> QED
      BY <3>1, <3>2
  <2>4. SizeIn(store, x) = 1 + (IF x \in Big THEN 1 ELSE 0)
    BY <1>4 DEF SizeIn, Size
  <2>5. Weight(store, S) = Cardinality(A) + Cardinality(B)
        /\ Weight(store, S \ {x}) = Cardinality(C) + Cardinality(D)
    BY DEF Weight, A, B, C, D
  <2> QED
    BY <1>2, <2>2, <2>3, <2>4, <2>5
<1> QED
  BY <1>3, <1>4

(* The sum of a fold over a finite set: the weights satisfy its recursion, *)
(* and a function that does can differ from them at no smallest set.       *)
LEMMA FoldIsWeight ==
  ASSUME NEW S, IsFiniteSet(S), NEW store,
         NEW g, g = [s \in SUBSET S |->
                       IF s = {} THEN 0
                       ELSE SizeIn(store, CHOOSE x \in s : TRUE) + g[s \ {CHOOSE x \in s : TRUE}]]
  PROVE  g[S] = Weight(store, S)
<1> DEFINE wrong == {s \in SUBSET S : g[s] # Weight(store, s)}
           sizes == {Cardinality(s) : s \in wrong}
<1>1. \A s \in SUBSET S : IsFiniteSet(s) /\ Cardinality(s) \in Nat
  BY FS_Subset, FS_CardinalityType
<1>2. SUFFICES ASSUME wrong # {} PROVE FALSE
  OBVIOUS
<1>3. sizes \in SUBSET Nat /\ sizes # {}
  BY <1>1, <1>2
<1>4. PICK n \in sizes : \A m \in sizes : n <= m
  <2> HIDE DEF sizes
  <2> QED
    BY <1>3, LeastOf
<1>5. PICK s \in wrong : n = Cardinality(s)
  OBVIOUS
<1>6. CASE s = {}
  <2>1. g[s] = 0
    BY <1>6
  <2>2. Weight(store, s) = 0
    <3>1. s \cap store = {}
      BY <1>6
    <3> QED
      BY <3>1, NoneWeigh
  <2> QED
    BY <1>5, <2>1, <2>2
<1>7. CASE s # {}
  <2>1. PICK x : x = (CHOOSE y \in s : TRUE)
    OBVIOUS
  <2>2. x \in s
    BY <1>7, <2>1
  <2>3. g[s] = SizeIn(store, x) + g[s \ {x}]
    BY <1>7, <2>1
  <2>4. s \ {x} \in SUBSET S /\ Cardinality(s \ {x}) = Cardinality(s) - 1
    BY <1>1, <2>2, FS_RemoveElement
  <2>5. s \ {x} \notin wrong
    <3>1. SUFFICES ASSUME s \ {x} \in wrong PROVE FALSE
      OBVIOUS
    <3>2. Cardinality(s \ {x}) \in sizes
      BY <3>1
    <3>3. Cardinality(s) <= Cardinality(s \ {x})
      BY <1>4, <1>5, <3>2
    <3>4. Cardinality(s) \in Nat
      BY <1>1
    <3> QED
      BY <2>4, <3>3, <3>4
  <2>6. g[s \ {x}] = Weight(store, s \ {x})
    BY <2>4, <2>5
  <2>7. Weight(store, s) = SizeIn(store, x) + Weight(store, s \ {x})
    BY <1>1, <2>2, OneLess
  <2> QED
    BY <1>5, <2>3, <2>6, <2>7
<1> QED
  BY <1>6, <1>7

LEMMA BytesIs ==
  ASSUME NEW S, IsFiniteSet(S)
  PROVE  Bytes(S) = Weight(objects, S)
<1> DEFINE next(f, s) == IF s = {} THEN 0
                         ELSE SizeIn(objects, CHOOSE x \in s : TRUE)
                                + f[s \ {CHOOSE x \in s : TRUE}]
           Sums(f) == f = [s \in SUBSET S |-> next(f, s)]
           w == [s \in SUBSET S |-> Weight(objects, s)]
<1>1. Sums(w)
  <2>1. ASSUME NEW s \in SUBSET S PROVE Weight(objects, s) = next(w, s)
    <3>1. CASE s = {}
      <4>1. s \cap objects = {}
        BY <3>1
      <4> QED
        BY <3>1, <4>1, NoneWeigh
    <3>2. CASE s # {}
      <4>1. PICK x : x = (CHOOSE y \in s : TRUE)
        OBVIOUS
      <4>2. x \in s /\ IsFiniteSet(s) /\ s \ {x} \in SUBSET S
        BY <3>2, <4>1, FS_Subset
      <4>3. Weight(objects, s) = SizeIn(objects, x) + Weight(objects, s \ {x})
        BY <4>2, OneLess
      <4>4. next(w, s) = SizeIn(objects, x) + w[s \ {x}]
        BY <3>2, <4>1
      <4> QED
        BY <4>2, <4>3, <4>4
    <3> QED
      BY <3>1, <3>2
  <2> QED
    BY <2>1
<1>2. Sums(CHOOSE f : Sums(f))
  <2> HIDE DEF Sums, w
  <2> QED
    BY <1>1, Zenon
<1> DEFINE g == CHOOSE f : Sums(f)
<1>3. g[S] = Weight(objects, S)
  <2>1. g = [s \in SUBSET S |-> next(g, s)]
    <3> HIDE DEF g, next
    <3>1. Sums(g)
      <4> USE DEF g
      <4> HIDE DEF Sums
      <4> QED
        BY <1>2
    <3> QED
      BY <3>1
  <2> HIDE DEF g
  <2> QED
    BY <2>1, FoldIsWeight
<1>4. Bytes(S) = g[S]
  BY DEF Bytes, MapThenSumSet, MapThenFoldSet
<1> QED
  BY <1>3, <1>4

LEMMA WeightLess ==
  ASSUME NEW A, NEW B, IsFiniteSet(B), NEW p, NEW q, A \cap p \subseteq B \cap q
  PROVE  Weight(p, A) <= Weight(q, B) /\ Weight(p, A) \in Nat
<1>1. /\ IsFiniteSet(B \cap q) /\ IsFiniteSet((B \cap q) \cap Big)
  BY FS_Subset
<1>2. (A \cap p) \cap Big \subseteq (B \cap q) \cap Big
  OBVIOUS
<1>3. /\ IsFiniteSet(A \cap p) /\ Cardinality(A \cap p) <= Cardinality(B \cap q)
  BY <1>1, FS_Subset
<1>4. /\ IsFiniteSet((A \cap p) \cap Big)
      /\ Cardinality((A \cap p) \cap Big) <= Cardinality((B \cap q) \cap Big)
  BY <1>1, <1>2, FS_Subset
<1>5. /\ Cardinality(A \cap p) \in Nat /\ Cardinality((A \cap p) \cap Big) \in Nat
      /\ Cardinality(B \cap q) \in Nat /\ Cardinality((B \cap q) \cap Big) \in Nat
  BY <1>1, <1>3, <1>4, FS_CardinalityType
<1> QED
  BY <1>3, <1>4, <1>5 DEF Weight

-----------------------------------------------------------------------------
(* The budget of a pass.                                                   *)

(* What the plan leaves of the turns the budget does not cover is to be    *)
(* spared, and what newer turns name is within the budget.                 *)
LEMMA PlanFits ==
  ASSUME NEW lines \in Seq(Lines), NEW P
  PROVE  Weight(objects, Unexcused(lines, P) \ Victims(lines, P)) <= Budget
<1> DEFINE b == Boundary(lines)
           T == TurnsAt(lines)
           over == {i \in T : OverBudget(lines, i)}
           newer == {k \in T : k >= b + 1}
           Rest == Unexcused(lines, P) \ Victims(lines, P)
<1>1. /\ T \in SUBSET Nat /\ T \subseteq 1 .. Len(lines) /\ Len(lines) \in Nat
      /\ TurnSet(lines) = {lines[i] : i \in T} /\ \A i \in T : lines[i] \in Lines
  BY LinesOf DEF TurnsAt
<1>2. b \in Nat /\ \A i \in over : i <= b
  <2> DEFINE S == {0} \cup over
  <2>1. S \in SUBSET Nat /\ S # {} /\ \A x \in S : x <= Len(lines)
    BY <1>1
  <2> HIDE DEF S
  <2>2. Max(S) \in S /\ \A x \in S : x <= Max(S)
    BY <1>1, <2>1, MaxOf
  <2>3. b = Max(S)
    BY DEF S, Boundary
  <2> QED
    BY <2>1, <2>2, <2>3 DEF S
<1> HIDE DEF b
<1>3. Rest \subseteq Newer(lines, b + 1)
  <2> SUFFICES ASSUME NEW x \in Rest, x \notin Newer(lines, b + 1) PROVE FALSE
    OBVIOUS
  <2>1. PICK j \in T : x \in Blobs(lines[j])
    BY <1>1 DEF Unexcused, Snapshots
  <2>2. ~ (j >= b + 1) /\ j \in Nat
    BY <1>1, <2>1 DEF Newer, Snapshots
  <2>3. j <= b
    BY <1>2, <2>2
  <2>4. x \in Snapshots({lines[i] : i \in {k \in T : k <= b}})
    BY <2>1, <2>3 DEF Snapshots
  <2>5. x \notin P /\ x \notin PromptRefs(TurnSet(lines))
    BY DEF Unexcused
  <2>6. x \in Victims(lines, P)
    BY <2>4, <2>5 DEF Victims, b
  <2> QED
    BY <2>6
<1>4. Newer(lines, b + 1) \subseteq Hashes
  <2>1. {lines[j] : j \in newer} \subseteq Lines
    BY <1>1
  <2> QED
    BY <2>1, JoinedTypes DEF Newer
<1>5. ASSUME Rest = {} PROVE Weight(objects, Rest) <= Budget
  <2>1. Rest \cap objects = {}
    BY <1>5
  <2>2. Weight(objects, Rest) = 0
    <3> HIDE DEF Rest
    <3> QED
      BY <2>1, NoneWeigh
  <2> QED
    BY <2>2, StorageAssumption
<1>6. CASE newer = {}
  <2>1. Newer(lines, b + 1) = {}
    BY <1>6 DEF Newer, Snapshots
  <2> QED
    BY <1>3, <1>5, <2>1
<1>7. CASE newer # {}
  <2>1. PICK i \in newer : \A k \in newer : i <= k
    <3>1. newer \in SUBSET Nat
      BY <1>1
    <3> HIDE DEF newer
    <3> QED
      BY <1>7, <3>1, LeastOf
  <2>2. i \in T /\ i \in Nat /\ i >= b + 1
    BY <1>1, <2>1
  <2>3. {k \in T : k >= i} = newer
    BY <1>1, <1>2, <2>1, <2>2
  <2>4. Newer(lines, i) = Newer(lines, b + 1)
    BY <2>3 DEF Newer
  <2>5. ~ OverBudget(lines, i)
    BY <1>2, <2>2
  <2>6. CASE ~ (Bytes(Newer(lines, i)) > Budget)
    <3>1. IsFiniteSet(Newer(lines, b + 1))
      BY <1>4, FS_Subset, StorageAssumption
    <3>2. Bytes(Newer(lines, b + 1)) = Weight(objects, Newer(lines, b + 1))
      BY <3>1, BytesIs
    <3> HIDE DEF Rest
    <3>3. Weight(objects, Rest) <= Weight(objects, Newer(lines, b + 1))
          /\ Weight(objects, Rest) \in Nat
      <4>1. Rest \cap objects \subseteq Newer(lines, b + 1) \cap objects
        BY <1>3
      <4> QED
        BY <3>1, <4>1, WeightLess
    <3>4. Weight(objects, Newer(lines, b + 1)) \in Nat
      BY <3>1, WeightLess
    <3>5. Weight(objects, Newer(lines, b + 1)) <= Budget
      BY <2>4, <2>6, <3>2, <3>4, StorageAssumption
    <3>6. Weight(objects, Rest) <= Budget
      BY <3>3, <3>4, <3>5, StorageAssumption
    <3> QED
      BY <3>6 DEF Rest
  <2>7. CASE i = Newest(lines) /\ Cardinality(T) > 1
    <3>1. \A k \in T : k <= i
      <4>1. T # {} /\ \A x \in T : x <= Len(lines)
        BY <1>1, <2>2
      <4> HIDE DEF T
      <4>2. \A k \in T : k <= Max(T)
        BY <1>1, <4>1, MaxOf
      <4> QED
        BY <2>7, <4>2 DEF Newest, T
    <3>2. \A k \in newer : k = i
      BY <1>1, <2>1, <3>1
    <3>3. Newer(lines, b + 1) \subseteq Blobs(lines[i])
      BY <3>2 DEF Newer, Snapshots
    <3>4. NewestBlobs(lines) = Blobs(lines[i])
      BY <2>7 DEF NewestBlobs
    <3>5. Rest = {}
      BY <1>3, <3>3, <3>4 DEF Unexcused
    <3> QED
      BY <1>5, <3>5
  <2> QED
    BY <2>5, <2>6, <2>7 DEF OverBudget
<1> QED
  BY <1>6, <1>7

(* A pass that goes on: an object comes with its hash in "touched", and a  *)
(* victim is taken, or is there.                                           *)
LEMMA ShrinksOn ==
  ASSUME StorageTypes, PassShrinks, Judging,
         recorder'.log = recorder.log, recorder'.spared = recorder.spared,
         recorder'.fresh \subseteq recorder'.touched,
         recorder.touched \subseteq recorder'.touched,
         objects' \subseteq objects \cup recorder'.touched,
         (recorder.victims \ recorder'.victims) \cap objects' \subseteq recorder'.touched
  PROVE  PassShrinks'
<1> DEFINE U == Unexcused(recorder.log, recorder.spared)
<1>1. Unexcused(recorder.log, recorder.spared)' = U
  BY DEF Unexcused, Snapshots, TurnSet, PromptRefs, NewestBlobs, TurnsAt, Newest
<1>2. IsFiniteSet(U)
  <2>1. TurnSet(recorder.log) \subseteq Lines
    BY LinesOf DEF StorageTypes, RecorderTypes, TurnSet
  <2>2. U \subseteq Hashes
    BY <2>1, JoinedTypes DEF Unexcused
  <2> QED
    BY <2>2, FS_Subset, StorageAssumption
<1> HIDE DEF U
<1> DEFINE A == U \ (recorder'.touched \cup recorder'.victims)
           B == U \ (recorder.touched \cup recorder.victims)
<1>3. IsFiniteSet(B) /\ A \cap objects' \subseteq B \cap objects
  <2>1. B \subseteq U
    OBVIOUS
  <2> QED
    BY <1>2, <2>1, FS_Subset
<1>4. Weight(objects, B) <= Budget
  BY DEF PassShrinks, U
<1>5. Weight(objects', A) <= Weight(objects, B) /\ Weight(objects', A) \in Nat
      /\ Weight(objects, B) \in Nat
  <2> HIDE DEF A, B
  <2> QED
    BY <1>3, WeightLess
<1>6. Weight(objects', A) <= Budget
  <2> HIDE DEF A, B
  <2> QED
    BY <1>4, <1>5, StorageAssumption
<1>7. Weight(objects, Unexcused(recorder.log, recorder.spared)
                        \ (recorder.touched \cup recorder.victims))' = Weight(objects', A)
  BY <1>1 DEF Weight
<1> QED
  BY <1>6, <1>7 DEF PassShrinks

LEMMA ShrinkStep ==
  ASSUME StorageTypes, PassShrinks, [Next]_vars
  PROVE  PassShrinks'
<1>1. ASSUME ~ Judging', recorder'.fresh \subseteq recorder'.touched PROVE PassShrinks'
  BY <1>1 DEF PassShrinks
<1>2. ASSUME UNCHANGED recorder, objects' \subseteq objects PROVE PassShrinks'
  <2>1. CASE Judging
    <3>1. /\ recorder'.fresh \subseteq recorder'.touched
          /\ recorder.victims \ recorder'.victims = {}
      BY <1>2 DEF PassShrinks
    <3> QED
      BY <1>2, <2>1, <3>1, ShrinksOn
  <2>2. CASE ~ Judging
    BY <1>1, <1>2, <2>2 DEF PassShrinks, Judging
  <2> QED
    BY <2>1, <2>2
<1>3. ASSUME recorder' = Idle \/ recorder' = Down \/ recorder' = [Idle EXCEPT !.pc = "load"]
      PROVE  PassShrinks'
  BY <1>1, <1>3 DEF Judging, Idle, Down
<1>4. CASE StartRecorder \/ Crash \/ StopRecorder \/ EndPass
  BY <1>3, <1>4 DEF StartRecorder, Crash, StopRecorder, EndPass
<1>5. CASE BeginPass \/ LoadLog
  <2>1. /\ recorder'.fresh = recorder.fresh /\ recorder'.touched = recorder.touched
        /\ recorder'.pc # "evict"
    BY <1>5 DEF BeginPass, LoadLog, StorageTypes, RecorderTypes
  <2> QED
    BY <1>1, <2>1 DEF PassShrinks, Judging
<1>6. ASSUME NEW S, Put(S) PROVE PassShrinks'
  <2>1. /\ objects' = objects \cup S /\ recorder'.pc = recorder.pc
        /\ recorder'.log = recorder.log /\ recorder'.spared = recorder.spared
        /\ recorder'.victims = recorder.victims
        /\ recorder'.fresh = IF Judging THEN recorder.fresh \cup S ELSE recorder.fresh
        /\ recorder'.touched = IF recorder.pc \in {"plan", "evict"} THEN recorder.touched \cup S
                               ELSE recorder.touched
    BY <1>6 DEF Put, Fresher, StorageTypes, RecorderTypes
  <2>2. recorder'.fresh \subseteq recorder'.touched
    BY <2>1 DEF PassShrinks, Judging
  <2>3. CASE Judging
    <3>1. /\ recorder.touched \subseteq recorder'.touched
          /\ objects' \subseteq objects \cup recorder'.touched
          /\ recorder.victims \ recorder'.victims = {}
      BY <2>1, <2>3 DEF Judging
    <3> QED
      BY <2>1, <2>2, <2>3, <3>1, ShrinksOn
  <2>4. CASE ~ Judging
    BY <1>1, <2>1, <2>2, <2>4 DEF Judging
  <2> QED
    BY <2>3, <2>4
<1>7. CASE \E p \in Paths, h \in Hashes : Record(p, h)
  BY <1>6, <1>7 DEF Record
<1>8. CASE \E q \in Prompts \cup {None} : CloseTurn(q)
  BY <1>6, <1>8 DEF CloseTurn
<1>9. CASE \/ \E h \in Hashes : CapturePut(h)
           \/ \E t \in TurnSet(log) : \E e \in t.files : UndoPut(t, e)
           \/ \E p \in Paths, h \in Hashes, q \in Prompts \cup {None} : ImportPut(p, h, q)
  BY <1>6, <1>9 DEF CapturePut, UndoPut, ImportPut, Writing
<1>10. CASE PlanEviction
  <2> DEFINE V == Victims(recorder.log, ExtraProtected)
             U == Unexcused(recorder.log, ExtraProtected)
  <2>1. recorder.log \in Seq(Lines)
    BY DEF StorageTypes, RecorderTypes
  <2>2. Weight(objects, U \ V) <= Budget
    BY <2>1, PlanFits
  <2>3. IsFiniteSet(U \ V)
    <3>1. TurnSet(recorder.log) \subseteq Lines
      BY <2>1, LinesOf DEF TurnSet
    <3>2. U \ V \subseteq Hashes
      BY <3>1, JoinedTypes DEF Unexcused
    <3> QED
      BY <3>2, FS_Subset, StorageAssumption
  <2>4. /\ recorder'.victims = V /\ recorder'.log = recorder.log /\ recorder'.spared = ExtraProtected
        /\ recorder'.touched = recorder.touched /\ recorder'.fresh = recorder.fresh
        /\ objects' = objects
    BY <1>10 DEF PlanEviction, Spare, StorageTypes, RecorderTypes
  <2>5. Unexcused(recorder.log, recorder.spared)' = U
    BY <2>4 DEF Unexcused, Snapshots, TurnSet, PromptRefs, NewestBlobs, TurnsAt, Newest
  <2> HIDE DEF U, V
  <2> DEFINE A == U \ (recorder.touched \cup V)
  <2>6. Weight(objects, Unexcused(recorder.log, recorder.spared)
                          \ (recorder.touched \cup recorder.victims))' = Weight(objects, A)
    BY <2>4, <2>5 DEF Weight
  <2>7. A \cap objects \subseteq (U \ V) \cap objects
    OBVIOUS
  <2> HIDE DEF A
  <2>8. Weight(objects, A) <= Weight(objects, U \ V) /\ Weight(objects, A) \in Nat
    BY <2>3, <2>7, WeightLess
  <2>9. Weight(objects, U \ V) \in Nat
    BY <2>3, WeightLess
  <2>10. Weight(objects, A) <= Budget
    BY <2>2, <2>8, <2>9, StorageAssumption
  <2> QED
    BY <2>4, <2>6, <2>10 DEF PassShrinks
<1>11. ASSUME NEW h \in Hashes, Evict(h) PROVE PassShrinks'
  <2>1. /\ Judging /\ recorder'.victims = recorder.victims \ {h}
        /\ recorder'.log = recorder.log /\ recorder'.spared = recorder.spared
        /\ recorder'.touched = recorder.touched /\ recorder'.fresh = recorder.fresh
        /\ objects' \subseteq objects
        /\ h \in recorder.fresh \/ h \notin objects'
    BY <1>11 DEF Evict, Take, Spare, StorageTypes, RecorderTypes
  <2>2. /\ recorder'.fresh \subseteq recorder'.touched
        /\ (recorder.victims \ recorder'.victims) \cap objects' \subseteq recorder'.touched
    BY <2>1 DEF PassShrinks
  <2>3. objects' \subseteq objects \cup recorder'.touched
    BY <2>1
  <2> QED
    BY <2>1, <2>2, <2>3, ShrinksOn
<1>12. ASSUME NEW h \in Hashes, TakeOne(h) PROVE PassShrinks'
  <2>1. UNCHANGED recorder /\ objects' \subseteq objects
    BY <1>12 DEF TakeOne, Take, Spare, OnlyPurger
  <2> QED
    BY <1>2, <2>1
<1>13. CASE WriterAppend
  <2>1. /\ recorder'.pc = recorder.pc /\ recorder'.victims = recorder.victims
        /\ recorder'.log = recorder.log /\ recorder'.spared = recorder.spared
        /\ recorder'.touched = recorder.touched /\ recorder'.fresh = recorder.fresh
        /\ objects' = objects
    BY <1>13 DEF WriterAppend, StorageTypes, RecorderTypes
  <2>2. recorder'.fresh \subseteq recorder'.touched
    BY <2>1 DEF PassShrinks
  <2>3. CASE Judging
    <3>1. /\ recorder.touched \subseteq recorder'.touched
          /\ objects' \subseteq objects \cup recorder'.touched
          /\ recorder.victims \ recorder'.victims = {}
      BY <2>1
    <3> QED
      BY <2>1, <2>2, <2>3, <3>1, ShrinksOn
  <2>4. CASE ~ Judging
    BY <1>1, <2>1, <2>2, <2>4 DEF Judging
  <2> QED
    BY <2>3, <2>4
<1>14. CASE Age \/ RewriteLog \/ UNCHANGED vars \/ \E p \in Paths : Pin(p)
  BY <1>2, <1>14 DEF Age, RewriteLog, vars, Pin
<1>15. CASE \/ \E op \in Operations, cut \in {era, era + 1} : StartPurge(op, cut)
            \/ \E p \in Paths : StartPurgePath(p)
            \/ Refuse \/ ChoosePrompts \/ ChooseByDate \/ ChooseByPath \/ ChooseOrphans
            \/ ReadDuplicates \/ CheckLength \/ EndTake \/ KillPurge
  BY <1>2, <1>15 DEF StartPurge, StartPurgePath, Refuse, ChoosePrompts, ChooseByDate,
     ChooseByPath, ChooseOrphans, ReadDuplicates, CheckLength, EndTake, KillPurge, OnlyPurger, Spare
<1> QED
  BY <1>4, <1>5, <1>7, <1>8, <1>9, <1>10, <1>11, <1>12, <1>13, <1>14, <1>15 DEF Next

-----------------------------------------------------------------------------
(* What a purge is about to take, and the journal.                         *)

LEMMA JournalBlobs ==
  ASSUME StorageTypes
  PROVE  /\ JournalRefs \subseteq Hashes
         /\ JournalAfters \cap Hashes \subseteq JournalRefs
<1>1. journal # None => journal.files \subseteq Entries
  BY DEF StorageTypes, FileTypes, TurnLines, Lines
<1> QED
  BY <1>1, StorageAssumption DEF JournalRefs, JournalAfters, Blobs, EntryBlobs, Entries, Contents

(* The journal is cleared, or a content is recorded in it and put.         *)
LEMMA JournalChanges ==
  ASSUME StorageTypes, [Next]_vars
  PROVE  UNCHANGED journal \/ journal' = None
           \/ \E p \in Paths, h \in Hashes : Record(p, h)
<1>1. CASE StartRecorder \/ \E q \in Prompts \cup {None} : CloseTurn(q)
  BY <1>1 DEF StartRecorder, CloseTurn
<1>2. CASE Crash \/ StopRecorder \/ BeginPass \/ LoadLog \/ PlanEviction \/ EndPass
             \/ WriterAppend \/ Age \/ UNCHANGED vars \/ RewriteLog
             \/ \E p \in Paths : Pin(p)
  BY <1>2 DEF Crash, StopRecorder, BeginPass, LoadLog, PlanEviction, EndPass, WriterAppend,
     Age, vars, RewriteLog, Pin, PassUnchanged
<1>3. CASE \/ \E h \in Hashes : Evict(h) \/ TakeOne(h) \/ CapturePut(h)
           \/ \E t \in TurnSet(log) : \E e \in t.files : UndoPut(t, e)
           \/ \E p \in Paths, h \in Hashes, q \in Prompts \cup {None} : ImportPut(p, h, q)
  BY <1>3 DEF Evict, TakeOne, CapturePut, UndoPut, ImportPut, Writing, PassUnchanged, OnlyPurger
<1>4. CASE \/ \E op \in Operations, cut \in {era, era + 1} : StartPurge(op, cut)
           \/ \E p \in Paths : StartPurgePath(p)
           \/ Refuse \/ ChoosePrompts \/ ChooseByDate \/ ChooseByPath \/ ChooseOrphans
           \/ ReadDuplicates \/ CheckLength \/ EndTake \/ KillPurge
  BY <1>4 DEF StartPurge, StartPurgePath, Refuse, ChoosePrompts, ChooseByDate,
     ChooseByPath, ChooseOrphans, ReadDuplicates, CheckLength, EndTake, KillPurge, OnlyPurger
<1> QED
  BY <1>1, <1>2, <1>3, <1>4 DEF Next

LEMMA RecordJournal ==
  ASSUME StorageTypes, NEW p \in Paths, NEW h \in Hashes, Record(p, h)
  PROVE  JournalAfters' \subseteq JournalAfters \cup {h}
<1>1. CASE journal = None
  <2>1. journal'.files = {Entry(p, seen[p], h)}
    BY <1>1 DEF Record, Turn
  <2> QED
    BY <2>1 DEF JournalAfters, Entry
<1>2. CASE journal # None
  <2>1. journal'.files = Extend(journal.files, p, h)
    BY <1>2 DEF Record, StorageTypes, FileTypes, TurnLines, Lines
  <2>2. ASSUME NEW f \in Extend(journal.files, p, h)
        PROVE  f \in journal.files \/ f.after = h
    <3>1. journal.files \subseteq Entries
      BY <1>2 DEF StorageTypes, FileTypes, TurnLines, Lines
    <3> QED
      BY <2>2, <3>1 DEF Extend, Entry, Entries
  <2> QED
    BY <1>2, <2>1, <2>2 DEF JournalAfters
<1> QED
  BY <1>1, <1>2

(* The same purge goes on, with no more to take than before.               *)
Shrinks ==
  /\ purger'.pc = purger.pc /\ purger'.op = purger.op
  /\ purger'.cand \subseteq purger.cand
  /\ purger'.fresh = purger.fresh
  /\ purger'.overlap = purger.overlap

LEMMA PurgeGoesOn ==
  ASSUME StorageTypes, PurgeSpares, Shrinks,
         UNCHANGED journal \/ journal' = None,
         RecorderLives' => RecorderLives
  PROVE  PurgeSpares'
<1>1. JournalRefs' \subseteq JournalRefs /\ JournalAfters' \subseteq JournalAfters
  BY DEF JournalRefs, JournalAfters
<1> QED
  BY <1>1 DEF PurgeSpares, Shrinks

LEMMA PurgeStep ==
  ASSUME StorageTypes, PurgeSpares, [Next]_vars
  PROVE  PurgeSpares'
<1>1. ASSUME NEW S, Fresher(S)
      PROVE  /\ purger'.pc = purger.pc /\ purger'.op = purger.op /\ purger'.cand = purger.cand
             /\ purger'.overlap = purger.overlap /\ purger.fresh \subseteq purger'.fresh
             /\ purger.pc = "take" /\ purger.op = "orphans" => purger'.fresh = purger.fresh \cup S
             /\ recorder'.pc = recorder.pc
  BY <1>1 DEF Fresher, StorageTypes, PurgerTypes, RecorderTypes
<1>2. ASSUME NEW S, Put(S), UNCHANGED journal \/ journal' = None PROVE PurgeSpares'
  <2>1. Fresher(S)
    BY <1>2 DEF Put
  <2>2. JournalRefs' \subseteq JournalRefs /\ JournalAfters' \subseteq JournalAfters
    BY <1>2 DEF JournalRefs, JournalAfters
  <2> QED
    BY <1>1, <2>1, <2>2 DEF PurgeSpares, RecorderLives
<1>3. ASSUME NEW p \in Paths, NEW h \in Hashes, Record(p, h) PROVE PurgeSpares'
  <2>1. Fresher({h}) /\ RecorderLives
    BY <1>3 DEF Record, Put, RecorderLives
  <2>2. JournalAfters' \subseteq JournalAfters \cup {h}
    BY <1>3, RecordJournal
  <2>3. purger.op = "path" => purger.overlap
    BY <2>1 DEF PurgeSpares
  <2> QED
    BY <1>1, <2>1, <2>2, <2>3 DEF PurgeSpares
<1>4. ASSUME NEW q \in Prompts \cup {None}, CloseTurn(q) PROVE PurgeSpares'
  BY <1>2, <1>4 DEF CloseTurn
<1>5. ASSUME NEW S, NEW r, Writing(S, r) PROVE PurgeSpares'
  BY <1>2, <1>5 DEF Writing
<1>6. CASE \/ \E h \in Hashes : CapturePut(h)
           \/ \E t \in TurnSet(log) : \E e \in t.files : UndoPut(t, e)
           \/ \E p \in Paths, h \in Hashes, q \in Prompts \cup {None} : ImportPut(p, h, q)
  BY <1>5, <1>6 DEF CapturePut, UndoPut, ImportPut
<1>7. CASE StartRecorder
  <2>1. /\ purger'.pc = purger.pc /\ purger'.op = purger.op
        /\ purger'.overlap = (purger.pc # "idle") /\ journal' = None
    BY <1>7 DEF StartRecorder, StorageTypes, PurgerTypes
  <2>2. JournalAfters' = {}
    BY <2>1 DEF JournalAfters
  <2> QED
    BY <2>1, <2>2 DEF PurgeSpares
<1>8. CASE Crash \/ StopRecorder \/ BeginPass \/ LoadLog \/ PlanEviction \/ EndPass \/ WriterAppend
             \/ Age \/ UNCHANGED vars \/ (\E p \in Paths : Pin(p)) \/ \E h \in Hashes : Evict(h)
  <2>1. UNCHANGED <<purger, journal>>
    BY <1>8 DEF Crash, StopRecorder, BeginPass, LoadLog, PlanEviction, EndPass, WriterAppend,
       Age, vars, Pin, Evict, PassUnchanged
  <2>2. RecorderLives' => RecorderLives
    <3>1. CASE Crash \/ StopRecorder
      BY <3>1 DEF Crash, StopRecorder, RecorderLives
    <3>2. CASE BeginPass \/ LoadLog \/ PlanEviction \/ EndPass \/ \E h \in Hashes : Evict(h)
      BY <3>2 DEF BeginPass, LoadLog, PlanEviction, EndPass, Evict, Judging, RecorderLives
    <3>3. CASE WriterAppend \/ Age \/ UNCHANGED vars \/ \E p \in Paths : Pin(p)
      BY <3>3 DEF WriterAppend, Age, vars, Pin, RecorderLives, StorageTypes, RecorderTypes
    <3> QED
      BY <1>8, <3>1, <3>2, <3>3
  <2> QED
    BY <2>1, <2>2, PurgeGoesOn DEF Shrinks
<1>9. ASSUME purger' = Resting PROVE PurgeSpares'
  BY <1>9, RestingOf DEF PurgeSpares
<1>10. CASE Refuse \/ KillPurge \/ RewriteLog
  BY <1>9, <1>10 DEF Refuse, KillPurge, RewriteLog, Done
<1>11. ASSUME NEW op \in Operations, NEW cut \in {era, era + 1}, StartPurge(op, cut)
       PROVE  PurgeSpares'
  <2>1. purger' = [Resting EXCEPT !.pc = "prompts", !.op = op, !.cut = cut, !.lines = log]
    BY <1>11 DEF StartPurge
  <2>2. purger'.pc = "prompts" /\ purger'.op = op /\ op # "path"
    BY <1>11, <2>1 DEF StartPurge, Resting
  <2> QED
    BY <2>2 DEF PurgeSpares
<1>12. ASSUME NEW p \in Paths, StartPurgePath(p) PROVE PurgeSpares'
  <2>1. purger' = [Resting EXCEPT !.pc = "rescan", !.op = "path", !.path = p,
                                  !.cand = PathCandidates(p) \ PathProtect(p)]
    BY <1>12 DEF StartPurgePath
  <2>2. purger'.pc = "rescan" /\ purger'.op = "path" /\ purger'.cand = PathCandidates(p) \ PathProtect(p)
    BY <2>1 DEF Resting
  <2>3. ~ RecorderLives' /\ JournalRefs' = JournalRefs
    BY <1>12 DEF StartPurgePath, MayPurge, OnlyPurger, RecorderLives, JournalRefs
  <2>4. JournalRefs \subseteq PathProtect(p)
    BY DEF PathProtect, RefsOutsideLog
  <2> QED
    BY <2>2, <2>3, <2>4 DEF PurgeSpares
<1>13. ASSUME OnlyPurger, purger.op # "path", NEW pc \in {"takePrompts", "take", "op", "archived", "rename"},
              purger'.pc = pc, purger'.op = purger.op,
              pc = "take" => purger.op = "date"
       PROVE  PurgeSpares'
  BY <1>13 DEF PurgeSpares
<1>14. CASE ChoosePrompts \/ ChooseByDate \/ ReadDuplicates \/ CheckLength
  <2>1. OnlyPurger /\ purger.op # "path"
    BY <1>14 DEF ChoosePrompts, ChooseByDate, ReadDuplicates, CheckLength, Purging, PurgeSpares
  <2>2. \/ purger' = Resting
        \/ purger'.pc = "take" /\ purger.op = "date" /\ purger'.op = purger.op
        \/ purger'.pc \in {"takePrompts", "archived", "rename"} /\ purger'.op = purger.op
    BY <1>14 DEF ChoosePrompts, ChooseByDate, ReadDuplicates, CheckLength, Step, Done,
       StorageTypes, PurgerTypes
  <2> QED
    BY <1>9, <1>13, <2>1, <2>2
<1>15. CASE ChooseByPath
  <2>1. /\ purger'.pc = "take" /\ purger'.op = purger.op /\ purger'.overlap = purger.overlap
        /\ purger'.cand \subseteq purger.cand /\ purger.pc = "rescan"
    BY <1>15 DEF ChooseByPath, Step, Purging, StorageTypes, PurgerTypes
  <2>2. UNCHANGED <<recorder, journal>>
    BY <1>15 DEF ChooseByPath, OnlyPurger
  <2>3. JournalRefs' = JournalRefs
    BY <2>2 DEF JournalRefs
  <2> QED
    BY <2>1, <2>2, <2>3 DEF PurgeSpares, RecorderLives
<1>16. CASE ChooseOrphans
  <2>1. /\ purger'.pc = "take" /\ purger'.op = "orphans"
        /\ purger'.cand = Hashes \ ReferencedHashes
    BY <1>16 DEF ChooseOrphans, Step, Purging, StorageTypes, PurgerTypes
  <2>2. JournalAfters' = JournalAfters
    BY <1>16 DEF ChooseOrphans, OnlyPurger, JournalAfters
  <2>3. JournalAfters \cap Hashes \subseteq ReferencedHashes
    <3>1. JournalRefs \subseteq ReferencedHashes
      <4>1. JournalRefs \subseteq RefsOutsideLog
        BY DEF RefsOutsideLog
      <4>2. RefsOutsideLog \subseteq ReferencedHashes
        BY DEF ReferencedHashes
      <4> QED
        BY <4>1, <4>2
    <3> QED
      BY <3>1, JournalBlobs
  <2> QED
    BY <2>1, <2>2, <2>3 DEF PurgeSpares
<1>17. ASSUME NEW h \in Hashes, TakeOne(h) PROVE PurgeSpares'
  <2>1. Shrinks /\ UNCHANGED <<recorder, journal>>
    BY <1>17 DEF TakeOne, OnlyPurger, Shrinks, StorageTypes, PurgerTypes
  <2> QED
    BY <2>1, PurgeGoesOn DEF RecorderLives
<1>18. CASE EndTake
  <2>1. CASE Purging("takePrompts") /\ purger.op # "prompts"
    <3>1. purger'.pc = "op" /\ purger'.op = purger.op
      BY <1>18, <2>1 DEF EndTake, Step, StorageTypes, PurgerTypes
    <3>2. purger.op # "path" /\ OnlyPurger
      BY <1>18, <2>1 DEF EndTake, Purging, PurgeSpares
    <3> QED
      BY <1>13, <3>1, <3>2
  <2>2. CASE ~ (Purging("takePrompts") /\ purger.op # "prompts")
    BY <1>9, <1>18, <2>2 DEF EndTake, Done
  <2> QED
    BY <2>1, <2>2
<1>19. CASE \E h \in Hashes : Evict(h) \/ TakeOne(h) \/ CapturePut(h)
  <2>1. CASE \E h \in Hashes : Evict(h)
    BY <1>8, <2>1
  <2>2. CASE \E h \in Hashes : CapturePut(h)
    BY <1>6, <2>2
  <2> QED
    BY <1>17, <1>19, <2>1, <2>2
<1> QED
  BY <1>3, <1>4, <1>6, <1>7, <1>8, <1>10, <1>11, <1>12, <1>14, <1>15, <1>16, <1>18, <1>19 DEF Next

-----------------------------------------------------------------------------
(* The theorems.                                                           *)

LEMMA JournalStep ==
  ASSUME StorageTypes, PassSpares, PurgeSpares, JournalRecoverable, [Next]_vars
  PROVE  JournalRecoverable'
<1>0. JournalRecoverable <=> JournalAfters \subseteq objects \cup forsaken
  BY DEF JournalRecoverable, JournalAfters
<1>1. JournalAfters' \subseteq objects' \cup forsaken' => JournalRecoverable'
  BY DEF JournalRecoverable, JournalAfters
<1>2. CASE Keeping
  <2>1. CASE UNCHANGED journal \/ journal' = None
    <3>1. JournalAfters' \subseteq JournalAfters
      BY <2>1 DEF JournalAfters
    <3> QED
      BY <1>0, <1>1, <1>2, <3>1 DEF Keeping
  <2>2. ASSUME NEW p \in Paths, NEW h \in Hashes, Record(p, h) PROVE JournalRecoverable'
    <3>1. JournalAfters' \subseteq JournalAfters \cup {h} /\ h \in objects'
      BY <2>2, RecordJournal DEF Record, Put
    <3> QED
      BY <1>0, <1>1, <1>2, <3>1 DEF Keeping
  <2> QED
    BY <2>1, <2>2, JournalChanges
<1>3. ASSUME NEW h \in Hashes, Evict(h) PROVE JournalRecoverable'
  <2>1. JournalAfters' = JournalAfters
    BY <1>3 DEF Evict, PassUnchanged, JournalAfters
  <2>2. UNCHANGED <<objects, forsaken>> \/ (objects' = objects \ {h} /\ forsaken' = forsaken)
    BY <1>3 DEF Evict, Spare, Take
  <2>3. h \notin JournalAfters
    BY <1>3, JournalBlobs DEF Evict, PassSpares
  <2> QED
    BY <1>0, <1>1, <2>1, <2>2, <2>3
<1>4. ASSUME NEW h \in Hashes, TakeOne(h) PROVE JournalRecoverable'
  <2>1. JournalAfters' = JournalAfters
    BY <1>4 DEF TakeOne, OnlyPurger, JournalAfters
  <2>2. CASE h \in purger.fresh
    <3>1. UNCHANGED <<objects, forsaken>>
      BY <1>4, <2>2 DEF TakeOne, Spare
    <3> QED
      BY <1>0, <1>1, <2>1, <3>1
  <2>3. CASE h \notin purger.fresh /\ Heedless
    <3>1. objects' = objects \ {h} /\ (h \in objects => forsaken' = forsaken \cup {h})
            /\ forsaken \subseteq forsaken'
      BY <1>4, <2>3 DEF TakeOne, Take
    <3> QED
      BY <1>0, <1>1, <2>1, <3>1
  <2>4. CASE h \notin purger.fresh /\ ~ Heedless
    <3>1. /\ objects' = objects \ {h} /\ forsaken' = forsaken
          /\ purger.pc = "take" /\ h \in purger.cand
          /\ purger.op # "date" /\ ~ (purger.op = "path" /\ purger.overlap)
      BY <1>4, <2>4 DEF TakeOne, Take, Heedless, Purging
    <3>2. h \notin JournalAfters
      <4>1. CASE purger.op = "path"
        BY <3>1, <4>1, JournalBlobs DEF PurgeSpares
      <4>2. CASE purger.op = "orphans"
        BY <2>4, <3>1, <4>2 DEF PurgeSpares
      <4> QED
        BY <3>1, <4>1, <4>2 DEF PurgeSpares
    <3> QED
      BY <1>0, <1>1, <2>1, <3>1, <3>2
  <2> QED
    BY <2>2, <2>3, <2>4
<1> QED
  BY <1>2, <1>3, <1>4, ObjectChanges

LEMMA InitStorage == Init => StorageInv
<1> SUFFICES ASSUME Init PROVE StorageInv
  OBVIOUS
<1>1. recorder = Down /\ purger = Resting /\ journal = None /\ ids = {}
  BY DEF Init
<1>2. PassSpares /\ PassShrinks
  BY <1>1 DEF PassSpares, PassShrinks, Judging, Down, Idle
<1>3. PurgeSpares /\ RewriteReads
  BY <1>1, RestingOf DEF PurgeSpares, RewriteReads
<1>4. LogAppendsSurvive /\ JournalRecoverable
  BY <1>1 DEF LogAppendsSurvive, JournalRecoverable
<1> QED
  BY <1>2, <1>3, <1>4, InitTypes DEF StorageInv

(* The inductive invariant of the store and its processes.                 *)
THEOREM StorageInvariant == Spec => []StorageInv
<1>1. StorageInv /\ [Next]_vars => StorageInv'
  BY TypesStep, PassStep, ShrinkStep, PurgeStep, LogStep, JournalStep DEF StorageInv
<1> QED
  BY <1>1, InitStorage, PTL DEF Spec

(* Rewriting the log without its duplicates loses no turn that undo,       *)
(* import or a recorder appended on a line of its own, for any number of   *)
(* them: log.lock, the second look at the length and the rename suffice    *)
(* (purge_log_duplicates, append_log_locked).                              *)
THEOREM AppendsSurvive == Spec => []LogAppendsSurvive
BY StorageInvariant, PTL DEF StorageInv

(* What the crash journal says a file holds is in the store, unless a      *)
(* purge that does not read open.json took it: neither an eviction pass    *)
(* nor --orphans nor --path removes it.                                    *)
THEOREM JournalReadable == Spec => []JournalRecoverable
BY StorageInvariant, PTL DEF StorageInv

(* An eviction pass takes nothing of the open turn, of the newest turn or  *)
(* of a prompt, nor what was put and named while it was removing.          *)
THEOREM PassesSpareLive == Spec => EvictionSparesLive
<1> DEFINE Spares == \A h \in objects \ objects' :
             recorder' # recorder =>
               /\ h \notin JournalRefs \cup recorder.promised
               /\ Cardinality(TurnsAt(recorder.log)) > 1 =>
                    h \notin Blobs(recorder.log[Newest(recorder.log)])
               /\ h \notin PromptRefs(TurnSet(recorder.log))
<1>1. StorageInv /\ [Next]_vars => [Spares]_vars
  <2> SUFFICES ASSUME StorageInv, [Next]_vars, NEW h \in objects \ objects',
                      recorder' # recorder
               PROVE  /\ h \notin JournalRefs \cup recorder.promised
                      /\ Cardinality(TurnsAt(recorder.log)) > 1 =>
                           h \notin Blobs(recorder.log[Newest(recorder.log)])
                      /\ h \notin PromptRefs(TurnSet(recorder.log))
    OBVIOUS
  <2>1. PICK k \in Hashes : Evict(k) \/ TakeOne(k)
    BY ObjectChanges DEF Keeping
  <2>2. ~ TakeOne(k)
    BY DEF TakeOne, OnlyPurger
  <2>3. Judging /\ h = k /\ h \in recorder.victims /\ h \notin recorder.fresh
    BY <2>1, <2>2 DEF Evict, Spare, Take
  <2> QED
    BY <2>3 DEF StorageInv, PassSpares
<1> QED
  BY <1>1, StorageInvariant, PTL DEF Spec, EvictionSparesLive

(* A pass that is over has brought what the log it read names within the   *)
(* budget, whatever was put, taken or appended meanwhile, but for what it  *)
(* must spare (plan_eviction and execute of retention.rs).                 *)
THEOREM PassesEndWithinBudget == Spec => []BudgetEnforced
<1>1. StorageInv => BudgetEnforced
  <2> SUFFICES ASSUME StorageInv, Judging, recorder.victims = {} PROVE BudgetEnforced
    BY DEF BudgetEnforced
  <2> DEFINE lines == recorder.log
             R == Unexcused(lines, recorder.spared) \ recorder.touched
             excused == recorder.spared \cup PromptRefs(TurnSet(lines)) \cup recorder.touched
                          \cup IF Cardinality(TurnsAt(lines)) > 1
                               THEN Blobs(lines[Newest(lines)]) ELSE {}
  <2>1. Snapshots(TurnSet(lines)) \ excused = R
    BY DEF Unexcused, NewestBlobs
  <2>2. IsFiniteSet(R)
    <3>1. TurnSet(lines) \subseteq Lines
      BY LinesOf DEF StorageInv, StorageTypes, RecorderTypes, TurnSet
    <3>2. R \subseteq Hashes
      BY <3>1, JoinedTypes DEF Unexcused
    <3> QED
      BY <3>2, FS_Subset, StorageAssumption
  <2>3. R = Unexcused(lines, recorder.spared) \ (recorder.touched \cup recorder.victims)
    OBVIOUS
  <2>4. Weight(objects, R) <= Budget
    BY <2>3 DEF StorageInv, PassShrinks
  <2> HIDE DEF R
  <2>5. Bytes(R) <= Budget
    BY <2>2, <2>4, BytesIs
  <2>6. Bytes(Snapshots(TurnSet(lines)) \ excused) <= Budget
    BY <2>1, <2>5
  <2> QED
    BY <2>6 DEF BudgetEnforced
<1> QED
  BY <1>1, StorageInvariant, PTL
=============================================================================
