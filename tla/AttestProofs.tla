---------------------------- MODULE AttestProofs ----------------------------
(* Proofs about Attestation: whatever commands, daemon, user and kills do  *)
(* at the same time, attest.jsonl keeps what its readers rely on.          *)
(*                                                                         *)
(* One inductive invariant carries all of it. Besides the types it says    *)
(* what a process holds between its read of the log and its append: the    *)
(* daemon nothing but notes, a verification that owns the extract nothing  *)
(* but what it saw there, and any other command no verdict at all.         *)
EXTENDS Attestation, FiniteSetTheorems, SequenceTheorems, TLAPS

-----------------------------------------------------------------------------
(* The lines of the file and the states of a process.                      *)

DeriveLines == [kind : {"derive"}, claim : Claims \cup {None}, test : Tests,
                hash : Hashes \cup {None}, from : Tests \cup {None}]
EvidenceLines == [kind : {"evidence"}, claim : Claims, test : Tests]
StaleLines == [kind : {"stale"}, claim : Claims]
HumanLines == [kind : {"human"}, claim : Claims, answer : Answers]
DeclareLines == [kind : {"declare"}, claim : {None}, severity : Severities]
VerdictLines == [kind : {"verdict"}, claim : Claims, test : Tests, verdict : Verdicts,
                 commit : Contents, ran : SUBSET Contents, last : Outcomes, fails : 0 .. MaxRuns]

OtherLines == DeriveLines \cup EvidenceLines \cup HumanLines \cup DeclareLines
Lines == OtherLines \cup StaleLines \cup VerdictLines

Items == [claim : Claims, test : Tests]

Plans == [pc : {"plan"}, disc : [Tests -> Hashes \cup {None, "absent"}]]
Captures == [pc : {"ran"}, tests : SUBSET Tests]
Selects == [pc : {"select"}, commit : Contents, ids : SUBSET Claims]
Waits == [pc : {"wait"}, commit : Contents, todo : Seq(Items) \ {<< >>}]
Measures == [pc : {"measure"}, map : [Claims -> SUBSET Files]]
Reviews == [pc : {"review"}, cards : Seq(Claims) \ {<< >>}]
Replaying == [pc : {"replay"}, commit : Contents, todo : Seq(Items) \ {<< >>},
              fails : 0 .. MaxRuns - 1, ran : SUBSET Contents]

Appends(S, next) == [pc : {"append"}, batch : Seq(S) \ {<< >>}, next : next]

Rest == {Resting}
OtherStates == Rest \cup Plans \cup Captures \cup Selects \cup Waits \cup Measures \cup Reviews
               \cup Appends(OtherLines, Rest \cup Reviews)

LogTypes ==
  /\ claims \in [Claims -> ClaimState]
  /\ index \in [Tests -> Claims \cup {None}]

(* What the user and the daemon work on. *)
WorldTypes ==
  /\ tree \in Contents /\ head \in Contents /\ extract \in Contents
  /\ covmap \in [Claims -> SUBSET Files] /\ pending \in SUBSET Files
  /\ DOMAIN proc = Writers

Allowed ==
  /\ {"tests", "versions"} \subseteq DOMAIN left
  /\ left.tests \subseteq [Tests -> Bodies \cup {None}] /\ left.versions \subseteq Versions

(* A verdict of runs that all ran in an extract of the commit it names.    *)
Earned(e) ==
  /\ e.ran = {e.commit}
  /\ e.verdict = "confirmed" => e.fails = 0
  /\ e.verdict = "claim-false" => e.fails = MaxRuns
  /\ e.verdict \in {"confirmed", "claim-false"} => e.commit.tests[e.test] # None

(* Between two runs: all that failed so far ran in the commit.             *)
Underway(s) == s.ran = IF s.fails = 0 THEN {} ELSE {s.commit}

(* A process that owns the extract directory x, which holds its commit:    *)
(* between two runs, or with a verdict to append.                          *)
InReplay(s, x) == s \in Replaying /\ Underway(s) /\ x = s.commit

WithVerdict(s, x) ==
  /\ s \in Appends(VerdictLines, Rest \cup Replaying)
  /\ Len(s.batch) = 1 /\ Earned(s.batch[1])
  /\ s.next = Resting \/ InReplay(s.next, x)

(* What a command holds, and what the daemon does. *)
Holds ==
  \A p \in Procs :
    \/ proc[p] \in OtherStates
    \/ verifyLock = p /\ (InReplay(proc[p], extract) \/ WithVerdict(proc[p], extract))

DaemonNotes == proc[Daemon] \in Rest \cup Appends(StaleLines, Rest)

(* A claim with a settled status has the verdict that settled it. *)
Founded ==
  \A c \in Claims :
    /\ basis[c] # None => basis[c] \in VerdictLines /\ Earned(basis[c])
    /\ claims[c].status \in {"confirmed", "claim-false"} =>
         basis[c] \in VerdictLines /\ claims[c].status = basis[c].verdict

(* A refuted claim is not in the queue of stale claims, nor on its way.    *)
RefutedSettled == \A c \in Claims : Refuted(c) => ~ Stale(c) /\ c \notin due

(* Whatever is due is a claim. *)
DueTypes == due \in SUBSET Claims /\ basis \in [Claims -> VerdictLines \cup {None}]

AttestInv ==
  /\ LogTypes /\ WorldTypes /\ Allowed /\ DueTypes
  /\ Holds /\ DaemonNotes
  /\ Founded /\ RefutedSettled /\ IndexCurrent /\ NotesKept

-----------------------------------------------------------------------------
(* Sequences made of sets. *)

LEMMA ClaimsFinite == ASSUME NEW S \in SUBSET Claims PROVE IsFiniteSet(S)
<1>1. IsFiniteSet(1 .. MaxClaims)
  BY AttestLogAssumption, FS_Interval
<1> QED
  BY <1>1, FS_Subset DEF Claims

(* The elements of a finite set, once each. *)
LEMMA SetToSeqOf ==
  ASSUME NEW S, IsFiniteSet(S)
  PROVE  SetToSeq(S) \in Seq(S) /\ DOMAIN SetToSeq(S) = 1 .. Cardinality(S)
<1>1. Cardinality(S) \in Nat /\ ExistsBijection(1 .. Cardinality(S), S)
  BY FS_CardinalityType
<1>2. \E f \in [1 .. Cardinality(S) -> S] : IsInjective(f)
  BY <1>1 DEF ExistsBijection, Bijection, Injection
<1>3. SetToSeq(S) \in [1 .. Cardinality(S) -> S]
  BY <1>2 DEF SetToSeq
<1> QED
  BY <1>1, <1>3

(* Some sequence has the claims of a set in order: the inverse of how many *)
(* of them are no younger.                                                 *)
LEMMA OrderExists ==
  ASSUME NEW S \in SUBSET Claims
  PROVE  \E s \in [1 .. Cardinality(S) -> S] : \A i, j \in DOMAIN s : i < j => s[i] < s[j]
<1> DEFINE n == Cardinality(S)
           Upto(x) == {y \in S : y <= x}
           rank == [x \in S |-> Cardinality(Upto(x))]
<1>1. IsFiniteSet(S) /\ n \in Nat /\ S \subseteq Nat
  BY ClaimsFinite, FS_CardinalityType, AttestLogAssumption DEF Claims
<1>2. IsFiniteSet(1 .. n) /\ Cardinality(1 .. n) = n
  BY <1>1, FS_Interval
<1>3. ASSUME NEW x \in S PROVE IsFiniteSet(Upto(x)) /\ rank[x] \in 1 .. n
  <2>1. IsFiniteSet(Upto(x)) /\ Cardinality(Upto(x)) <= n
    BY <1>1, FS_Subset, Upto(x) \in SUBSET S
  <2>2. x \in Upto(x)
    BY <1>1
  <2>3. Cardinality(Upto(x)) \in Nat /\ Cardinality(Upto(x)) # 0
    BY <2>1, <2>2, FS_CardinalityType, FS_EmptySet
  <2> QED
    BY <1>1, <2>1, <2>3
<1>4. ASSUME NEW x \in S, NEW y \in S, x < y PROVE rank[x] < rank[y]
  <2> x \in Nat /\ y \in Nat
    BY <1>1
  <2>1. Upto(x) \in SUBSET Upto(y) /\ Upto(x) # Upto(y)
    <3>1. y \in Upto(y) /\ y \notin Upto(x)
      BY <1>4
    <3>2. ASSUME NEW z \in Upto(x) PROVE z \in Upto(y)
      BY <1>1, <1>4
    <3> QED
      BY <3>1, <3>2
  <2>2. Cardinality(Upto(x)) <= Cardinality(Upto(y)) /\ Cardinality(Upto(x)) # Cardinality(Upto(y))
    BY <1>3, <2>1, FS_Subset
  <2> QED
    BY <1>1, <1>3, <2>2
<1>5. rank \in Injection(S, 1 .. n)
  <2>1. rank \in [S -> 1 .. n]
    BY <1>3
  <2>2. ASSUME NEW x \in S, NEW y \in S, rank[x] = rank[y] PROVE x = y
    <3>1. x \in Nat /\ y \in Nat /\ rank[x] \in Nat
      BY <1>1, <2>1
    <3> QED
      BY <1>4, <2>2, <3>1
  <2> HIDE DEF rank
  <2> QED
    BY <2>1, <2>2 DEF Injection, IsInjective
<1>6. rank \in Surjection(S, 1 .. n)
  <2> HIDE DEF rank, n
  <2> QED
    BY <1>1, <1>2, <1>5, FS_Injection DEF n
<1> DEFINE s == [i \in 1 .. n |-> CHOOSE x \in S : rank[x] = i]
<1>7. ASSUME NEW i \in 1 .. n PROVE s[i] \in S /\ rank[s[i]] = i
  <2> HIDE DEF rank, n
  <2> QED
    BY <1>6 DEF Surjection
<1> HIDE DEF rank, s
<1>8. ASSUME NEW i \in 1 .. n, NEW j \in 1 .. n, i < j PROVE s[i] < s[j]
  <2> i # j
    BY <1>1, <1>8
  <2> s[i] \in S /\ s[j] \in S /\ rank[s[i]] = i /\ rank[s[j]] = j
    BY <1>7
  <2>1. s[i] \in Nat /\ s[j] \in Nat /\ s[i] # s[j]
    BY <1>1
  <2>2. CASE s[j] < s[i]
    <3>1. rank[s[j]] < rank[s[i]]
      BY <1>4, <1>7, <2>2
    <3> QED
      BY <1>1, <1>7, <1>8, <3>1
  <2> QED
    BY <2>1, <2>2
<1>9. s \in [1 .. n -> S] /\ DOMAIN s = 1 .. n
  BY <1>7 DEF s
<1> QED
  BY <1>8, <1>9

(* What a process walks through is the claims of the set, and all of them. *)
LEMMA InOrderOf ==
  ASSUME NEW S \in SUBSET Claims
  PROVE  /\ InOrder(S) \in Seq(S) /\ DOMAIN InOrder(S) = 1 .. Len(InOrder(S))
         /\ \A c \in S : \E i \in DOMAIN InOrder(S) : InOrder(S)[i] = c
<1> DEFINE n == Cardinality(S)
           s == InOrder(S)
<1>1. IsFiniteSet(S) /\ n \in Nat /\ S \subseteq Nat
  BY ClaimsFinite, FS_CardinalityType, AttestLogAssumption DEF Claims
<1>2. s \in [1 .. n -> S] /\ \A i, j \in DOMAIN s : i < j => s[i] < s[j]
  BY OrderExists DEF InOrder
<1> HIDE DEF s
<1>3. s \in Injection(1 .. n, S)
  <2>1. ASSUME NEW i \in 1 .. n, NEW j \in 1 .. n, s[i] = s[j] PROVE i = j
    <3>1. s[i] \in Nat /\ s[j] \in Nat
      BY <1>1, <1>2
    <3> QED
      BY <1>1, <1>2, <2>1, <3>1
  <2> QED
    BY <1>2, <2>1 DEF Injection, IsInjective
<1>4. s \in Surjection(1 .. n, S)
  <2>1. Cardinality(1 .. n) = n
    BY <1>1, FS_Interval
  <2> HIDE DEF n
  <2> QED
    BY <1>1, <1>3, <2>1, FS_Injection DEF n
<1> QED
  BY <1>1, <1>2, <1>4 DEF Surjection, s

(* A sequence made element by element of another. *)
LEMMA EachOf ==
  ASSUME NEW S, NEW E, NEW s \in Seq(S), NEW f, f = [i \in DOMAIN s |-> f[i]],
         \A i \in DOMAIN s : f[i] \in E
  PROVE  f \in Seq(E) /\ Len(f) = Len(s) /\ DOMAIN f = DOMAIN s
<1>1. Len(s) \in Nat /\ DOMAIN s = 1 .. Len(s)
  BY LenProperties
<1>2. f \in [1 .. Len(s) -> E]
  BY <1>1
<1> QED
  BY <1>1, <1>2

(* What is left when the first of a sequence is taken. *)
LEMMA HeadAndTail ==
  ASSUME NEW S, NEW s \in Seq(S), s # << >>
  PROVE  /\ Head(s) = s[1] /\ Head(s) \in S /\ Tail(s) \in Seq(S)
         /\ 1 \in DOMAIN s /\ Range(s) = {Head(s)} \cup Range(Tail(s))
         /\ Len(s) = 1 => Tail(s) = << >>
<1>1. Len(s) \in Nat \ {0} /\ DOMAIN s = 1 .. Len(s)
  BY EmptySeq, LenProperties
<1>2. /\ Head(s) \in S /\ Tail(s) \in Seq(S) /\ Len(Tail(s)) = Len(s) - 1
      /\ \A i \in 1 .. Len(Tail(s)) : Tail(s)[i] = s[i + 1]
  BY HeadTailProperties
<1>3. DOMAIN Tail(s) = 1 .. Len(s) - 1
  BY <1>2, LenProperties
<1>4. Range(s) = {s[1]} \cup Range(Tail(s))
  <2>1. ASSUME NEW x \in Range(s) PROVE x \in {s[1]} \cup Range(Tail(s))
    <3>1. PICK i \in 1 .. Len(s) : x = s[i]
      BY <1>1 DEF Range
    <3>2. CASE i # 1
      <4>1. i - 1 \in 1 .. Len(s) - 1 /\ Tail(s)[i - 1] = s[i]
        BY <1>1, <1>2, <3>2
      <4> QED
        BY <1>3, <3>1, <4>1 DEF Range
    <3> QED
      BY <3>1, <3>2
  <2>2. ASSUME NEW x \in Range(Tail(s)) PROVE x \in Range(s)
    <3>1. PICK i \in 1 .. Len(s) - 1 : x = Tail(s)[i]
      BY <1>3 DEF Range
    <3>2. i + 1 \in 1 .. Len(s) /\ x = s[i + 1]
      BY <1>1, <1>2, <3>1
    <3> QED
      BY <1>1, <3>2 DEF Range
  <2>3. s[1] \in Range(s)
    BY <1>1 DEF Range
  <2> QED
    BY <2>1, <2>2, <2>3
<1>5. Len(s) = 1 => Tail(s) = << >>
  <2> SUFFICES ASSUME Len(s) = 1 PROVE Tail(s) = << >>
    OBVIOUS
  <2>1. Len(Tail(s)) \notin Nat \ {0}
    BY <1>2
  <2> QED
    BY <1>2, <2>1, EmptySeq
<1> QED
  BY <1>1, <1>2, <1>4, <1>5

-----------------------------------------------------------------------------
(* What one line makes of its claim. *)

(* It stays a claim, and only a verdict settles or refutes it. *)
LEMMA LineApplied ==
  ASSUME NEW s \in ClaimState, NEW e \in Lines
  PROVE  /\ Applied(s, e) \in ClaimState
         /\ s.status = "claim-false" => Applied(s, e).status = "claim-false" /\ (~ s.stale => ~ Applied(s, e).stale)
         /\ s.stale /\ ~ (Settles(e) /\ s.status # "claim-false") => Applied(s, e).stale
         /\ e.kind = "stale" /\ s.status # "claim-false" => Applied(s, e).stale
         /\ Applied(s, e).status \in {"confirmed", "claim-false"} =>
              \/ Applied(s, e).status = s.status /\ ~ (e.kind = "verdict" /\ s.status # "claim-false")
              \/ e.kind = "verdict" /\ e.verdict = Applied(s, e).status /\ ~ Applied(s, e).stale
                 /\ s.status # "claim-false"
<1> USE DEF ClaimState, Statuses, Verdicts, Answers, Born, Settles
<1>1. CASE e \in DeriveLines
  BY <1>1 DEF DeriveLines, Applied, Derived
<1>2. CASE e \in EvidenceLines
  <2>1. Applied(s, e) = Evidenced(s, e) /\ e.kind = "evidence" /\ e.test \in Tests
    BY <1>2 DEF EvidenceLines, Applied
  <2> DEFINE named == [Born(s) EXCEPT !.test = IF @ = None THEN e.test ELSE @]
             a == Evidenced(s, e)
  <2>2. /\ named \in ClaimState /\ named.stale = s.stale
        /\ named.status = IF s.status = "unseen" THEN "derived" ELSE s.status
    BY <2>1
  <2>3. a = IF named.status = "derived" THEN [named EXCEPT !.status = "evidenced"] ELSE named
    BY DEF Evidenced, Moved
  <2> HIDE DEF named
  <2>4. /\ a \in ClaimState /\ a.stale = s.stale
        /\ a.status = IF s.status \in {"unseen", "derived"} THEN "evidenced" ELSE s.status
    BY <2>2, <2>3
  <2> HIDE DEF a
  <2> QED
    BY <2>1, <2>4 DEF a
<1>3. CASE e \in VerdictLines
  <2>1. Applied(s, e) = Judged(s, e) /\ e.kind = "verdict" /\ e.verdict \in Verdicts
    BY <1>3 DEF VerdictLines, Applied
  <2> DEFINE m == Moved(Born(s), e.verdict)
             a == Judged(s, e)
  <2>2. /\ m \in ClaimState /\ m.stale = s.stale
        /\ m.status = IF s.status = "claim-false" THEN "claim-false" ELSE e.verdict
    BY <2>1 DEF Moved
  <2>3. a = IF s.status # "claim-false" /\ e.verdict \in {"confirmed", "claim-false"}
            THEN [m EXCEPT !.stale = FALSE] ELSE m
    BY DEF Judged
  <2> HIDE DEF m
  <2>4. /\ a \in ClaimState
        /\ a.status = IF s.status = "claim-false" THEN "claim-false" ELSE e.verdict
        /\ a.stale = IF s.status # "claim-false" /\ e.verdict \in {"confirmed", "claim-false"}
                     THEN FALSE ELSE s.stale
    BY <2>2, <2>3
  <2> HIDE DEF a
  <2> QED
    BY <2>1, <2>4 DEF a
<1>4. CASE e \in StaleLines
  BY <1>4 DEF StaleLines, Applied, Staled
<1>5. CASE e \in HumanLines
  BY <1>5 DEF HumanLines, Applied, Answered, Moved
<1>6. CASE e \in DeclareLines
  BY <1>6 DEF DeclareLines, Applied, Declared
<1> QED
  BY <1>1, <1>2, <1>3, <1>4, <1>5, <1>6 DEF Lines, OtherLines

(* Which test the claim is about afterwards. *)
LEMMA TestApplied ==
  ASSUME NEW s \in ClaimState, NEW e \in Lines
  PROVE  /\ e.kind = "derive" => e.test \in Tests /\ Applied(s, e).test = e.test
         /\ e.kind = "evidence" => e.test \in Tests /\ Applied(s, e).test = IF s.test = None THEN e.test ELSE s.test
         /\ e.kind \notin {"derive", "evidence"} => Applied(s, e).test = s.test
<1> USE DEF ClaimState, Statuses, Verdicts, Answers, Born, Settles
<1>1. CASE e \in DeriveLines
  BY <1>1 DEF DeriveLines, Applied, Derived
<1>2. CASE e \in EvidenceLines
  BY <1>2 DEF EvidenceLines, Applied, Evidenced, Moved
<1>3. CASE e \in VerdictLines
  BY <1>3 DEF VerdictLines, Applied, Judged, Moved
<1>4. CASE e \in StaleLines
  BY <1>4 DEF StaleLines, Applied, Staled
<1>5. CASE e \in HumanLines
  BY <1>5 DEF HumanLines, Applied, Answered, Moved
<1>6. CASE e \in DeclareLines
  BY <1>6 DEF DeclareLines, Applied, Declared
<1> QED
  BY <1>1, <1>2, <1>3, <1>4, <1>5, <1>6 DEF Lines, OtherLines

(* A line that is appended: one claim is moved by it, and the index names  *)
(* for every identity the claim that carries it.                           *)
LEMMA LogStep ==
  ASSUME LogTypes, IndexCurrent, NEW e \in Lines, AppendEvent(e)
  PROVE  /\ LogTypes' /\ IndexCurrent'
         /\ ClaimOf(e) \in Claims
         /\ claims' = [claims EXCEPT ![ClaimOf(e)] = Applied(claims[ClaimOf(e)], e)]
<1> DEFINE c == ClaimOf(e)
<1>1. c \in Claims /\ claims' = [claims EXCEPT ![c] = Applied(claims[c], e)] /\ index' = Indexed(c, e)
  BY DEF AppendEvent
<1> HIDE DEF c
<1>2. claims[c] \in ClaimState
  BY <1>1 DEF LogTypes
<1>3. Applied(claims[c], e) \in ClaimState
  BY <1>2, LineApplied
<1>4. claims' \in [Claims -> ClaimState]
  BY <1>1, <1>3 DEF LogTypes
<1>5. /\ claims'[c] = Applied(claims[c], e)
      /\ \A d \in Claims : d # c => claims'[d] = claims[d]
  BY <1>1 DEF LogTypes
<1>6. None \notin Tests /\ None \notin Claims
  BY AttestLogAssumption DEF Claims
<1>7. CASE e.kind = "derive"
  <2>1. e.test \in Tests /\ claims'[c].test = e.test
    BY <1>2, <1>5, <1>7, TestApplied
  <2>2. index' = [t \in Tests |-> IF t = e.test THEN c
                                  ELSE IF t = claims[c].test THEN None ELSE index[t]]
    BY <1>1, <1>7 DEF Indexed
  <2>3. index' \in [Tests -> Claims \cup {None}]
    BY <1>1, <2>2 DEF LogTypes
  <2>4. ASSUME NEW t \in Tests, index'[t] # None PROVE claims'[index'[t]].test = t
    <3>1. CASE t = e.test
      BY <2>1, <2>2, <3>1
    <3>2. CASE t # e.test
      <4>1. index'[t] = index[t] /\ t # claims[c].test
        BY <2>2, <2>4, <3>2
      <4>2. index[t] \in Claims /\ claims[index[t]].test = t
        BY <2>4, <4>1 DEF LogTypes, IndexCurrent
      <4> QED
        BY <1>5, <4>1, <4>2
    <3> QED
      BY <3>1, <3>2
  <2> QED
    BY <1>1, <1>4, <2>3, <2>4 DEF LogTypes, IndexCurrent, c
<1>8. CASE e.kind = "evidence" /\ claims[c].test = None
  <2>1. e.test \in Tests /\ claims'[c].test = e.test
    BY <1>2, <1>5, <1>8, TestApplied
  <2>2. index' = [index EXCEPT ![e.test] = c]
    BY <1>1, <1>8 DEF Indexed
  <2>3. index' \in [Tests -> Claims \cup {None}]
    BY <1>1, <2>2 DEF LogTypes
  <2>4. ASSUME NEW t \in Tests, index'[t] # None PROVE claims'[index'[t]].test = t
    <3>1. CASE t = e.test
      BY <2>1, <2>2, <3>1 DEF LogTypes
    <3>2. CASE t # e.test
      <4>1. index'[t] = index[t]
        BY <2>2, <3>2 DEF LogTypes
      <4>2. index[t] \in Claims /\ claims[index[t]].test = t
        BY <2>4, <4>1 DEF LogTypes, IndexCurrent
      <4> QED
        BY <1>5, <1>6, <1>8, <4>1, <4>2
    <3> QED
      BY <3>1, <3>2
  <2> QED
    BY <1>1, <1>4, <2>3, <2>4 DEF LogTypes, IndexCurrent, c
<1>9. CASE e.kind # "derive" /\ ~ (e.kind = "evidence" /\ claims[c].test = None)
  <2>1. index' = index
    BY <1>1, <1>9 DEF Indexed
  <2>2. claims'[c].test = claims[c].test
    BY <1>2, <1>5, <1>9, TestApplied
  <2>3. ASSUME NEW t \in Tests, index[t] # None PROVE claims'[index[t]].test = t
    <3>1. index[t] \in Claims /\ claims[index[t]].test = t
      BY <2>3 DEF LogTypes, IndexCurrent
    <3> QED
      BY <1>5, <2>2, <3>1
  <2> QED
    BY <1>1, <1>4, <2>1, <2>3 DEF LogTypes, IndexCurrent, c
<1> QED
  BY <1>7, <1>8, <1>9

-----------------------------------------------------------------------------
(* Steps that leave the log alone. *)

LEMMA UseKeeps ==
  ASSUME Allowed, NEW what, what \notin {"tests", "versions"}, Use(what)
  PROVE  Allowed'
BY DEF Allowed, Use

(* A command goes on: what it holds afterwards is all there is to show.    *)
LEMMA CommandGoes ==
  ASSUME AttestInv, Allowed', NEW p \in Procs, NEW next, Goes(p, next),
         UNCHANGED <<attestLog, tree, head, covmap, pending, verifyLock, extract, due, basis>>,
         \/ next \in OtherStates
         \/ verifyLock = p /\ (InReplay(next, extract) \/ WithVerdict(next, extract))
  PROVE  AttestInv'
<1>1. /\ proc' = [proc EXCEPT ![p] = next] /\ DOMAIN proc' = Writers
      /\ proc'[p] = next /\ \A q \in Writers : q # p => proc'[q] = proc[q]
  BY DEF Goes, AttestInv, WorldTypes, Writers
<1>2. p # Daemon /\ proc'[Daemon] = proc[Daemon]
  BY <1>1, AttestationAssumption DEF Writers
<1>3. LogTypes' /\ WorldTypes' /\ DueTypes' /\ Founded' /\ RefutedSettled' /\ IndexCurrent'
  BY <1>1 DEF AttestInv, LogTypes, WorldTypes, DueTypes, Founded, RefutedSettled, IndexCurrent,
              attestLog, Refuted, Stale
<1>4. Holds'
  <2> SUFFICES ASSUME NEW q \in Procs
               PROVE  \/ proc'[q] \in OtherStates
                      \/ verifyLock' = q /\ (InReplay(proc'[q], extract') \/ WithVerdict(proc'[q], extract'))
    BY DEF Holds
  <2> QED
    BY <1>1 DEF AttestInv, Holds, Writers
<1>5. DaemonNotes' /\ NotesKept'
  BY <1>2 DEF AttestInv, DaemonNotes, NotesKept, attestLog, Stale
<1> QED
  BY <1>3, <1>4, <1>5 DEF AttestInv

(* The program counter tells what a command holds. *)
LEMMA PcTells ==
  ASSUME AttestInv, NEW p \in Procs
  PROVE  /\ proc[p].pc = "plan" => proc[p] \in Plans
         /\ proc[p].pc = "ran" => proc[p] \in Captures
         /\ proc[p].pc = "select" => proc[p] \in Selects
         /\ proc[p].pc = "wait" => proc[p] \in Waits
         /\ proc[p].pc = "measure" => proc[p] \in Measures
         /\ proc[p].pc = "review" => proc[p] \in Reviews
         /\ proc[p].pc = "replay" => verifyLock = p /\ InReplay(proc[p], extract)
         /\ proc[p].pc = "append" =>
              \/ proc[p] \in Appends(OtherLines, Rest \cup Reviews)
              \/ verifyLock = p /\ WithVerdict(proc[p], extract)
<1>1. \/ proc[p] \in OtherStates
      \/ verifyLock = p /\ (InReplay(proc[p], extract) \/ WithVerdict(proc[p], extract))
  BY DEF AttestInv, Holds
<1>2. CASE proc[p] \in OtherStates
  BY <1>2 DEF OtherStates, Rest, Resting, Plans, Captures, Selects, Waits, Measures, Reviews, Appends
<1>3. CASE verifyLock = p /\ InReplay(proc[p], extract)
  BY <1>3 DEF InReplay, Replaying
<1>4. CASE verifyLock = p /\ WithVerdict(proc[p], extract)
  BY <1>4 DEF WithVerdict, Appends
<1> QED
  BY <1>1, <1>2, <1>3, <1>4

LEMMA Appending ==
  ASSUME NEW S, NEW N, NEW batch \in Seq(S), NEW next \in N
  PROVE  AppendsThen(batch, next) \in N \cup Appends(S, N)
BY DEF AppendsThen, Appends

LEMMA DiscoverStep ==
  ASSUME AttestInv, NEW p \in Procs, NEW crate, Discover(p, crate)
  PROVE  AttestInv'
<1>1. tree.tests \in [Tests -> Bodies \cup {None}]
  BY DEF AttestInv, WorldTypes, Contents
<1>2. Discovered(crate) \in [Tests -> Hashes \cup {None, "absent"}]
  BY <1>1, AttestationAssumption DEF Discovered
<1>3. [pc |-> "plan", disc |-> Discovered(crate)] \in OtherStates
  BY <1>2 DEF OtherStates, Plans
<1> QED
  BY <1>3, UseKeeps, CommandGoes DEF Discover, AttestInv

LEMMA PlanStep ==
  ASSUME AttestInv, NEW p \in Procs, Plan(p)
  PROVE  AttestInv'
<1> DEFINE disc == proc[p].disc
           S == {t \in Found(disc) : ~ Unchanged(disc, t)}
           todo == SetToSeq(S)
<1>1. disc \in [Tests -> Hashes \cup {None, "absent"}]
  BY PcTells DEF Plan, Plans
<1>2. IsFiniteSet(S) /\ S \subseteq Tests
  <2>1. S \subseteq Tests
    BY DEF Found
  <2> QED
    BY <2>1, FS_Subset, AttestLogAssumption
<1>3. todo \in Seq(S)
  BY <1>2, SetToSeqOf
<1>4. ASSUME NEW t \in S PROVE Planned(disc, t) \in DeriveLines
  <2> DEFINE h == disc[t]
             donors == IF h = None THEN {} ELSE Vanished(disc, h)
             old == CHOOSE u \in donors : TRUE
  <2>1. t \in Tests /\ h \in Hashes \cup {None}
    BY <1>1 DEF Found
  <2>2. index \in [Tests -> Claims \cup {None}]
    BY DEF AttestInv, LogTypes
  <2>3. donors \subseteq Tests /\ \A u \in donors : index[u] # None
    BY DEF Vanished
  <2>4. CASE index[t] # None
    <3>1. Planned(disc, t) = DeriveEvent(index[t], t, h, None)
      BY <2>4 DEF Planned
    <3> QED
      BY <2>1, <2>2, <3>1 DEF DeriveEvent, DeriveLines
  <2>5. CASE index[t] = None /\ NewWith(disc, h) = {t} /\ Cardinality(donors) = 1
    <3>1. IsFiniteSet(donors)
      BY <2>3, FS_Subset, AttestLogAssumption
    <3>2. donors # {}
      BY <2>5, <3>1, FS_EmptySet
    <3>3. old \in donors
      BY <3>2
    <3>4. Planned(disc, t) = DeriveEvent(index[old], t, h, old)
      BY <2>5 DEF Planned
    <3> HIDE DEF old, donors
    <3> QED
      BY <2>1, <2>2, <2>3, <3>3, <3>4 DEF DeriveEvent, DeriveLines
  <2>6. CASE index[t] = None /\ ~ (NewWith(disc, h) = {t} /\ Cardinality(donors) = 1)
    <3>1. Planned(disc, t) = DeriveEvent(None, t, h, None)
      BY <2>6 DEF Planned
    <3> QED
      BY <2>1, <3>1 DEF DeriveEvent, DeriveLines
  <2> QED
    BY <2>4, <2>5, <2>6
<1>5. PlanDerives(disc) \in Seq(OtherLines)
  <2>1. PlanDerives(disc) = [i \in DOMAIN todo |-> Planned(disc, todo[i])]
    BY DEF PlanDerives
  <2>2. \A i \in DOMAIN todo : todo[i] \in S
    BY <1>3, ElementOfSeq, LenProperties
  <2>3. \A i \in DOMAIN todo : PlanDerives(disc)[i] \in OtherLines
    <3> HIDE DEF todo, S, disc
    <3> QED
      BY <1>4, <2>1, <2>2 DEF OtherLines
  <2>4. PlanDerives(disc) = [i \in DOMAIN todo |-> PlanDerives(disc)[i]]
    <3> HIDE DEF todo
    <3> QED
      BY <2>1
  <2> HIDE DEF todo, S, disc
  <2> QED
    BY <1>3, <2>3, <2>4, EachOf
<1>6. AppendsThen(PlanDerives(disc), Resting) \in OtherStates
  <2>1. AppendsThen(PlanDerives(disc), Resting) \in Rest \cup Appends(OtherLines, Rest)
    BY <1>5, Appending DEF Rest
  <2> QED
    BY <2>1 DEF OtherStates, Appends
<1> QED
  BY <1>6, CommandGoes DEF Plan, AttestInv, Allowed

LEMMA RunTestsStep ==
  ASSUME AttestInv, NEW p \in Procs, RunTests(p)
  PROVE  AttestInv'
<1>1. [pc |-> "ran", tests |-> {t \in Tests : tree.tests[t] # None}] \in OtherStates
  BY DEF OtherStates, Captures
<1> QED
  BY <1>1, UseKeeps, CommandGoes DEF RunTests, AttestInv

LEMMA WriteEvidenceStep ==
  ASSUME AttestInv, NEW p \in Procs, WriteEvidence(p)
  PROVE  AttestInv'
<1> DEFINE T == {t \in proc[p].tests : index[t] # None}
           known == SetToSeq(T)
           batch == EvidenceFor(proc[p].tests)
<1>1. T \subseteq Tests
  BY PcTells DEF WriteEvidence, Captures
<1>2. known \in Seq(T)
  BY <1>1, FS_Subset, AttestLogAssumption, SetToSeqOf
<1>3. batch = [i \in DOMAIN known |->
                 [kind |-> "evidence", claim |-> index[known[i]], test |-> known[i]]]
  BY DEF EvidenceFor
<1>4. \A i \in DOMAIN known : known[i] \in T
  BY <1>2, ElementOfSeq, LenProperties
<1>5. \A t \in T : index[t] \in Claims
  BY <1>1 DEF AttestInv, LogTypes
<1> HIDE DEF known, T, batch
<1>6. \A i \in DOMAIN known : batch[i] \in OtherLines
  BY <1>1, <1>3, <1>4, <1>5 DEF OtherLines, EvidenceLines
<1>7. batch = [i \in DOMAIN known |-> batch[i]]
  BY <1>3
<1>8. batch \in Seq(OtherLines)
  BY <1>2, <1>6, <1>7, EachOf
<1>9. AppendsThen(batch, Resting) \in OtherStates
  <2>1. AppendsThen(batch, Resting) \in Rest \cup Appends(OtherLines, Rest)
    BY <1>8, Appending DEF Rest
  <2> QED
    BY <2>1 DEF OtherStates, Appends
<1> QED
  BY <1>9, CommandGoes DEF WriteEvidence, batch, AttestInv, Allowed

LEMMA StartVerifyStep ==
  ASSUME AttestInv, NEW p \in Procs, NEW ids \in SUBSET Claims, StartVerify(p, ids)
  PROVE  AttestInv'
<1>1. [pc |-> "select", commit |-> head, ids |-> ids] \in OtherStates
  BY DEF OtherStates, Selects, AttestInv, WorldTypes
<1> QED
  BY <1>1, UseKeeps, CommandGoes DEF StartVerify, AttestInv

LEMMA SelectStep ==
  ASSUME AttestInv, NEW p \in Procs, Select(p)
  PROVE  AttestInv'
<1> DEFINE W == Wanted(proc[p].ids)
           todo == InOrder(W)
           items == [i \in DOMAIN todo |-> [claim |-> todo[i], test |-> claims[todo[i]].test]]
           next == IF todo = << >> THEN Resting
                   ELSE [pc |-> "wait", commit |-> proc[p].commit, todo |-> items]
<1>1. proc[p] \in Selects
  BY PcTells DEF Select
<1>2. W \subseteq Claims /\ \A c \in W : claims[c].test \in Tests
  BY DEF Wanted, Seen, AttestInv, LogTypes, ClaimState
<1>3. todo \in Seq(W) /\ DOMAIN todo = 1 .. Len(todo)
  BY <1>2, InOrderOf
<1>4. \A i \in DOMAIN todo : todo[i] \in W
  BY <1>3, ElementOfSeq
<1>5. Goes(p, next)
  BY DEF Select
<1> HIDE DEF W, todo
<1>6. \A i \in DOMAIN todo : items[i] \in Items
  BY <1>2, <1>4 DEF Items
<1>7. items \in Seq(Items) /\ Len(items) = Len(todo)
  <2>1. items = [i \in DOMAIN todo |-> items[i]]
    OBVIOUS
  <2> HIDE DEF items
  <2> QED
    BY <1>3, <1>6, <2>1, EachOf
<1>8. todo # << >> => items # << >>
  BY <1>3, <1>7, EmptySeq
<1> HIDE DEF items
<1>9. next \in OtherStates
  BY <1>1, <1>7, <1>8 DEF OtherStates, Selects, Waits, Rest
<1> HIDE DEF next
<1> QED
  BY <1>5, <1>9, CommandGoes DEF Select, AttestInv, Allowed

LEMMA ExtractStep ==
  ASSUME AttestInv, NEW p \in Procs, Extract(p)
  PROVE  AttestInv'
<1> DEFINE next == [pc |-> "replay", commit |-> proc[p].commit, todo |-> proc[p].todo,
                    fails |-> 0, ran |-> {}]
<1>1. proc[p] \in Waits
  BY PcTells DEF Extract
<1>2. next.pc = "replay" /\ InReplay(next, extract') /\ extract' \in Contents
  BY <1>1 DEF Extract, Waits, InReplay, Replaying, Underway, MaxRuns
<1> HIDE DEF next
<1>3. /\ DOMAIN proc' = Writers
      /\ proc'[p] = next /\ \A q \in Writers : q # p => proc'[q] = proc[q]
  BY DEF Extract, Goes, AttestInv, WorldTypes, Writers, next
<1>4. p # Daemon /\ proc'[Daemon] = proc[Daemon] /\ \A q \in Procs : q # None
  BY <1>3, AttestationAssumption DEF Writers
<1>5. /\ UNCHANGED <<attestLog, tree, head, covmap, pending, left, due, basis>>
      /\ verifyLock = None /\ verifyLock' = p
  BY DEF Extract
<1>6. LogTypes' /\ WorldTypes' /\ Allowed' /\ DueTypes' /\ Founded' /\ RefutedSettled' /\ IndexCurrent'
  BY <1>2, <1>3, <1>5 DEF AttestInv, LogTypes, WorldTypes, Allowed, DueTypes, Founded, RefutedSettled,
       IndexCurrent, attestLog, Refuted, Stale
<1>7. Holds'
  <2> SUFFICES ASSUME NEW q \in Procs
               PROVE  \/ proc'[q] \in OtherStates
                      \/ verifyLock' = q /\ (InReplay(proc'[q], extract') \/ WithVerdict(proc'[q], extract'))
    BY DEF Holds
  <2> QED
    BY <1>2, <1>3, <1>4, <1>5 DEF AttestInv, Holds, Writers
<1>8. DaemonNotes' /\ NotesKept'
  BY <1>4, <1>5 DEF AttestInv, DaemonNotes, NotesKept, attestLog, Stale
<1> QED
  BY <1>6, <1>7, <1>8 DEF AttestInv

(* A verdict of so many failed runs and this one. *)
LEMMA VerdictOf ==
  ASSUME NEW r \in Outcomes, NEW fails \in 0 .. MaxRuns - 1,
         NEW v, v = Decided(r, fails),
         NEW n, n = fails + (IF r = "failed" THEN 1 ELSE 0)
  PROVE  /\ v = "retry" => r = "failed" /\ n \in 0 .. MaxRuns - 1
         /\ v # "retry" => /\ v \in Verdicts /\ n \in 0 .. MaxRuns
                           /\ v = "confirmed" => n = 0
                           /\ v = "claim-false" => n = MaxRuns
                           /\ v \in {"confirmed", "claim-false"} => r # "invalid"
BY DEF Outcomes, Decided, MaxRuns, Verdicts

LEMMA ReplayRunStep ==
  ASSUME AttestInv, NEW p \in Procs, ReplayRun(p)
  PROVE  AttestInv'
<1> DEFINE s == proc[p]
           it == Head(s.todo)
<1>1. verifyLock = p /\ InReplay(s, extract) /\ s \in Replaying /\ Underway(s) /\ extract = s.commit
  BY PcTells DEF ReplayRun, InReplay
<1>2. /\ s.pc = "replay" /\ s.commit \in Contents /\ s.todo \in Seq(Items) /\ s.todo # << >>
      /\ s.fails \in 0 .. MaxRuns - 1 /\ s.ran = IF s.fails = 0 THEN {} ELSE {s.commit}
  BY <1>1 DEF Replaying, Underway
<1>3. it \in Items /\ Tail(s.todo) \in Seq(Items)
  BY <1>2, HeadTailProperties
<1>4. it.claim \in Claims /\ it.test \in Tests
  BY <1>3 DEF Items
<1> DEFINE ran == s.ran \cup {extract}
           Verdict(r) == Decided(r, s.fails)
           Count(r) == s.fails + (IF r = "failed" THEN 1 ELSE 0)
           Event(r) == [kind |-> "verdict", claim |-> it.claim, test |-> it.test,
                        verdict |-> Verdict(r), commit |-> s.commit, ran |-> ran, last |-> r,
                        fails |-> Count(r)]
           After == IF Tail(s.todo) = << >> THEN Resting
                    ELSE [s EXCEPT !.todo = Tail(@), !.fails = 0, !.ran = {}]
<1>5. PICK r \in Reports(it.test) :
         Goes(p, IF Verdict(r) = "retry" THEN [s EXCEPT !.fails = @ + 1, !.ran = ran]
                 ELSE AppendsThen(<< Event(r) >>, After))
  BY DEF ReplayRun
<1>6. r \in Outcomes /\ (r # "invalid" => extract.tests[it.test] # None)
  <2>1. extract \in Contents
    BY DEF AttestInv, WorldTypes
  <2>2. CASE extract.tests[it.test] = None
    BY <1>5, <2>2 DEF Reports, Outcomes
  <2>3. CASE extract.tests[it.test] # None
    <3>1. extract.tests[it.test] \in Bodies /\ extract.src \in Versions
      BY <1>4, <2>1, <2>3 DEF Contents
    <3>2. Reports(it.test) \subseteq Outcomes
      BY <2>3, <3>1, AttestationAssumption DEF Reports
    <3> QED
      BY <2>3, <3>2
  <2> QED
    BY <2>2, <2>3
<1>7. ran = {s.commit}
  BY <1>1, <1>2
<1>8. CASE Verdict(r) = "retry"
  <2> DEFINE next == [s EXCEPT !.fails = @ + 1, !.ran = ran]
  <2>1. r = "failed" /\ s.fails + 1 \in 0 .. MaxRuns - 1
    BY <1>2, <1>6, <1>8, VerdictOf
  <2>2. next \in Replaying
    <3> HIDE DEF ran
    <3> QED
      BY <1>1, <1>2, <1>7, <2>1 DEF Replaying
  <2>3. next.ran = ran /\ next.fails = s.fails + 1 /\ next.commit = s.commit
    BY <1>1 DEF Replaying
  <2>4. s.fails + 1 # 0
    BY <1>2 DEF MaxRuns
  <2>5. InReplay(next, extract)
    <3> HIDE DEF next, ran
    <3> QED
      BY <1>1, <1>7, <2>2, <2>3, <2>4 DEF InReplay, Underway
  <2>6. Goes(p, next)
    BY <1>5, <1>8
  <2> HIDE DEF next
  <2> QED
    BY <1>1, <2>5, <2>6, CommandGoes DEF ReplayRun, AttestInv, Allowed
<1>9. CASE Verdict(r) # "retry"
  <2> DEFINE next == AppendsThen(<< Event(r) >>, After)
  <2>1. /\ Verdict(r) \in Verdicts /\ Count(r) \in 0 .. MaxRuns
        /\ Verdict(r) = "confirmed" => Count(r) = 0
        /\ Verdict(r) = "claim-false" => Count(r) = MaxRuns
        /\ Verdict(r) \in {"confirmed", "claim-false"} => r # "invalid"
    BY <1>2, <1>6, <1>9, VerdictOf
  <2> HIDE DEF Verdict, Count, ran
  <2>2. Event(r) \in VerdictLines /\ Earned(Event(r))
    BY <1>1, <1>2, <1>4, <1>6, <1>7, <2>1 DEF VerdictLines, Earned
  <2>3. After = Resting \/ InReplay(After, extract)
    <3>1. CASE Tail(s.todo) # << >>
      <4> HIDE DEF s
      <4>a. After = [s EXCEPT !.todo = Tail(s.todo), !.fails = 0, !.ran = {}]
        BY <1>1, <3>1 DEF Replaying
      <4>b. 0 \in 0 .. MaxRuns - 1 /\ {} \in SUBSET Contents
        BY DEF MaxRuns
      <4>c. s \in Replaying /\ Tail(s.todo) \in Seq(Items) \ {<< >>}
        BY <1>1, <1>3, <3>1
      <4> HIDE DEF After
      <4>1. After \in Replaying /\ After.fails = 0 /\ After.ran = {} /\ After.commit = s.commit
        BY <4>a, <4>b, <4>c DEF Replaying
      <4> QED
        BY <1>1, <4>1 DEF InReplay, Underway
    <3> QED
      BY <3>1
  <2>4. After \in Rest \cup Replaying
    BY <2>3 DEF Rest, InReplay
  <2> HIDE DEF Event, After
  <2>5. /\ << Event(r) >> \in Seq(VerdictLines) /\ << Event(r) >> # << >>
        /\ Len(<< Event(r) >>) = 1 /\ << Event(r) >>[1] = Event(r)
    BY <2>2
  <2>6. next = [pc |-> "append", batch |-> << Event(r) >>, next |-> After]
    BY <2>5 DEF AppendsThen
  <2>7. WithVerdict(next, extract)
    <3> HIDE DEF next
    <3>1. next \in Appends(VerdictLines, Rest \cup Replaying)
      BY <2>4, <2>5, <2>6 DEF Appends
    <3>2. next.batch = << Event(r) >> /\ next.next = After
      BY <2>6
    <3> QED
      BY <2>2, <2>3, <2>5, <3>1, <3>2 DEF WithVerdict
  <2>8. Goes(p, next)
    BY <1>5, <1>9 DEF Verdict, Event, Count, ran, After
  <2> HIDE DEF next
  <2> QED
    BY <1>1, <2>7, <2>8, CommandGoes DEF ReplayRun, AttestInv, Allowed
<1> QED
  BY <1>8, <1>9

LEMMA StartReviewStep ==
  ASSUME AttestInv, NEW p \in Procs, StartReview(p)
  PROVE  AttestInv'
<1> DEFINE S == {c \in Seen : NeedsAHuman(claims[c])}
           cards == InOrder(S)
           next == [pc |-> "review", cards |-> cards]
<1>1. S \subseteq Claims
  BY DEF Seen
<1>2. cards \in Seq(Claims) /\ cards # << >> /\ Goes(p, next)
  BY <1>1, InOrderOf, SeqMonotonic DEF StartReview
<1> HIDE DEF cards
<1>3. next \in OtherStates
  BY <1>2 DEF OtherStates, Reviews
<1> HIDE DEF next
<1> QED
  BY <1>2, <1>3, UseKeeps, CommandGoes DEF StartReview, AttestInv

LEMMA AnswerStep ==
  ASSUME AttestInv, NEW p \in Procs, NEW a \in Answers, Answer(p, a)
  PROVE  AttestInv'
<1> DEFINE cards == proc[p].cards
           rest == Tail(cards)
           line == [kind |-> "human", claim |-> Head(cards), answer |-> a]
           after == IF rest = << >> THEN Resting ELSE [pc |-> "review", cards |-> rest]
           next == AppendsThen(<< line >>, after)
<1>1. cards \in Seq(Claims) \ {<< >>}
  BY PcTells DEF Answer, Reviews
<1>2. Head(cards) \in Claims /\ rest \in Seq(Claims)
  BY <1>1, HeadTailProperties
<1>3. Goes(p, next)
  BY DEF Answer
<1> HIDE DEF cards, rest
<1>4. line \in OtherLines
  BY <1>2 DEF OtherLines, HumanLines
<1>5. after \in Rest \cup Reviews
  BY <1>2 DEF Rest, Reviews
<1> HIDE DEF line, after
<1>6. << line >> \in Seq(OtherLines)
  BY <1>4
<1>7. next \in Rest \cup Reviews \cup Appends(OtherLines, Rest \cup Reviews)
  BY <1>5, <1>6, Appending
<1> HIDE DEF next
<1>8. next \in OtherStates
  BY <1>7 DEF OtherStates
<1> QED
  BY <1>3, <1>8, CommandGoes DEF Answer, AttestInv, Allowed

LEMMA ManualDeclareStep ==
  ASSUME AttestInv, NEW p \in Procs, NEW severity \in Severities, ManualDeclare(p, severity)
  PROVE  AttestInv'
<1> DEFINE line == [kind |-> "declare", claim |-> None, severity |-> severity]
           next == AppendsThen(<< line >>, Resting)
<1>1. line \in OtherLines
  BY DEF OtherLines, DeclareLines
<1>2. Goes(p, next)
  BY DEF ManualDeclare
<1> HIDE DEF line
<1>3. << line >> \in Seq(OtherLines) /\ Resting \in Rest \cup Reviews
  BY <1>1 DEF Rest
<1>4. next \in Rest \cup Reviews \cup Appends(OtherLines, Rest \cup Reviews)
  BY <1>3, Appending
<1> HIDE DEF next
<1>5. next \in OtherStates
  BY <1>4 DEF OtherStates
<1> QED
  BY <1>2, <1>5, UseKeeps, CommandGoes DEF ManualDeclare, AttestInv

LEMMA StartCoverageStep ==
  ASSUME AttestInv, NEW p \in Procs, NEW ids, NEW crate, StartCoverage(p, ids, crate)
  PROVE  AttestInv'
<1> DEFINE T(c) == {u \in {t \in Tests : index[t] \in ids} : index[u] = c /\ TargetOf(u) \in crate}
           files(t) == (IF tree.tests[t] = None THEN {} ELSE Measured(t)) \cup OverStale(TargetOf(t))
           map == [c \in Claims |-> UNION {files(t) : t \in T(c)}]
           next == [pc |-> "measure", map |-> map]
<1>1. \A t \in Tests : files(t) \subseteq Files
  BY AttestationAssumption
<1>2. map \in [Claims -> SUBSET Files]
  <2> HIDE DEF files
  <2>1. \A c \in Claims : UNION {files(t) : t \in T(c)} \subseteq Files
    BY <1>1
  <2> QED
    BY <2>1
<1>3. Goes(p, next)
  BY DEF StartCoverage
<1> HIDE DEF map
<1>4. next \in OtherStates
  BY <1>2 DEF OtherStates, Measures
<1> HIDE DEF next
<1> QED
  BY <1>3, <1>4, UseKeeps, CommandGoes DEF StartCoverage, AttestInv

(* The processes other than the one that moves. *)
LEMMA OthersHold ==
  ASSUME AttestInv, NEW p \in Writers, NEW next, Goes(p, next)
  PROVE  /\ DOMAIN proc' = Writers /\ proc'[p] = next
         /\ \A q \in Writers : q # p => proc'[q] = proc[q]
         /\ Daemon \in Writers /\ Procs \subseteq Writers /\ Daemon \notin Procs /\ None \notin Writers
BY AttestationAssumption DEF Goes, AttestInv, WorldTypes, Writers

LEMMA WriteMapStep ==
  ASSUME AttestInv, NEW p \in Procs, WriteMap(p)
  PROVE  AttestInv'
<1>1. Goes(p, Resting) /\ p \in Writers
  BY DEF WriteMap, Writers
<1>2. /\ DOMAIN proc' = Writers /\ proc'[p] = Resting
      /\ \A q \in Writers : q # p => proc'[q] = proc[q]
      /\ proc'[Daemon] = proc[Daemon] /\ Procs \subseteq Writers
  BY <1>1, OthersHold
<1>3. covmap' \in [Claims -> SUBSET Files]
  BY PcTells DEF WriteMap, Measures
<1>4. UNCHANGED <<attestLog, tree, head, pending, verifyLock, extract, left, due, basis>>
  BY DEF WriteMap
<1>5. LogTypes' /\ WorldTypes' /\ Allowed' /\ DueTypes' /\ Founded' /\ RefutedSettled' /\ IndexCurrent'
  BY <1>2, <1>3, <1>4 DEF AttestInv, LogTypes, WorldTypes, Allowed, DueTypes, Founded, RefutedSettled,
       IndexCurrent, attestLog, Refuted, Stale
<1>6. Resting \in OtherStates
  BY DEF OtherStates, Rest
<1>7. Holds'
  <2> SUFFICES ASSUME NEW q \in Procs
               PROVE  \/ proc'[q] \in OtherStates
                      \/ verifyLock' = q /\ (InReplay(proc'[q], extract') \/ WithVerdict(proc'[q], extract'))
    BY DEF Holds
  <2> QED
    BY <1>2, <1>4, <1>6 DEF AttestInv, Holds
<1>8. DaemonNotes' /\ NotesKept'
  BY <1>2, <1>4 DEF AttestInv, DaemonNotes, NotesKept, attestLog, Stale
<1> QED
  BY <1>5, <1>7, <1>8 DEF AttestInv

LEMMA KillCommandStep ==
  ASSUME AttestInv, NEW p \in Procs, KillCommand(p)
  PROVE  AttestInv'
<1>1. Goes(p, Resting) /\ p \in Writers
  BY DEF KillCommand, Writers
<1>2. /\ DOMAIN proc' = Writers /\ proc'[p] = Resting
      /\ \A q \in Writers : q # p => proc'[q] = proc[q]
      /\ proc'[Daemon] = proc[Daemon] /\ Procs \subseteq Writers
  BY <1>1, OthersHold
<1>3. /\ UNCHANGED <<attestLog, tree, head, covmap, pending, extract, due, basis>>
      /\ verifyLock' = IF verifyLock = p THEN None ELSE verifyLock
      /\ Allowed'
  BY UseKeeps DEF KillCommand, AttestInv
<1>4. LogTypes' /\ WorldTypes' /\ DueTypes' /\ Founded' /\ RefutedSettled' /\ IndexCurrent'
  BY <1>2, <1>3 DEF AttestInv, LogTypes, WorldTypes, DueTypes, Founded, RefutedSettled,
       IndexCurrent, attestLog, Refuted, Stale
<1>5. Resting \in OtherStates
  BY DEF OtherStates, Rest
<1>6. Holds'
  <2> SUFFICES ASSUME NEW q \in Procs
               PROVE  \/ proc'[q] \in OtherStates
                      \/ verifyLock' = q /\ (InReplay(proc'[q], extract') \/ WithVerdict(proc'[q], extract'))
    BY DEF Holds
  <2> QED
    BY <1>2, <1>3, <1>5 DEF AttestInv, Holds
<1>7. DaemonNotes' /\ NotesKept'
  BY <1>2, <1>3 DEF AttestInv, DaemonNotes, NotesKept, attestLog, Stale
<1> QED
  BY <1>3, <1>4, <1>6, <1>7 DEF AttestInv

-----------------------------------------------------------------------------
(* Steps that append a line. *)

LEMMA Kinds ==
  /\ \A e \in Lines : e.kind = "verdict" <=> e \in VerdictLines
  /\ \A e \in StaleLines : e.kind = "stale"
BY DEF Lines, OtherLines, DeriveLines, EvidenceLines, HumanLines, DeclareLines, StaleLines, VerdictLines

(* What a line does to the log and to its history. *)
LEMMA LineEffects ==
  ASSUME AttestInv, NEW e \in Lines, e \in VerdictLines => Earned(e), AppendEvent(e),
         due' = IF Settles(e) THEN due \ {e.claim} ELSE due,
         basis' = IF e.kind = "verdict" /\ ~ Refuted(e.claim)
                  THEN [basis EXCEPT ![e.claim] = e] ELSE basis
  PROVE  /\ LogTypes' /\ IndexCurrent' /\ DueTypes' /\ Founded' /\ RefutedSettled'
         /\ \A d \in due' : d \in due /\ (Stale(d) => Stale(d)')
         /\ e \in StaleLines /\ e.claim \in due' => claims'[e.claim].stale
<1> DEFINE c == ClaimOf(e)
           new == Applied(claims[c], e)
<1>1. /\ LogTypes' /\ IndexCurrent' /\ c \in Claims
      /\ claims' = [claims EXCEPT ![c] = new]
  BY LogStep DEF AttestInv
<1>2. claims[c] \in ClaimState /\ claims'[c] = new /\ \A d \in Claims : d # c => claims'[d] = claims[d]
  BY <1>1 DEF AttestInv, LogTypes
<1>3. e \in VerdictLines \cup StaleLines => e.claim = c
  BY AttestLogAssumption DEF VerdictLines, StaleLines, ClaimOf, Claims
<1>4. (e.kind = "verdict" <=> e \in VerdictLines) /\ (Settles(e) => e.claim = c)
  BY <1>3, Kinds DEF Settles
<1>5. /\ new \in ClaimState
      /\ claims[c].status = "claim-false" =>
           new.status = "claim-false" /\ (~ claims[c].stale => ~ new.stale)
      /\ claims[c].stale /\ ~ (Settles(e) /\ claims[c].status # "claim-false") => new.stale
      /\ e.kind = "stale" /\ claims[c].status # "claim-false" => new.stale
      /\ new.status \in {"confirmed", "claim-false"} =>
           \/ new.status = claims[c].status /\ ~ (e.kind = "verdict" /\ claims[c].status # "claim-false")
           \/ e.kind = "verdict" /\ e.verdict = new.status /\ ~ new.stale /\ claims[c].status # "claim-false"
  BY <1>2, LineApplied
<1> HIDE DEF c, new
<1>6. due' \subseteq due /\ (Settles(e) => c \notin due')
  BY <1>4
<1>7. DueTypes'
  <2>1. basis' \in [Claims -> VerdictLines \cup {None}]
    BY <1>1, <1>3, <1>4 DEF AttestInv, DueTypes
  <2> QED
    BY <1>6, <2>1 DEF AttestInv, DueTypes
<1>8. Founded'
  <2> SUFFICES ASSUME NEW d \in Claims
               PROVE  /\ basis'[d] # None => basis'[d] \in VerdictLines /\ Earned(basis'[d])
                      /\ claims'[d].status \in {"confirmed", "claim-false"} =>
                           basis'[d] \in VerdictLines /\ claims'[d].status = basis'[d].verdict
    BY DEF Founded
  <2>1. /\ basis[d] # None => basis[d] \in VerdictLines /\ Earned(basis[d])
        /\ claims[d].status \in {"confirmed", "claim-false"} =>
             basis[d] \in VerdictLines /\ claims[d].status = basis[d].verdict
    BY DEF AttestInv, Founded
  <2>2. CASE e.kind = "verdict" /\ claims[c].status # "claim-false" /\ d = c
    <3>1. basis'[d] = e /\ e \in VerdictLines /\ Earned(e)
      BY <1>3, <1>4, <2>2 DEF Refuted, AttestInv, DueTypes
    <3> QED
      BY <1>2, <1>5, <2>2, <3>1
  <2>3. CASE ~ (e.kind = "verdict" /\ claims[c].status # "claim-false" /\ d = c)
    <3>1. basis'[d] = basis[d]
      BY <1>3, <1>4, <2>3 DEF Refuted, AttestInv, DueTypes
    <3>2. claims'[d].status \in {"confirmed", "claim-false"} => claims'[d].status = claims[d].status
      BY <1>2, <1>5, <2>3
    <3> QED
      BY <2>1, <3>1, <3>2
  <2> QED
    BY <2>2, <2>3
<1>9. RefutedSettled'
  <2> SUFFICES ASSUME NEW d \in Claims, claims'[d].status = "claim-false"
               PROVE  ~ claims'[d].stale /\ d \notin due'
    BY DEF RefutedSettled, Refuted, Stale
  <2>1. claims[d].status = "claim-false" => ~ claims[d].stale /\ d \notin due
    BY DEF AttestInv, RefutedSettled, Refuted, Stale
  <2>2. CASE d # c \/ claims[d].status = "claim-false"
    BY <1>2, <1>5, <1>6, <2>1, <2>2
  <2>3. CASE d = c /\ claims[d].status # "claim-false"
    <3>1. e.kind = "verdict" /\ e.verdict = "claim-false" /\ ~ new.stale
      BY <1>2, <1>5, <2>3
    <3> QED
      BY <1>2, <1>6, <2>3, <3>1 DEF Settles
  <2> QED
    BY <2>2, <2>3
<1>10. ASSUME NEW d \in due' PROVE d \in due /\ (Stale(d) => Stale(d)')
  <2>1. d \in Claims
    BY <1>6 DEF AttestInv, DueTypes
  <2>2. d = c => ~ Settles(e)
    BY <1>6
  <2> QED
    BY <1>2, <1>5, <1>6, <2>1, <2>2 DEF Stale
<1>11. ASSUME e \in StaleLines, e.claim \in due' PROVE claims'[e.claim].stale
  <2>1. e.kind = "stale" /\ e.claim = c /\ c \in due
    BY <1>3, <1>6, <1>11, Kinds
  <2>2. claims[c].status # "claim-false"
    BY <1>1, <2>1 DEF AttestInv, RefutedSettled, Refuted
  <2> QED
    BY <1>2, <1>5, <2>1, <2>2
<1> QED
  BY <1>1, <1>7, <1>8, <1>9, <1>10, <1>11

(* After a line of a batch, the process has the rest of it or goes on. *)
LEMMA BatchStep ==
  ASSUME NEW S, NEW N, NEW s \in Appends(S, N)
  PROVE  /\ Head(s.batch) \in S /\ s.next \in N
         /\ Tail(s.batch) # << >> => [s EXCEPT !.batch = Tail(s.batch)] \in Appends(S, N)
                                     /\ [s EXCEPT !.batch = Tail(s.batch)].batch = Tail(s.batch)
<1>1. s.batch \in Seq(S) /\ s.batch # << >> /\ s.next \in N
  BY DEF Appends
<1>2. Head(s.batch) \in S /\ Tail(s.batch) \in Seq(S)
  BY <1>1, HeadAndTail
<1> QED
  BY <1>1, <1>2 DEF Appends

LEMMA AppendWorld ==
  ASSUME AttestInv, NEW p \in Writers, AppendLine(p)
  PROVE  WorldTypes' /\ Allowed'
<1>1. DOMAIN proc' = Writers
  BY OthersHold DEF AppendLine
<1> QED
  BY <1>1 DEF AppendLine, AttestInv, WorldTypes, Allowed

LEMMA CommandAppends ==
  ASSUME AttestInv, NEW p \in Procs, AppendLine(p)
  PROVE  AttestInv'
<1> DEFINE s == proc[p]
           e == Head(s.batch)
           rest == Tail(s.batch)
           next == IF rest = << >> THEN s.next ELSE [s EXCEPT !.batch = rest]
<1>1. /\ s.pc = "append" /\ AppendEvent(e) /\ Goes(p, next) /\ p \in Writers
      /\ due' = IF Settles(e) THEN due \ {e.claim} ELSE due
      /\ basis' = IF e.kind = "verdict" /\ ~ Refuted(e.claim) THEN [basis EXCEPT ![e.claim] = e] ELSE basis
      /\ verifyLock' = IF e.kind = "verdict" /\ proc'[p].pc = "rest" THEN None ELSE verifyLock
      /\ extract' = extract
  BY DEF AppendLine, Writers
<1>2. /\ DOMAIN proc' = Writers /\ proc'[p] = next
      /\ \A q \in Writers : q # p => proc'[q] = proc[q]
      /\ proc'[Daemon] = proc[Daemon] /\ Procs \subseteq Writers /\ None \notin Writers
  BY <1>1, OthersHold
<1>3. CASE s \in Appends(OtherLines, Rest \cup Reviews)
  <2>1. /\ e \in OtherLines /\ s.next \in Rest \cup Reviews
        /\ rest # << >> => [s EXCEPT !.batch = rest] \in Appends(OtherLines, Rest \cup Reviews)
    BY <1>3, BatchStep
  <2>2. e \in Lines /\ e.kind # "verdict"
    BY <2>1 DEF Lines, OtherLines, DeriveLines, EvidenceLines, HumanLines, DeclareLines
  <2>3. next \in OtherStates
    BY <2>1 DEF OtherStates
  <2>4. verifyLock' = verifyLock /\ e \notin VerdictLines
    BY <1>1, <2>2, Kinds
  <2>5. Holds'
    <3> SUFFICES ASSUME NEW q \in Procs
                 PROVE  \/ proc'[q] \in OtherStates
                        \/ verifyLock' = q /\ (InReplay(proc'[q], extract') \/ WithVerdict(proc'[q], extract'))
      BY DEF Holds
    <3> QED
      BY <1>1, <1>2, <2>3, <2>4 DEF AttestInv, Holds
  <2> HIDE DEF e, next
  <2>6. /\ LogTypes' /\ IndexCurrent' /\ DueTypes' /\ Founded' /\ RefutedSettled'
        /\ \A d \in due' : d \in due /\ (Stale(d) => Stale(d)')
    BY <1>1, <2>2, <2>4, LineEffects
  <2>7. DaemonNotes' /\ NotesKept'
    BY <1>2, <2>6 DEF AttestInv, DaemonNotes, NotesKept
  <2> QED
    BY <2>5, <2>6, <2>7, AppendWorld, <1>1 DEF AttestInv
<1>4. CASE verifyLock = p /\ WithVerdict(s, extract)
  <2>1. /\ s \in Appends(VerdictLines, Rest \cup Replaying)
        /\ Len(s.batch) = 1 /\ Earned(s.batch[1]) /\ (s.next = Resting \/ InReplay(s.next, extract))
    BY <1>4 DEF WithVerdict
  <2>2. e \in VerdictLines /\ rest = << >> /\ Earned(e)
    <3>1. s.batch \in Seq(VerdictLines) /\ s.batch # << >>
      BY <2>1 DEF Appends
    <3>2. Head(s.batch) \in VerdictLines /\ Tail(s.batch) = << >> /\ Head(s.batch) = s.batch[1]
      BY <2>1, <3>1, HeadAndTail
    <3> QED
      BY <2>1, <3>2
  <2>3. e \in Lines /\ e.kind = "verdict" /\ next = s.next
    BY <2>2, Kinds DEF Lines
  <2>4. \/ next = Resting /\ verifyLock' = None
        \/ InReplay(next, extract) /\ verifyLock' = p
    <3>1. InReplay(next, extract) => next.pc # "rest"
      BY DEF InReplay, Replaying
    <3>2. Resting.pc = "rest"
      BY DEF Resting
    <3> QED
      BY <1>1, <1>2, <1>4, <2>1, <2>3, <3>1, <3>2
  <2>5. Holds'
    <3> SUFFICES ASSUME NEW q \in Procs
                 PROVE  \/ proc'[q] \in OtherStates
                        \/ verifyLock' = q /\ (InReplay(proc'[q], extract') \/ WithVerdict(proc'[q], extract'))
      BY DEF Holds
    <3>1. Resting \in OtherStates
      BY DEF OtherStates, Rest
    <3> QED
      BY <1>1, <1>2, <1>4, <2>4, <3>1 DEF AttestInv, Holds
  <2> HIDE DEF e, next
  <2>6. /\ LogTypes' /\ IndexCurrent' /\ DueTypes' /\ Founded' /\ RefutedSettled'
        /\ \A d \in due' : d \in due /\ (Stale(d) => Stale(d)')
    BY <1>1, <2>2, <2>3, LineEffects
  <2>7. DaemonNotes' /\ NotesKept'
    BY <1>2, <2>6 DEF AttestInv, DaemonNotes, NotesKept
  <2> QED
    BY <2>5, <2>6, <2>7, AppendWorld, <1>1 DEF AttestInv
<1> QED
  BY <1>1, <1>3, <1>4, PcTells

LEMMA DaemonAppends ==
  ASSUME AttestInv, AppendLine(Daemon)
  PROVE  AttestInv'
<1> DEFINE s == proc[Daemon]
           e == Head(s.batch)
           rest == Tail(s.batch)
           next == IF rest = << >> THEN s.next ELSE [s EXCEPT !.batch = rest]
<1>1. /\ s.pc = "append" /\ AppendEvent(e) /\ Goes(Daemon, next) /\ Daemon \in Writers
      /\ due' = IF Settles(e) THEN due \ {e.claim} ELSE due
      /\ basis' = IF e.kind = "verdict" /\ ~ Refuted(e.claim) THEN [basis EXCEPT ![e.claim] = e] ELSE basis
      /\ verifyLock' = IF e.kind = "verdict" /\ proc'[Daemon].pc = "rest" THEN None ELSE verifyLock
      /\ extract' = extract
  BY DEF AppendLine, Writers
<1>2. /\ DOMAIN proc' = Writers /\ proc'[Daemon] = next
      /\ \A q \in Procs : proc'[q] = proc[q]
  BY <1>1, OthersHold
<1>3. s \in Appends(StaleLines, Rest)
  BY <1>1 DEF AttestInv, DaemonNotes, Rest, Resting
<1>4. /\ e \in StaleLines /\ s.next = Resting
      /\ Range(s.batch) = {e} \cup Range(rest)
      /\ rest # << >> => next \in Appends(StaleLines, Rest) /\ next.batch = rest
  <2>1. s.next \in Rest
    BY <1>3, BatchStep
  <2>2. e \in StaleLines /\ Range(s.batch) = {e} \cup Range(rest)
    <3>1. s.batch \in Seq(StaleLines) /\ s.batch # << >>
      BY <1>3 DEF Appends
    <3> QED
      BY <3>1, HeadAndTail
  <2>3. rest # << >> => [s EXCEPT !.batch = rest] \in Appends(StaleLines, Rest)
                        /\ [s EXCEPT !.batch = rest].batch = rest
    BY <1>3, BatchStep
  <2> QED
    BY <2>1, <2>2, <2>3 DEF Rest
<1>5. e \in Lines /\ e.kind = "stale" /\ e \notin VerdictLines
  BY <1>4, Kinds DEF Lines
<1>6. verifyLock' = verifyLock
  BY <1>1, <1>5
<1>7. DaemonNotes'
  BY <1>2, <1>4 DEF DaemonNotes, Rest
<1>8. Holds'
  <2> SUFFICES ASSUME NEW q \in Procs
               PROVE  \/ proc'[q] \in OtherStates
                      \/ verifyLock' = q /\ (InReplay(proc'[q], extract') \/ WithVerdict(proc'[q], extract'))
    BY DEF Holds
  <2> QED
    BY <1>1, <1>2, <1>6 DEF AttestInv, Holds
<1> HIDE DEF e, next
<1>9. /\ LogTypes' /\ IndexCurrent' /\ DueTypes' /\ Founded' /\ RefutedSettled'
      /\ \A d \in due' : d \in due /\ (Stale(d) => Stale(d)')
      /\ e.claim \in due' => claims'[e.claim].stale
  BY <1>1, <1>4, <1>5, LineEffects
<1>10. NotesKept'
  <2> SUFFICES ASSUME NEW d \in due', ~ Stale(d)'
               PROVE  proc'[Daemon] # Resting /\ \E x \in Range(proc'[Daemon].batch) : x.claim = d
    BY DEF NotesKept
  <2>1. d \in due /\ ~ Stale(d) /\ d # e.claim
    BY <1>9 DEF Stale
  <2>2. PICK x \in Range(s.batch) : x.claim = d
    BY <2>1 DEF AttestInv, NotesKept
  <2>3. x \in Range(rest)
    BY <1>4, <2>1, <2>2
  <2>4. rest # << >>
    BY <2>3 DEF Range
  <2>5. next.pc = "append" /\ next.batch = rest
    BY <1>4, <2>4 DEF Appends
  <2>6. next # Resting
    BY <2>5 DEF Resting
  <2> QED
    BY <1>2, <2>2, <2>3, <2>5, <2>6
<1> QED
  BY <1>1, <1>7, <1>8, <1>9, <1>10, AppendWorld DEF AttestInv

(* The daemon reads the map and notes every claim that the burst touches.  *)
LEMMA FlushStep ==
  ASSUME AttestInv, Flush
  PROVE  AttestInv'
<1> DEFINE T == TouchedBy(pending)
           touched == InOrder(T)
           batch == NotesOf(pending)
           next == AppendsThen(batch, Resting)
<1>1. /\ proc[Daemon] = Resting /\ Goes(Daemon, next) /\ Daemon \in Writers
      /\ due' = due \cup {c \in T : ~ Refuted(c)} /\ pending' = {}
      /\ UNCHANGED <<attestLog, tree, head, covmap, verifyLock, extract, left, basis>>
  BY DEF Flush, Writers
<1>2. /\ DOMAIN proc' = Writers /\ proc'[Daemon] = next
      /\ \A q \in Procs : proc'[q] = proc[q]
  BY <1>1, OthersHold
<1>3. T \subseteq Claims
  BY DEF TouchedBy
<1>4. touched \in Seq(T) /\ \A c \in T : \E i \in DOMAIN touched : touched[i] = c
  BY <1>3, InOrderOf
<1>5. batch = [i \in DOMAIN touched |-> [kind |-> "stale", claim |-> touched[i]]]
  BY DEF NotesOf
<1> HIDE DEF touched, batch
<1>6. batch \in Seq(StaleLines)
  <2>1. \A i \in DOMAIN touched : touched[i] \in Claims
    BY <1>3, <1>4, ElementOfSeq, LenProperties
  <2>2. \A i \in DOMAIN touched : batch[i] \in StaleLines
    BY <1>5, <2>1 DEF StaleLines
  <2>3. batch = [i \in DOMAIN touched |-> batch[i]]
    BY <1>5
  <2> QED
    BY <1>4, <2>2, <2>3, EachOf
<1>7. next \in Rest \cup Appends(StaleLines, Rest)
  BY <1>6, Appending DEF Rest
<1>8. \A c \in T : \E e \in Range(batch) : e.claim = c
  <2> SUFFICES ASSUME NEW c \in T PROVE \E e \in Range(batch) : e.claim = c
    OBVIOUS
  <2>1. PICK i \in DOMAIN touched : touched[i] = c
    BY <1>4
  <2>2. i \in DOMAIN batch /\ batch[i] = [kind |-> "stale", claim |-> touched[i]]
    BY <1>5
  <2>3. batch[i].claim = c
    BY <2>1, <2>2
  <2> QED
    BY <2>2, <2>3 DEF Range
<1>9. T # {} => next # Resting /\ next.batch = batch
  <2> SUFFICES ASSUME T # {} PROVE next # Resting /\ next.batch = batch
    OBVIOUS
  <2>1. Range(batch) # {}
    BY <1>8
  <2>2. batch # << >>
    BY <2>1 DEF Range
  <2> QED
    BY <2>2 DEF AppendsThen, Resting
<1> HIDE DEF next
<1>10. WorldTypes' /\ Allowed' /\ LogTypes' /\ IndexCurrent' /\ Founded'
  BY <1>1, <1>2 DEF AttestInv, WorldTypes, Allowed, LogTypes, IndexCurrent, Founded, attestLog
<1>11. DueTypes' /\ RefutedSettled'
  BY <1>1, <1>3 DEF AttestInv, DueTypes, RefutedSettled, attestLog, Refuted, Stale
<1>12. Holds'
  BY <1>1, <1>2 DEF AttestInv, Holds
<1>13. DaemonNotes'
  BY <1>2, <1>7 DEF DaemonNotes
<1>14. NotesKept'
  <2> SUFFICES ASSUME NEW d \in due', ~ Stale(d)'
               PROVE  proc'[Daemon] # Resting /\ \E x \in Range(proc'[Daemon].batch) : x.claim = d
    BY DEF NotesKept
  <2>1. \A x \in due : Stale(x)
    BY <1>1 DEF AttestInv, NotesKept
  <2>2. d \notin due
    BY <1>1, <2>1 DEF Stale, attestLog
  <2>3. d \in T
    BY <1>1, <2>2
  <2> QED
    BY <1>2, <1>8, <1>9, <2>3
<1> QED
  BY <1>10, <1>11, <1>12, <1>13, <1>14 DEF AttestInv

LEMMA KillDaemonStep ==
  ASSUME AttestInv, KillDaemon
  PROVE  AttestInv'
<1>1. /\ Goes(Daemon, Resting) /\ Daemon \in Writers
      /\ due' = IF proc[Daemon] = Resting THEN due ELSE due \ {e.claim : e \in Range(proc[Daemon].batch)}
      /\ pending' = {}
      /\ UNCHANGED <<attestLog, tree, head, covmap, verifyLock, extract, basis>>
      /\ Allowed'
  BY UseKeeps DEF KillDaemon, Writers, AttestInv
<1>2. /\ DOMAIN proc' = Writers /\ proc'[Daemon] = Resting
      /\ \A q \in Procs : proc'[q] = proc[q]
  BY <1>1, OthersHold
<1>3. due' \subseteq due
  BY <1>1
<1>4. WorldTypes' /\ LogTypes' /\ IndexCurrent' /\ Founded'
  BY <1>1, <1>2 DEF AttestInv, WorldTypes, LogTypes, IndexCurrent, Founded, attestLog
<1>5. DueTypes' /\ RefutedSettled'
  BY <1>1, <1>3 DEF AttestInv, DueTypes, RefutedSettled, attestLog, Refuted, Stale
<1>6. Holds' /\ DaemonNotes'
  BY <1>1, <1>2 DEF AttestInv, Holds, DaemonNotes, Rest
<1>7. ASSUME NEW d \in due' PROVE Stale(d)
  BY <1>1, <1>3 DEF AttestInv, NotesKept
<1>8. NotesKept'
  BY <1>1, <1>7 DEF NotesKept, Stale, attestLog
<1> QED
  BY <1>1, <1>4, <1>5, <1>6, <1>8 DEF AttestInv

-----------------------------------------------------------------------------
(* The user, and the whole. *)

LEMMA UserStep ==
  ASSUME AttestInv,
         \/ \E v \in left.versions : EditSource(v)
         \/ \E tests \in left.tests : EditTests(tests)
         \/ Commit
  PROVE  AttestInv'
<1>1. UNCHANGED <<attestLog, covmap, proc, verifyLock, extract, due, basis>>
  BY DEF EditSource, EditTests, Commit
<1>2. Allowed'
  BY UseKeeps DEF EditSource, EditTests, Commit, AttestInv, Allowed
<1>3. tree' \in Contents /\ head' \in Contents /\ pending' \in SUBSET Files
  <2>1. tree \in Contents /\ head \in Contents /\ pending \in SUBSET Files
    BY DEF AttestInv, WorldTypes
  <2>2. ASSUME NEW v \in left.versions, EditSource(v)
        PROVE  tree' \in Contents /\ head' \in Contents /\ pending' \in SUBSET Files
    BY <2>1, <2>2 DEF EditSource, Contents, Files, AttestInv, Allowed
  <2>3. ASSUME NEW tests \in left.tests, EditTests(tests)
        PROVE  tree' \in Contents /\ head' \in Contents /\ pending' \in SUBSET Files
    BY <2>1, <2>3 DEF EditTests, Contents, Files, AttestInv, Allowed
  <2>4. CASE Commit
    BY <2>1, <2>4 DEF Commit
  <2> QED
    BY <2>2, <2>3, <2>4
<1>4. WorldTypes' /\ LogTypes' /\ IndexCurrent' /\ Founded' /\ DueTypes' /\ RefutedSettled'
  BY <1>1, <1>3 DEF AttestInv, WorldTypes, LogTypes, IndexCurrent, Founded, DueTypes, RefutedSettled,
       attestLog, Refuted, Stale
<1>5. Holds' /\ DaemonNotes' /\ NotesKept'
  BY <1>1 DEF AttestInv, Holds, DaemonNotes, NotesKept, Stale, attestLog
<1> QED
  BY <1>2, <1>4, <1>5 DEF AttestInv

LEMMA InitHolds ==
  ASSUME Init
  PROVE  AttestInv
<1>1. Unseen \in ClaimState
  BY DEF Unseen, ClaimState, Statuses
<1>2. LogTypes
  BY <1>1 DEF Init, EmptyLog, LogTypes
<1>3. Allowed
  BY AttestationAssumption DEF Init, Allowed
<1>4. WorldTypes
  BY <1>3 DEF Init, WorldTypes, Contents, Allowed
<1>5. DueTypes /\ Founded
  BY DEF Init, EmptyLog, Unseen, DueTypes, Founded
<1>6. RefutedSettled /\ IndexCurrent /\ NotesKept
  BY DEF Init, EmptyLog, Unseen, RefutedSettled, Refuted, Stale, IndexCurrent, NotesKept
<1>7. Holds /\ DaemonNotes
  BY DEF Init, Holds, DaemonNotes, OtherStates, Rest, Writers
<1> QED
  BY <1>2, <1>3, <1>4, <1>5, <1>6, <1>7 DEF AttestInv

LEMMA NextHolds ==
  ASSUME AttestInv, [Next]_vars
  PROVE  AttestInv'
<1>1. ASSUME NEW p \in Procs, Command(p) PROVE AttestInv'
  BY <1>1, DiscoverStep, PlanStep, RunTestsStep, WriteEvidenceStep, StartVerifyStep, SelectStep, ExtractStep,
     ReplayRunStep, StartReviewStep, AnswerStep, ManualDeclareStep, StartCoverageStep, WriteMapStep,
     KillCommandStep DEF Command, AllStale
<1>2. ASSUME NEW p \in Writers, AppendLine(p) PROVE AttestInv'
  BY <1>2, CommandAppends, DaemonAppends DEF Writers
<1>3. CASE UNCHANGED vars
  BY <1>3 DEF vars, system, attestLog, AttestInv, LogTypes, WorldTypes, Allowed, DueTypes, Holds, DaemonNotes,
       Founded, RefutedSettled, IndexCurrent, NotesKept, Refuted, Stale
<1> QED
  BY <1>1, <1>2, <1>3, FlushStep, KillDaemonStep, UserStep DEF Next

(* The inductive invariant of the writers of attest.jsonl. *)
THEOREM AttestInvariant == Spec => []AttestInv
<1> QED
  BY InitHolds, NextHolds, PTL DEF Spec

(* No note is dropped: once the daemon has flushed a write that touches a  *)
(* claim, the claim is stale or about to be until a verdict settles it.    *)
THEOREM NotesAreKept == Spec => []NotesKept
<1>1. AttestInv => NotesKept
  BY DEF AttestInv
<1> QED
  BY <1>1, AttestInvariant, PTL

(* The index of the fold names for each identity the claim that carries    *)
(* it, whatever was renamed, derived twice or captured in between.         *)
THEOREM IndexIsCurrent == Spec => []IndexCurrent
<1>1. AttestInv => IndexCurrent
  BY DEF AttestInv
<1> QED
  BY <1>1, AttestInvariant, PTL

(* No process pushes a verdict that its runs did not earn, although the    *)
(* commands share the directory in which they replay.                      *)
THEOREM VerdictsAreEarned == Spec => []VerdictEarned
<1>1. AttestInv => VerdictEarned
  BY DEF AttestInv, Founded, Earned, VerdictEarned
<1> QED
  BY <1>1, AttestInvariant, PTL

(* Nothing that any process appends brings a refuted claim back, or a gate *)
(* that it holds.                                                          *)
THEOREM RefutedStays == Spec => RefutedForever
<1> DEFINE Stays == \A c \in Claims : Refuted(c) => Refuted(c)' /\ ~ Stale(c)' /\ ~ GatePasses'
<1>1. ASSUME AttestInv, AttestInv', [Next]_vars PROVE [Stays]_vars
  <2>1. ASSUME NEW c \in Claims, Refuted(c) PROVE Refuted(c)'
    <3>1. CASE UNCHANGED claims
      BY <2>1, <3>1 DEF Refuted
    <3>2. ASSUME NEW p \in Writers, AppendLine(p) PROVE Refuted(c)'
      <4> DEFINE e == Head(proc[p].batch)
      <4>1. e \in Lines /\ AppendEvent(e)
        <5>1. proc[p].pc = "append" /\ AppendEvent(e)
          BY <3>2 DEF AppendLine
        <5>2. CASE p \in Procs
          <6>1. proc[p].batch \in Seq(OtherLines) \/ proc[p].batch \in Seq(VerdictLines)
            BY <1>1, <5>1, <5>2, PcTells DEF Appends, WithVerdict
          <6>2. proc[p].batch # << >>
            BY <1>1, <5>1, <5>2, PcTells DEF Appends, WithVerdict
          <6> QED
            BY <5>1, <6>1, <6>2, HeadTailProperties DEF Lines
        <5>3. CASE p = Daemon
          <6>1. proc[p].batch \in Seq(StaleLines) /\ proc[p].batch # << >>
            BY <1>1, <5>1, <5>3 DEF AttestInv, DaemonNotes, Rest, Resting, Appends
          <6> QED
            BY <5>1, <6>1, HeadTailProperties DEF Lines
        <5> QED
          BY <5>2, <5>3 DEF Writers
      <4> HIDE DEF e
      <4>2. /\ ClaimOf(e) \in Claims
            /\ claims' = [claims EXCEPT ![ClaimOf(e)] = Applied(claims[ClaimOf(e)], e)]
        BY <1>1, <4>1, LogStep DEF AttestInv
      <4>3. claims[ClaimOf(e)] \in ClaimState
        BY <1>1, <4>2 DEF AttestInv, LogTypes
      <4>4. claims[ClaimOf(e)].status = "claim-false" => Applied(claims[ClaimOf(e)], e).status = "claim-false"
        BY <4>1, <4>3, LineApplied
      <4> QED
        BY <1>1, <2>1, <4>2, <4>4 DEF AttestInv, LogTypes, Refuted
    <3>3. [Next]_vars => UNCHANGED claims \/ \E p \in Writers : AppendLine(p)
      BY DEF Next, Command, vars, attestLog, Discover, Plan, RunTests, WriteEvidence, StartVerify, Select, Extract,
         ReplayRun, StartReview, Answer, ManualDeclare, StartCoverage, WriteMap, KillCommand, Flush, KillDaemon,
         EditSource, EditTests, Commit
    <3> QED
      BY <1>1, <3>1, <3>2, <3>3
  <2>2. ASSUME NEW c \in Claims, Refuted(c)' PROVE ~ Stale(c)' /\ ~ GatePasses'
    <3>1. ~ Stale(c)'
      BY <1>1, <2>2 DEF AttestInv, RefutedSettled
    <3>2. claims'[c].status = "claim-false"
      BY <2>2 DEF Refuted
    <3> QED
      BY <3>1, <3>2 DEF GatePasses, Seen, Blocking
  <2> QED
    BY <2>1, <2>2
<1> QED
  BY <1>1, AttestInvariant, PTL DEF Spec, RefutedForever
=============================================================================
