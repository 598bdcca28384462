---------------------------- MODULE MemoryProofs ----------------------------
(***************************************************************************)
(* Promises of the memory ledger and of the inbox that feeds it, for every *)
(* set of commands, facts and paths and every bound of an exploration:     *)
(*   - no record whose append succeeded is lost (NoRecordLost);            *)
(*   - a forgotten memory stays forgotten (ForgetWins);                    *)
(*   - no line of the inbox is lost or passed over in silence              *)
(*     (NothingSkipped);                                                   *)
(*   - a candidate is remembered once (RememberedOnce);                    *)
(*   - what recall, the hook and the listing say is so (RecallHonest).     *)
(*                                                                         *)
(* LedgerInv is the inductive invariant. A step that appends is treated in *)
(* Appending, one that prepares an append in Intending, the rewrite of a   *)
(* purge in Purging; every other step leaves what the invariant speaks of  *)
(* alone, or lets a writer forget its record (Steady). InboxInv, further   *)
(* down, is the one of the inbox, OnceInv the one of its candidates,       *)
(* RecallInv the one of the readers.                                       *)
(***************************************************************************)
EXTENDS SignalInbox, FiniteSetTheorems, SequenceTheorems, WellFoundedInduction, TLAPS

Ops == {"assert", "reverify", "retract"}

IsRecord(r) == r.id \in Nat /\ r.op \in Ops /\ r.ts \in Nat /\ r.ts <= now

(* A writer that has decided what it appends. A retraction is decided by a *)
(* command, at the time it has read.                                       *)
IsIntent(x) ==
  /\ x.pc = "append"
  /\ x.record.id \in Nat /\ x.record.op \in Ops
  /\ x.record.op = "retract" => x.since \in Nat /\ x.since <= now

LedgerTypes ==
  /\ mem = [records |-> mem.records, torn |-> mem.torn, corrupt |-> mem.corrupt]
  /\ purge = [pc |-> purge.pc, take |-> purge.take, keep |-> purge.keep]
  /\ purge.pc \in {"rest", "archive", "rewrite"}
  /\ now \in Nat /\ forgotten \subseteq Nat
  /\ "asserts" \in DOMAIN left /\ left.asserts \in Nat
  /\ \A r \in mem.records : IsRecord(r)
  /\ proc = [p \in Writers |-> proc[p]]
  /\ \A p \in Writers : proc[p] # Resting => IsIntent(proc[p])

(* What purge is about to keep and to take is the whole ledger, for nobody *)
(* appends while it has the lock; it takes whole chains, and removes from  *)
(* the ledger only what is in the archive.                                 *)
PurgeInv ==
  purge.pc # "rest" =>
    /\ purge.take \cup purge.keep = mem.records
    /\ \A r, s \in mem.records : r.id = s.id /\ r \in purge.keep => s \in purge.keep
    /\ purge.pc = "rewrite" => purge.take \subseteq archive

(* An id is asserted once, before anything else is said of it.             *)
AssertedOnce ==
  /\ \A r \in mem.records : r.id > left.asserts
  /\ \A p \in Writers : proc[p] # Resting => proc[p].record.id > left.asserts
  /\ \A i \in forgotten : i > left.asserts
  /\ \A p \in Writers : proc[p] # Resting /\ proc[p].record.op = "assert" =>
       /\ proc[p].record.id \notin forgotten
       /\ \A r \in mem.records : r.id # proc[p].record.id
       /\ \A q \in Writers : q # p /\ proc[q] # Resting => proc[q].record.id # proc[p].record.id

(* Of the memories that no verify and forget race for: verify and forget   *)
(* are not under way together, no verify is under way once the memory is   *)
(* forgotten, and what a forget has read is older than the forget.         *)
Apart ==
  \A p \in Writers : proc[p] # Resting /\ proc[p].record.id \notin raced =>
    /\ proc[p].record.op = "reverify" =>
         /\ proc[p].record.id \notin forgotten
         /\ \A q \in Writers : ~ Intends(q, "retract", proc[p].record.id)
    /\ proc[p].record.op = "retract" =>
         \A r \in mem.records :
           r.id = proc[p].record.id /\ r.op # "retract" => r.ts <= proc[p].since

EndsRetracted(i) ==
  \E r \in mem.records :
    /\ r.id = i /\ r.op = "retract"
    /\ \A s \in mem.records : s.id = i => ~ Earlier(r, s)

(* No record of a forgotten memory is later than a retraction of it.       *)
Retracted ==
  /\ \A r \in mem.records : r.op = "retract" => r.id \in forgotten
  /\ \A r \in mem.records :
       r.id \in forgotten /\ r.id \notin raced => EndsRetracted(r.id)

LedgerInv ==
  /\ LedgerTypes /\ PurgeInv /\ AssertedOnce /\ Apart /\ Retracted
  /\ NoRecordLost

-----------------------------------------------------------------------------
(* The order of the records and what the fold makes of it.                 *)

LEMMA EarlierIsAnOrder ==
  ASSUME NEW a, NEW b, NEW c, IsRecord(a), IsRecord(b), IsRecord(c), now \in Nat
  PROVE  /\ ~ Earlier(a, a)
         /\ ~ Earlier(a, b) /\ Earlier(a, c) => ~ Earlier(c, b)
<1>1. Rank(a.op) \in Nat /\ Rank(b.op) \in Nat /\ Rank(c.op) \in Nat
  BY DEF IsRecord, Ops, Rank
<1> QED
  BY <1>1 DEF IsRecord, Earlier

LEMMA RetractionsRankLast ==
  ASSUME NEW r, NEW s, IsRecord(r), IsRecord(s), now \in Nat, r.op = "retract"
  PROVE  /\ s.op # "retract" /\ s.ts <= r.ts => Earlier(s, r)
         /\ s.op # "retract" /\ ~ Earlier(r, s) => Earlier(s, r)
  BY DEF IsRecord, Ops, Rank, Earlier

(* The fold calls a memory retracted when no record is later than one of   *)
(* its retractions.                                                        *)
LEMMA FoldRetracts ==
  ASSUME LedgerTypes, NEW i, EndsRetracted(i)
  PROVE  Effective(mem.records, i).retracted
<1> DEFINE C == Chain(mem.records, i)
<1>1. PICK r \in C : r.op = "retract" /\ \A s \in C : ~ Earlier(r, s)
  BY DEF EndsRetracted, Chain
<1>2. Latest(C) \in C /\ \A s \in C : ~ Earlier(Latest(C), s)
  BY <1>1 DEF Latest
<1>3. IsRecord(r) /\ IsRecord(Latest(C)) /\ now \in Nat
  BY <1>1, <1>2 DEF LedgerTypes, Chain
<1>4. ~ Earlier(r, Latest(C)) /\ ~ Earlier(Latest(C), r)
  BY <1>1, <1>2
<1>5. Latest(C).op = "retract"
  BY <1>1, <1>3, <1>4, RetractionsRankLast
<1> QED
  BY <1>5 DEF Effective

(* Whoever reads a memory as living may say something of it: it has        *)
(* records, and is not forgotten, unless a verify and a forget raced.      *)
LEMMA LivingMemories ==
  ASSUME LedgerInv, NEW m \in Living
  PROVE  /\ \E r \in mem.records : r.id = m.id
         /\ m.id \notin forgotten \/ m.id \in raced
<1>1. PICK i \in Ids(mem.records) : m = Effective(mem.records, i) /\ ~ m.retracted
  BY DEF Living, LoadEffective
<1>2. m.id = i
  BY <1>1 DEF Effective
<1>3. PICK r \in mem.records : r.id = i
  BY DEF Ids
<1>4. i \notin forgotten \/ i \in raced
  BY <1>1, <1>3, FoldRetracts DEF LedgerInv, Retracted
<1> QED
  BY <1>2, <1>3, <1>4

-----------------------------------------------------------------------------
(* Steps.                                                                  *)

(* A step that leaves the ledger alone; writers may forget what they were  *)
(* about to append, and the reader and the files may do as they like.      *)
LEMMA Steady ==
  ASSUME LedgerInv,
         UNCHANGED <<archive, purge, acked, now, forgotten, raced>>,
         mem' = [mem EXCEPT !.torn = mem'.torn, !.corrupt = mem'.corrupt],
         "asserts" \in DOMAIN left', left'.asserts = left.asserts,
         proc' = [p \in Writers |-> proc'[p]],
         \A p \in Writers : proc'[p] \in {proc[p], Resting}
  PROVE  LedgerInv'
<1>1. mem'.records = mem.records
  BY DEF LedgerInv, LedgerTypes
<1>2. LedgerTypes'
  BY <1>1 DEF LedgerInv, LedgerTypes, IsRecord, IsIntent
<1>3. PurgeInv'
  BY <1>1 DEF LedgerInv, PurgeInv
<1>4. AssertedOnce'
  BY <1>1 DEF LedgerInv, AssertedOnce
<1>5. Apart'
  BY <1>1 DEF LedgerInv, Apart, Intends
<1>6. Retracted'
  BY <1>1 DEF LedgerInv, Retracted, EndsRetracted, Earlier
<1>7. NoRecordLost'
  BY <1>1 DEF LedgerInv, NoRecordLost
<1> QED
  BY <1>2, <1>3, <1>4, <1>5, <1>6, <1>7 DEF LedgerInv

(* A step by which p decides what it appends: the assertion of a new id, a *)
(* verify or a forget of a living memory.                                  *)
LEMMA Intending ==
  ASSUME LedgerInv,
         UNCHANGED <<mem, archive, purge, acked, now, forgotten>>,
         NEW p \in Writers, NEW r, NEW since,
         proc[p] = Resting,
         proc' = [proc EXCEPT ![p] = [pc |-> "append", since |-> since, record |-> r]],
         "asserts" \in DOMAIN left',
         \/ /\ r.op = "assert" /\ r.id = left.asserts
            /\ left.asserts > 0 /\ left'.asserts = left.asserts - 1
            /\ raced' = raced
         \/ /\ left'.asserts = left.asserts
            /\ \E m \in Living : r.id = m.id
            /\ \/ r.op = "reverify" /\ Overlap("retract", r.id)
               \/ r.op = "retract" /\ since = now /\ Overlap("reverify", r.id)
  PROVE  LedgerInv'
<1> USE DEF LedgerInv
<1> DEFINE x == [pc |-> "append", since |-> since, record |-> r]
<1>a. /\ \A q \in Writers : q # p => proc'[q] = proc[q]
      /\ proc'[p] = x /\ proc'[p] # Resting
  BY DEF LedgerTypes, Resting
<1>b. /\ x.pc = "append" /\ x.since = since /\ x.record = r
  OBVIOUS
<1>c. raced \subseteq raced'
  BY DEF Overlap
<1>d. r.op # "assert" =>
        /\ \E s \in mem.records : s.id = r.id
        /\ r.id \notin forgotten \/ r.id \in raced
        /\ left'.asserts = left.asserts
  BY LivingMemories
<1>e. left.asserts \in Nat /\ left'.asserts \in Nat /\ left'.asserts <= left.asserts
  BY DEF LedgerTypes
<1>f. /\ r.op \in Ops /\ r.id \in Nat /\ r.id > left'.asserts
      /\ r.op = "retract" => since = now
  BY <1>d, <1>e DEF Ops, LedgerTypes, IsRecord, AssertedOnce
<1> HIDE DEF x
<1>2. LedgerTypes'
  <2>1. IsIntent(x)'
    BY <1>b, <1>f DEF IsIntent, LedgerTypes
  <2>2. ASSUME NEW q \in Writers, q # p, proc'[q] # Resting
        PROVE  IsIntent(proc[q])'
    BY <2>2, <1>a DEF LedgerTypes, IsIntent
  <2> QED
    BY <2>1, <2>2, <1>a, <1>e DEF LedgerTypes, IsRecord
<1>3. PurgeInv'
  BY DEF PurgeInv
<1>4. AssertedOnce'
  <2>1. \A s \in mem.records : s.id > left'.asserts
    BY <1>e DEF AssertedOnce, LedgerTypes, IsRecord
  <2>3. \A i \in forgotten : i > left'.asserts
    BY <1>e DEF AssertedOnce, LedgerTypes
  <2>4. ASSUME NEW q \in Writers, proc'[q] # Resting
        PROVE  proc'[q].record.id > left'.asserts
    <3>1. CASE q = p
      BY <3>1, <1>a, <1>b, <1>f
    <3>2. CASE q # p
      BY <2>4, <3>2, <1>a, <1>e DEF AssertedOnce, LedgerTypes, IsIntent
    <3> QED
      BY <3>1, <3>2
  <2>2. ASSUME NEW q \in Writers, proc'[q] # Resting, proc'[q].record.op = "assert"
        PROVE  /\ proc'[q].record.id \notin forgotten
               /\ \A s \in mem.records : s.id # proc'[q].record.id
               /\ \A t \in Writers : t # q /\ proc'[t] # Resting
                    => proc'[t].record.id # proc'[q].record.id
    <3>1. CASE q = p
      <4>1. r.op = "assert" /\ r.id = left.asserts
        BY <2>2, <3>1, <1>a, <1>b
      <4> QED
        BY <3>1, <4>1, <1>a, <1>b, <1>e DEF AssertedOnce, LedgerTypes, IsRecord, IsIntent
    <3>2. CASE q # p
      <4>1. /\ proc[q].record.op = "assert" /\ proc[q] # Resting
            /\ proc[q].record.id = proc'[q].record.id
        BY <2>2, <3>2, <1>a
      <4>2. r.id # proc[q].record.id
        BY <4>1, <1>d, <1>e DEF AssertedOnce
      <4> QED
        BY <3>2, <4>1, <4>2, <1>a, <1>b DEF AssertedOnce
    <3> QED
      BY <3>1, <3>2
  <2> QED
    BY <2>1, <2>2, <2>3, <2>4 DEF AssertedOnce
<1>5. Apart'
  <2> SUFFICES ASSUME NEW q \in Writers, NEW i,
                      proc'[q] # Resting, proc'[q].record.id = i, i \notin raced'
               PROVE  /\ proc'[q].record.op = "reverify" =>
                           i \notin forgotten /\ \A t \in Writers : ~ Intends(t, "retract", i)'
                      /\ proc'[q].record.op = "retract" =>
                           \A s \in mem.records :
                             s.id = i /\ s.op # "retract" => s.ts <= proc'[q].since
    BY DEF Apart, Intends
  <2>0. i \notin raced
    BY <1>c
  <2>1. CASE q = p
    <3>1. r.id = i
      BY <2>1, <1>a, <1>b
    <3>2. ASSUME r.op = "reverify", NEW t \in Writers, Intends(t, "retract", i)'
          PROVE  FALSE
      <4>1. t # p
        BY <3>2, <1>a, <1>b DEF Intends
      <4>2. Intends(t, "retract", i)
        BY <3>2, <4>1, <1>a DEF Intends
      <4>3. Overlap("retract", r.id)
        BY <3>2
      <4> QED
        BY <3>1, <4>2, <4>3 DEF Overlap
    <3>3. r.op = "retract" => \A s \in mem.records : s.ts <= since
      BY <1>f DEF LedgerTypes, IsRecord
    <3>4. r.op = "reverify" => i \notin forgotten
      BY <2>0, <3>1, <1>d
    <3> QED
      BY <2>1, <3>2, <3>3, <3>4, <1>a, <1>b
  <2>2. CASE q # p
    <3>1. proc[q] = proc'[q] /\ proc[q] # Resting
      BY <2>2, <1>a
    <3>2. ASSUME proc[q].record.op = "reverify", NEW t \in Writers, Intends(t, "retract", i)'
          PROVE  FALSE
      <4>1. CASE t = p
        <5>1. r.op = "retract" /\ r.id = i
          BY <3>2, <4>1, <1>a, <1>b DEF Intends
        <5>2. Intends(q, "reverify", i)
          BY <3>1, <3>2, <5>1 DEF Intends
        <5>3. Overlap("reverify", i)
          BY <5>1
        <5> QED
          BY <5>2, <5>3 DEF Overlap
      <4>2. CASE t # p
        <5>1. Intends(t, "retract", i)
          BY <3>2, <4>2, <1>a DEF Intends
        <5> QED
          BY <2>0, <3>1, <3>2, <5>1 DEF Apart
      <4> QED
        BY <4>1, <4>2
    <3> QED
      BY <2>0, <3>1, <3>2 DEF Apart
  <2> QED
    BY <2>1, <2>2
<1>6. Retracted'
  BY <1>c DEF Retracted, EndsRetracted, Earlier
<1>7. NoRecordLost'
  BY DEF NoRecordLost
<1> QED
  BY <1>2, <1>3, <1>4, <1>5, <1>6, <1>7

(* The append of p reaches the file: one record more.                      *)
LEMMA Appended ==
  ASSUME LedgerInv, NEW p \in Writers, NEW r, NEW t \in Nat,
         proc[p] # Resting, proc' = [proc EXCEPT ![p] = Resting],
         purge.pc = "rest",
         r.id = proc[p].record.id, r.op = proc[p].record.op, r.ts = t,
         t <= now, r.op = "retract" => proc[p].since <= t,
         mem' = [mem EXCEPT !.records = @ \cup {r}], acked' = acked \cup {r},
         forgotten' = IF r.op = "retract" THEN forgotten \cup {r.id} ELSE forgotten,
         UNCHANGED <<archive, now, purge, left, raced>>
  PROVE  LedgerInv'
<1> USE DEF LedgerInv
<1>a. /\ \A q \in Writers : q # p => proc'[q] = proc[q]
      /\ proc'[p] = Resting
  BY DEF LedgerTypes
<1>b. mem'.records = mem.records \cup {r}
  BY DEF LedgerTypes
<1>c. IsIntent(proc[p]) /\ r.id \in Nat /\ r.op \in Ops /\ r.id > left.asserts
  BY DEF LedgerTypes, IsIntent, AssertedOnce
<1>d. IsRecord(r)
  BY <1>c DEF IsRecord
<1>e. now \in Nat /\ \A s \in mem.records : IsRecord(s)
  BY DEF LedgerTypes
<1>2. LedgerTypes'
  <2>1. ASSUME NEW q \in Writers, proc'[q] # Resting
        PROVE  IsIntent(proc[q])'
    BY <2>1, <1>a DEF LedgerTypes, IsIntent
  <2> QED
    BY <2>1, <1>a, <1>b, <1>c, <1>d DEF LedgerTypes, IsRecord
<1>3. PurgeInv'
  BY DEF PurgeInv
<1>4. AssertedOnce'
  <2>1. \A s \in mem'.records : s.id > left.asserts
    BY <1>b, <1>c DEF AssertedOnce
  <2>2. \A i \in forgotten' : i > left.asserts
    BY <1>c DEF AssertedOnce
  <2>3. \A q \in Writers : proc'[q] # Resting => proc'[q].record.id > left.asserts
    BY <1>a DEF AssertedOnce
  <2>4. ASSUME NEW q \in Writers, proc'[q] # Resting, proc'[q].record.op = "assert"
        PROVE  /\ proc'[q].record.id \notin forgotten'
               /\ \A s \in mem'.records : s.id # proc'[q].record.id
               /\ \A u \in Writers : u # q /\ proc'[u] # Resting
                    => proc'[u].record.id # proc'[q].record.id
    <3>1. q # p /\ proc'[q] = proc[q]
      BY <2>4, <1>a
    <3>2. r.id # proc[q].record.id
      BY <2>4, <3>1 DEF AssertedOnce
    <3> QED
      BY <2>4, <3>1, <3>2, <1>a, <1>b DEF AssertedOnce
  <2> QED
    BY <2>1, <2>2, <2>3, <2>4 DEF AssertedOnce
<1>5. Apart'
  <2> SUFFICES ASSUME NEW q \in Writers, NEW i,
                      proc'[q] # Resting, proc'[q].record.id = i, i \notin raced
               PROVE  /\ proc'[q].record.op = "reverify" =>
                           i \notin forgotten' /\ \A u \in Writers : ~ Intends(u, "retract", i)'
                      /\ proc'[q].record.op = "retract" =>
                           \A s \in mem'.records :
                             s.id = i /\ s.op # "retract" => s.ts <= proc'[q].since
    BY DEF Apart, Intends
  <2>1. q # p /\ proc'[q] = proc[q]
    BY <1>a
  <2>2. ASSUME proc[q].record.op = "reverify"
        PROVE  i \notin forgotten' /\ \A u \in Writers : ~ Intends(u, "retract", i)'
    <3>1. i \notin forgotten /\ \A u \in Writers : ~ Intends(u, "retract", i)
      BY <2>1, <2>2 DEF Apart
    <3>2. ~ (r.op = "retract" /\ r.id = i)
      BY <3>1 DEF Intends
    <3>3. ASSUME NEW u \in Writers PROVE ~ Intends(u, "retract", i)'
      BY <3>1, <1>a DEF Intends
    <3> QED
      BY <3>1, <3>2, <3>3
  <2>3. ASSUME proc[q].record.op = "retract"
        PROVE  \A s \in mem'.records :
                 s.id = i /\ s.op # "retract" => s.ts <= proc[q].since
    <3>1. \A s \in mem.records : s.id = i /\ s.op # "retract" => s.ts <= proc[q].since
      BY <2>1, <2>3 DEF Apart
    <3>2. Intends(q, "retract", i)
      BY <2>1, <2>3 DEF Intends
    <3>3. r.id = i => r.op # "reverify" /\ r.op # "assert"
      BY <3>2, <2>1 DEF Apart, AssertedOnce, Intends
    <3> QED
      BY <3>1, <3>3, <1>b, <1>c DEF Ops
  <2> QED
    BY <2>1, <2>2, <2>3
<1>6. Retracted'
  <2>1. \A s \in mem'.records : s.op = "retract" => s.id \in forgotten'
    BY <1>b DEF Retracted
  <2>2. ASSUME NEW s \in mem'.records, s.id \in forgotten', s.id \notin raced
        PROVE  EndsRetracted(s.id)'
    <3> DEFINE i == s.id
    <3>1. CASE r.id # i
      <4>1. s \in mem.records /\ i \in forgotten
        BY <2>2, <3>1, <1>b
      <4> QED
        BY <2>2, <3>1, <4>1, <1>b DEF Retracted, EndsRetracted, Earlier
    <3>2. CASE r.id = i /\ EndsRetracted(i)
      <4>1. PICK x \in mem.records :
              x.id = i /\ x.op = "retract" /\ \A y \in mem.records : y.id = i => ~ Earlier(x, y)
        BY <3>2 DEF EndsRetracted
      <4>2. CASE ~ Earlier(x, r)
        BY <4>1, <4>2, <1>b DEF EndsRetracted, Earlier
      <4>3. CASE Earlier(x, r)
        <5>1. \A y \in mem'.records : y.id = i => ~ Earlier(r, y)
          BY <4>1, <4>3, <1>b, <1>d, <1>e, EarlierIsAnOrder
        <5>2. r.op = "retract"
          <6>1. i \in forgotten
            BY <4>1 DEF Retracted
          <6>2. r.op # "reverify"
            BY <2>2, <3>2, <6>1 DEF Apart
          <6>3. r.op # "assert"
            BY <3>2, <4>1 DEF AssertedOnce
          <6> QED
            BY <6>2, <6>3, <1>c DEF Ops
        <5> QED
          BY <5>1, <5>2, <3>2, <1>b DEF EndsRetracted, Earlier
      <4> QED
        BY <4>2, <4>3
    <3>3. CASE r.id = i /\ ~ EndsRetracted(i)
      <4>1. \A y \in mem.records : y.id = i => i \notin forgotten
        BY <2>2, <3>3 DEF Retracted
      <4>2. \A y \in mem.records : y.id = i => y.op # "retract"
        BY <4>1 DEF Retracted
      <4>3. r.op = "retract"
        <5>1. CASE i \in forgotten
          <6>1. \A y \in mem.records : y.id # i
            BY <4>1, <5>1
          <6>2. r.op # "reverify"
            BY <2>2, <3>3, <5>1 DEF Apart
          <6>3. r.op # "assert"
            BY <3>3, <5>1 DEF AssertedOnce
          <6> QED
            BY <6>2, <6>3, <1>c DEF Ops
        <5>2. CASE i \notin forgotten
          BY <2>2, <5>2
        <5> QED
          BY <5>1, <5>2
      <4>4. ASSUME NEW y \in mem.records, y.id = i
            PROVE  ~ Earlier(r, y)
        <5>1. y.ts <= proc[p].since
          BY <2>2, <3>3, <4>2, <4>3, <4>4 DEF Apart
        <5>2. y.ts <= r.ts
          BY <5>1, <4>3, <1>c, <1>e DEF IsIntent, IsRecord
        <5>3. Earlier(y, r)
          BY <4>2, <4>3, <4>4, <5>2, <1>d, <1>e, RetractionsRankLast
        <5> QED
          BY <5>3, <1>d, <1>e, EarlierIsAnOrder
      <4>5. ~ Earlier(r, r)
        BY <1>d, <1>e, EarlierIsAnOrder
      <4> QED
        BY <3>3, <4>3, <4>4, <4>5, <1>b DEF EndsRetracted, Earlier
    <3> QED
      BY <3>1, <3>2, <3>3
  <2> QED
    BY <2>1, <2>2 DEF Retracted
<1>7. NoRecordLost'
  BY <1>b DEF NoRecordLost
<1> QED
  BY <1>2, <1>3, <1>4, <1>5, <1>6, <1>7

(* The rewrite of a purge: whole chains go, into the archive.              *)
LEMMA Rewritten ==
  ASSUME LedgerInv, PurgeRewrite
  PROVE  LedgerInv'
<1> USE DEF LedgerInv, PurgeRewrite, PurgeUnchanged
<1>a. /\ mem'.records = purge.keep /\ purge.keep \subseteq mem.records
      /\ mem.records \subseteq purge.keep \cup archive
      /\ \A r, s \in mem.records : r.id = s.id /\ r \in purge.keep => s \in purge.keep
  BY DEF PurgeInv, LedgerTypes
<1>2. LedgerTypes'
  BY <1>a DEF LedgerTypes, IsRecord, IsIntent, PurgeRest
<1>3. PurgeInv'
  BY DEF PurgeInv, PurgeRest
<1>4. AssertedOnce'
  BY <1>a DEF AssertedOnce
<1>5. Apart'
  BY <1>a DEF Apart, Intends
<1>6. Retracted'
  BY <1>a DEF Retracted, EndsRetracted, Earlier
<1>7. NoRecordLost'
  BY <1>a DEF NoRecordLost
<1> QED
  BY <1>2, <1>3, <1>4, <1>5, <1>6, <1>7

LEMMA PurgeSteps ==
  ASSUME LedgerInv, PurgeDecide \/ PurgeArchive \/ KillPurge
  PROVE  LedgerInv'
<1> USE DEF LedgerInv, PurgeUnchanged
<1>1. /\ UNCHANGED <<mem, tree, now, proc, acked, forgotten, raced>>
      /\ archive \subseteq archive'
      /\ "asserts" \in DOMAIN left' /\ left'.asserts = left.asserts
  BY DEF PurgeDecide, PurgeArchive, KillPurge, Use, LedgerTypes
<1>2. LedgerTypes'
  BY <1>1 DEF LedgerTypes, IsRecord, IsIntent, PurgeDecide, PurgeArchive, KillPurge, PurgeRest
<1>3. PurgeInv'
  <2>1. CASE PurgeDecide
    <3>1. /\ purge'.take = ExpiredLines /\ purge'.keep = mem.records \ ExpiredLines
          /\ purge'.pc = "archive"
      BY <2>1 DEF PurgeDecide
    <3> QED
      BY <1>1, <3>1 DEF PurgeInv, ExpiredLines
  <2>2. CASE PurgeArchive
    BY <1>1, <2>2 DEF PurgeArchive, PurgeInv, LedgerTypes
  <2>3. CASE KillPurge
    BY <2>3 DEF KillPurge, PurgeInv, PurgeRest
  <2> QED
    BY <2>1, <2>2, <2>3
<1>4. AssertedOnce'
  BY <1>1 DEF AssertedOnce
<1>5. Apart'
  BY <1>1 DEF Apart, Intends
<1>6. Retracted'
  BY <1>1 DEF Retracted, EndsRetracted, Earlier
<1>7. NoRecordLost'
  BY <1>1 DEF NoRecordLost
<1> QED
  BY <1>2, <1>3, <1>4, <1>5, <1>6, <1>7

LEMMA AppendSteps ==
  ASSUME LedgerInv, NEW p \in Writers, AppendLocked(p)
  PROVE  LedgerInv'
<1>1. PICK t \in 0 .. now :
        LET r == Stamped(proc[p].record, t) IN
          /\ proc[p].since <= t
          /\ AppendRecord(r)
          /\ acked' = IF mem.torn THEN acked ELSE acked \cup {r}
          /\ forgotten' = IF r.op = "retract" /\ ~ mem.torn
                          THEN forgotten \cup {r.id} ELSE forgotten
  BY DEF AppendLocked
<1> DEFINE r == Stamped(proc[p].record, t)
<1>2. /\ proc[p] # Resting /\ proc' = [proc EXCEPT ![p] = Resting]
      /\ purge.pc = "rest"
      /\ UNCHANGED <<archive, now, purge, left, raced>>
  BY DEF AppendLocked, MemoryLocked
<1>3. /\ r.id = proc[p].record.id /\ r.op = proc[p].record.op /\ r.ts = t
      /\ t \in Nat /\ t <= now
  BY DEF Stamped, LedgerInv, LedgerTypes
<1>4. CASE mem.torn
  <2>1. /\ mem' = [mem EXCEPT !.torn = FALSE]
        /\ acked' = acked /\ forgotten' = forgotten
    BY <1>1, <1>4 DEF AppendRecord
  <2>2. proc' = [q \in Writers |-> proc'[q]] /\ \A q \in Writers : proc'[q] \in {proc[q], Resting}
    BY <1>2 DEF LedgerInv, LedgerTypes
  <2>3. mem' = [mem EXCEPT !.torn = mem'.torn, !.corrupt = mem'.corrupt]
    BY <2>1 DEF LedgerInv, LedgerTypes
  <2>4. "asserts" \in DOMAIN left' /\ left'.asserts = left.asserts
    BY <1>2 DEF LedgerInv, LedgerTypes
  <2> QED
    BY <1>2, <2>1, <2>2, <2>3, <2>4, Steady
<1>5. CASE ~ mem.torn
  <2>1. /\ mem' = [mem EXCEPT !.records = @ \cup {r}]
        /\ acked' = acked \cup {r}
        /\ forgotten' = IF r.op = "retract" THEN forgotten \cup {r.id} ELSE forgotten
        /\ proc[p].since <= t
    BY <1>1, <1>5 DEF AppendRecord
  <2> HIDE DEF r
  <2> QED
    BY <1>2, <1>3, <2>1, Appended
<1> QED
  BY <1>4, <1>5

(* What a writer of the ledger prepares.                                   *)
LEMMA IntendSteps ==
  ASSUME LedgerInv, NEW p \in Commands, NEW m,
         \/ \E fact \in Facts, S \in SUBSET Paths : Remember(p, fact, S)
         \/ Verify(p, m) \/ Forget(p, m)
         \/ \E old, new \in Paths : VerifyReplacing(p, m, old, new)
  PROVE  LedgerInv'
<1>1. p \in Writers
  BY DEF Writers
<1>2. "asserts" \in DOMAIN left /\ left.asserts \in Nat
  BY DEF LedgerInv, LedgerTypes
<1>3. ASSUME NEW fact, NEW S, Remember(p, fact, S)
      PROVE  LedgerInv'
  <2> DEFINE r == [id |-> left.asserts, op |-> "assert", fact |-> fact, pins |-> Hashed(S)]
  <2>1. /\ proc[p] = Resting
        /\ proc' = [proc EXCEPT ![p] = [pc |-> "append", since |-> now, record |-> r]]
        /\ UNCHANGED <<mem, archive, purge, acked, now, forgotten>>
        /\ r.op = "assert" /\ r.id = left.asserts /\ raced' = raced
        /\ left.asserts > 0
    BY <1>3 DEF Remember, Intend
  <2>2. "asserts" \in DOMAIN left' /\ left'.asserts = left.asserts - 1
    BY <1>2, <1>3 DEF Remember, Use
  <2> HIDE DEF r
  <2> QED
    BY <1>1, <2>1, <2>2, Intending
<1>4. ASSUME NEW r, NEW what, r.id = m.id, m \in Living, Intend(p, r), Use(what),
             what # "asserts",
             \/ r.op = "reverify" /\ Overlap("retract", m.id)
             \/ r.op = "retract" /\ Overlap("reverify", m.id)
      PROVE  LedgerInv'
  <2>1. /\ proc[p] = Resting
        /\ proc' = [proc EXCEPT ![p] = [pc |-> "append", since |-> now, record |-> r]]
        /\ UNCHANGED <<mem, archive, purge, acked, now, forgotten>>
    BY <1>4 DEF Intend
  <2>2. "asserts" \in DOMAIN left' /\ left'.asserts = left.asserts
    BY <1>2, <1>4 DEF Use
  <2> QED
    BY <1>1, <1>4, <2>1, <2>2, Intending
<1>5. CASE Verify(p, m)
  <2> DEFINE r == [ id |-> m.id, op |-> "reverify", fact |-> m.says.fact,
                    pins |-> Hashed(DOMAIN m.says.pins \cap Present) ]
  <2>1. /\ r.id = m.id /\ r.op = "reverify" /\ m \in Living /\ Intend(p, r)
        /\ Use("verifies") /\ Overlap("retract", m.id)
    BY <1>5 DEF Verify
  <2> HIDE DEF r
  <2> QED
    BY <1>4, <2>1
<1>6. CASE Forget(p, m)
  <2> DEFINE r == [id |-> m.id, op |-> "retract", fact |-> m.says.fact, pins |-> m.says.pins]
  <2>1. /\ r.id = m.id /\ r.op = "retract" /\ m \in Living /\ Intend(p, r)
        /\ Use("forgets") /\ Overlap("reverify", m.id)
    BY <1>6 DEF Forget
  <2> HIDE DEF r
  <2> QED
    BY <1>4, <2>1
<1>7. ASSUME NEW old, NEW new, VerifyReplacing(p, m, old, new)
      PROVE  LedgerInv'
  <2> DEFINE r == [ id |-> m.id, op |-> "reverify", fact |-> m.says.fact,
                    pins |-> Hashed(((DOMAIN m.says.pins \ {old}) \cap Present) \cup {new}) ]
  <2>1. /\ r.id = m.id /\ r.op = "reverify" /\ m \in Living /\ Intend(p, r)
        /\ Use("verifies") /\ Overlap("retract", m.id)
    BY <1>7 DEF VerifyReplacing
  <2> HIDE DEF r
  <2> QED
    BY <1>4, <2>1
<1> QED
  BY <1>3, <1>5, <1>6, <1>7

LEMMA TimePasses ==
  ASSUME LedgerInv, Tick
  PROVE  LedgerInv'
<1> USE DEF LedgerInv, Tick, Use
<1>1. LedgerTypes'
  BY DEF LedgerTypes, IsRecord, IsIntent
<1>2. PurgeInv' /\ AssertedOnce' /\ NoRecordLost'
  BY DEF PurgeInv, AssertedOnce, NoRecordLost, LedgerTypes
<1>3. Apart' /\ Retracted'
  BY DEF Apart, Intends, Retracted, EndsRetracted, Earlier
<1> QED
  BY <1>1, <1>2, <1>3

(* The ledger and all that is on its way to it are left alone.             *)
Untouched ==
  /\ UNCHANGED <<mem, archive, purge, acked, now, forgotten, raced, proc>>
  /\ "asserts" \in DOMAIN left' /\ left'.asserts = left.asserts

LEMMA UntouchedStep ==
  ASSUME LedgerInv, Untouched
  PROVE  LedgerInv'
<1>1. mem' = [mem EXCEPT !.torn = mem'.torn, !.corrupt = mem'.corrupt]
  BY DEF LedgerInv, LedgerTypes, Untouched
<1>2. proc' = [p \in Writers |-> proc'[p]] /\ \A p \in Writers : proc'[p] \in {proc[p], Resting}
  BY DEF LedgerInv, LedgerTypes, Untouched
<1> QED
  BY <1>1, <1>2, Steady DEF Untouched

(* A writer is killed, in the worst case in the middle of its append.      *)
LEMMA Killed ==
  ASSUME LedgerInv, NEW p \in Writers, NEW what,
         proc' = [proc EXCEPT ![p] = Resting],
         UNCHANGED mem \/ TearRecord,
         Use(what), what # "asserts",
         UNCHANGED <<archive, now, purge, acked, forgotten, raced>>
  PROVE  LedgerInv'
<1>1. mem' = [mem EXCEPT !.torn = mem'.torn, !.corrupt = mem'.corrupt]
  <2>1. CASE UNCHANGED mem
    BY <2>1 DEF LedgerInv, LedgerTypes
  <2>2. CASE TearRecord
    <3>1. mem'.torn = TRUE /\ mem'.corrupt = TRUE
      BY <2>2 DEF TearRecord, LedgerInv, LedgerTypes
    <3> QED
      BY <2>2, <3>1 DEF TearRecord
  <2> QED
    BY <2>1, <2>2
<1>2. proc' = [q \in Writers |-> proc'[q]] /\ \A q \in Writers : proc'[q] \in {proc[q], Resting}
  BY DEF LedgerInv, LedgerTypes
<1>3. "asserts" \in DOMAIN left' /\ left'.asserts = left.asserts
  BY DEF Use, LedgerInv, LedgerTypes
<1> QED
  BY <1>1, <1>2, <1>3, Steady

LEMMA LedgerSteps ==
  ASSUME LedgerInv, LedgerNext \/ PurgeDecide
  PROVE  LedgerInv'
<1>1. ASSUME NEW p \in Commands, KillWriter(p)
      PROVE  LedgerInv'
  BY <1>1, Killed DEF KillWriter, Writers
<1>2. ASSUME NEW q, NEW c, Edit(q, c)
      PROVE  LedgerInv'
  <2>1. Untouched
    BY <1>2 DEF Edit, Untouched, Use, LedgerInv, LedgerTypes
  <2> QED
    BY <2>1, UntouchedStep
<1> QED
  BY <1>1, <1>2, IntendSteps, AppendSteps, Rewritten, PurgeSteps, TimePasses DEF LedgerNext

LEMMA RecallSteps ==
  ASSUME LedgerInv, RecallNext
  PROVE  LedgerInv'
<1> USE DEF LedgerInv, LedgerTypes, Untouched, RecallUnchanged, Use
<1>1. ASSUME NEW for, NEW k, Load(for, k)
      PROVE  Untouched
  BY <1>1 DEF Load
<1>2. CASE Step \/ Answer \/ RecallEnd \/ Late
  BY <1>2, UntouchedStep DEF Step, Answer, RecallEnd, Late
<1>3. CASE GiveUp \/ Receive
  BY <1>3, UntouchedStep DEF GiveUp, Receive, Return
<1>4. ASSUME NEW q, Recorded(q)
      PROVE  Untouched
  BY <1>4 DEF Recorded
<1> QED
  BY <1>1, <1>2, <1>3, <1>4, UntouchedStep DEF RecallNext, Recall, Inject

LEMMA InboxSteps ==
  ASSUME LedgerInv, InboxNext
  PROVE  LedgerInv'
<1>1. ASSUME NEW kind, NEW fact, NEW S, HookLine(kind, fact, S) \/ HookBegin(kind, fact, S)
      PROVE  Untouched
  BY <1>1 DEF HookLine, HookBegin, HookUnchanged, UseSignal, ledger, Untouched, LedgerInv, LedgerTypes
<1>2. CASE HookEnd \/ HookDies
  BY <1>2, UntouchedStep DEF HookEnd, HookDies, HookUnchanged, ledger, Untouched, LedgerInv, LedgerTypes
<1>3. CASE Hook
  BY <1>1, <1>2, <1>3, UntouchedStep DEF Hook
<1>4. CASE Boot \/ GapScan \/ ReplayDone \/ Poll \/ PassLine \/ Stop
  <2>1. Untouched
    BY <1>4 DEF Boot, GapScan, ReplayDone, Poll, PassLine, Stop, ledger, Untouched, LedgerInv, LedgerTypes
  <2> QED
    BY <2>1, UntouchedStep
<1>5. CASE CutArchive \/ CutRecheck \/ CutRename \/ CutRebase \/ KillCutter
  <2>1. Untouched
    BY <1>5 DEF CutArchive, CutRecheck, CutRename, CutRebase, KillCutter, CutUnchanged, Use,
                ledger, Untouched, LedgerInv, LedgerTypes
  <2> QED
    BY <2>1, UntouchedStep
<1>6. CASE IngestLine
  <2>1. PICK s : Ingest(s.fact, s.pins, s.ts)
    BY <1>6 DEF IngestLine
  <2> DEFINE r == [id |-> left.asserts, op |-> "assert", fact |-> s.fact, pins |-> Hashed(s.pins)]
  <2>2. /\ proc[Daemon] = Resting
        /\ proc' = [proc EXCEPT ![Daemon] = [pc |-> "append", since |-> s.ts, record |-> r]]
        /\ UNCHANGED <<mem, archive, purge, acked, now, forgotten>>
        /\ r.op = "assert" /\ r.id = left.asserts /\ raced' = raced
        /\ left.asserts > 0
    BY <2>1 DEF Ingest
  <2>3. "asserts" \in DOMAIN left' /\ left'.asserts = left.asserts - 1
    BY <2>1 DEF Ingest, Use, LedgerInv, LedgerTypes
  <2>4. Daemon \in Writers
    BY DEF Writers
  <2> HIDE DEF r
  <2> QED
    BY <2>2, <2>3, <2>4, Intending
<1>7. CASE Crash
  <2>1. Daemon \in Writers
    BY DEF Writers
  <2> QED
    BY <1>7, <2>1, Killed DEF Crash
<1> QED
  BY <1>3, <1>4, <1>5, <1>6, <1>7 DEF InboxNext

-----------------------------------------------------------------------------

LEMMA Begins == Init => LedgerInv
<1> SUFFICES ASSUME Init PROVE LedgerInv
  OBVIOUS
<1>1. left \in Bounds /\ "asserts" \in DOMAIN left /\ left.asserts \in Nat /\ left.memories \in Nat
  BY LedgerAssumption DEF Init, LedgerInit
<1>2. PICK fact, S : mem = [records |-> Remembered(fact, S), torn |-> FALSE, corrupt |-> FALSE]
  BY DEF Init, LedgerInit
<1>3. \A r \in mem.records : /\ IsRecord(r) /\ r.op = "assert"
                             /\ r.id > left.asserts
  <2>1. ASSUME NEW n \in 1 .. left.memories
        PROVE  left.asserts + n \in Nat /\ left.asserts + n > left.asserts
    BY <1>1
  <2>2. now = 0
    BY DEF Init, LedgerInit
  <2> QED
    BY <1>2, <2>1, <2>2 DEF Remembered, IsRecord, Ops
<1>4. /\ acked = mem.records /\ forgotten = {} /\ raced = {} /\ now = 0
      /\ proc = [p \in Writers |-> Resting] /\ purge = PurgeRest
  BY DEF Init, LedgerInit
<1> QED
  BY <1>1, <1>2, <1>3, <1>4
  DEF LedgerInv, LedgerTypes, PurgeInv, AssertedOnce, Apart, Retracted, NoRecordLost, PurgeRest

LEMMA Continues == LedgerInv /\ [Next]_vars => LedgerInv'
<1> SUFFICES ASSUME LedgerInv, [Next]_vars PROVE LedgerInv'
  OBVIOUS
<1>1. CASE Next
  BY <1>1, LedgerSteps, RecallSteps, InboxSteps DEF Next
<1>2. CASE UNCHANGED vars
  <2>1. Untouched
    BY <1>2 DEF vars, ledger, Untouched, LedgerInv, LedgerTypes
  <2> QED
    BY <2>1, UntouchedStep
<1> QED
  BY <1>1, <1>2

(* The inductive invariant of the ledger, its writers and purge.           *)
THEOREM LedgerInvariant == Spec => []LedgerInv
  BY Begins, Continues, PTL DEF Spec

(* memlock.rs, "No append is ever silently lost": a record whose append    *)
(* succeeded is in the ledger or in an archive, however the writers, purge *)
(* and kills of both are interleaved.                                      *)
THEOREM RecordsSurvive == Spec => []NoRecordLost
<1>1. LedgerInv => NoRecordLost
  BY DEF LedgerInv
<1> QED
  BY <1>1, LedgerInvariant, PTL

(* A memory of which a forget was appended never lives again, whatever was *)
(* read before and written after, unless a verify and a forget of it were  *)
(* under way together.                                                     *)
THEOREM ForgottenStays == Spec => []ForgetWins
<1>1. LedgerInv => ForgetWins
  BY LivingMemories DEF ForgetWins
<1> QED
  BY <1>1, LedgerInvariant, PTL
-----------------------------------------------------------------------------
(* The inbox. No line is passed over: InboxInv says of every body below an *)
(* offset that counts that the daemon was told of it -- it was handed over,*)
(* announced or passed over by an offset of a former inbox -- or that its  *)
(* line cannot be read, now or later; and of a purge that is under way     *)
(* what it may rely on.                                                    *)

Units ==
  {NL} \cup [ line : Nat \ {0}, kind : {"boundary", "candidate"},
              fact : Facts \cup {None}, pins : SUBSET Paths, ts : Nat ]

Told == handed \cup announced \cup astray

(* The line at i is glued to the one before it or after it. *)
Broken(bytes, i) ==
  \/ i > 1 /\ bytes[i - 1] # NL
  \/ i < Len(bytes) /\ bytes[i + 1] # NL

ToldBelow(bytes, offset, told) ==
  /\ offset \in 0 .. Len(bytes)
  /\ \A i \in 1 .. offset : bytes[i] # NL => bytes[i].line \in told \/ Broken(bytes, i)

InboxTypes ==
  /\ inbox \in Seq(Units) /\ writing \in Nat /\ gen \in Nat
  /\ "signals" \in DOMAIN left /\ left.signals \in Nat
  /\ state = [offset |-> state.offset, gen |-> state.gen]
  /\ state.offset \in Nat /\ state.gen \in 0 .. gen
  /\ daemon = [pc |-> daemon.pc, offset |-> daemon.offset, gen |-> daemon.gen,
               batch |-> daemon.batch]
  /\ daemon.offset \in Nat /\ daemon.gen \in 0 .. gen
  /\ cutter = [pc |-> cutter.pc, offset |-> cutter.offset, length |-> cutter.length]

(* The line that is being written is the last one, unless another follows. *)
WritingLast ==
  writing # 0 /\ inbox # << >> /\ inbox[Len(inbox)] # NL
    => inbox[Len(inbox)].line = writing

OffsetsTold ==
  /\ state.gen = gen => ToldBelow(inbox, state.offset, Told)
  /\ daemon.gen = gen => ToldBelow(inbox, daemon.offset, Told)

(* What the purge has archived, and what ended after its second look. *)
CutterInv ==
  cutter.pc \in {"recheck", "rename"} =>
    /\ cutter.offset \in DOMAIN inbox /\ inbox[cutter.offset] = NL
    /\ cutter.length \in cutter.offset .. Len(inbox)
    /\ Numbers(Below(cutter.offset)) \subseteq cut
    /\ cutter.pc = "rename" =>
         \A i \in DOMAIN inbox :
           ReadableAt(inbox, i) /\ i + 1 > cutter.length => inbox[i].line \in unheard

InboxInv ==
  /\ InboxTypes /\ WritingLast /\ OffsetsTold /\ CutterInv /\ NothingSkipped

-----------------------------------------------------------------------------
(* Bytes.                                                                  *)

(* Of bounded numbers one is the greatest.                                 *)
LEMMA GreatestOf ==
  ASSUME NEW S \in SUBSET Nat, S # {}, NEW n \in Nat, \A x \in S : x <= n
  PROVE  \E x \in S : \A y \in S : x >= y
<1> DEFINE T == {n - x : x \in S}
<1>1. T \in SUBSET Nat /\ T # {}
  <2>1. \A x \in S : x \in Nat /\ x <= n /\ n - x \in Nat
    OBVIOUS
  <2> QED
    BY <2>1
<1>2. PICK m \in T : \A y \in T : m <= y
  <2>1. PICK m \in T : \A y \in T : ~ (<<y, m>> \in OpToRel(<, Nat))
    BY <1>1, NatLessThanWellFounded, WFMin
  <2>2. \A y \in T : ~ (y < m)
    BY <1>1, <2>1 DEF OpToRel
  <2> QED
    BY <1>1, <2>2
<1>3. PICK x \in S : m = n - x
  OBVIOUS
<1>4. ASSUME NEW y \in S PROVE x >= y
  <2>1. n - y \in T /\ x \in Nat /\ y \in Nat
    OBVIOUS
  <2>2. n - x <= n - y
    BY <1>2, <1>3, <2>1
  <2> QED
    BY <2>1, <2>2
<1> QED
  BY <1>4

LEMMA LastOf ==
  ASSUME NEW S \in SUBSET Nat, S # {}, NEW n \in Nat, \A x \in S : x <= n
  PROVE  Max(S) \in S
  BY GreatestOf DEF Max

LEMMA LastNewlineIs ==
  ASSUME NEW bytes \in Seq(Units)
  PROVE  /\ LastNewline(bytes) \in 0 .. Len(bytes)
         /\ LastNewline(bytes) > 0 => bytes[LastNewline(bytes)] = NL
<1> DEFINE S == {0} \cup {i \in DOMAIN bytes : bytes[i] = NL}
<1>1. S \in SUBSET Nat /\ S # {} /\ Len(bytes) \in Nat /\ \A x \in S : x <= Len(bytes)
  OBVIOUS
<1>2. Max(S) \in S
  BY <1>1, LastOf
<1>3. LastNewline(bytes) = Max(S)
  BY DEF LastNewline
<1> HIDE DEF S
<1>4. Max(S) = 0 \/ (Max(S) \in DOMAIN bytes /\ bytes[Max(S)] = NL)
  BY <1>2 DEF S
<1> QED
  BY <1>3, <1>4

LEMMA UnitsAre ==
  /\ NL \in Units /\ NL.line = 0
  /\ \A x \in Units : x # NL => x.line \in Nat \ {0}
  BY DEF Units, NL

(* A hook appends: what was read, and what cannot be read, stays so.       *)
LEMMA Grown ==
  ASSUME NEW a \in Seq(Units), NEW x \in Seq(Units)
  PROVE  /\ a \o x \in Seq(Units) /\ Len(a \o x) = Len(a) + Len(x)
         /\ \A i \in DOMAIN a : /\ i \in DOMAIN (a \o x) /\ (a \o x)[i] = a[i]
                                /\ ReadableAt(a, i) => ReadableAt(a \o x, i)
                                /\ Broken(a, i) => Broken(a \o x, i)
         /\ \A i \in DOMAIN x : (a \o x)[Len(a) + i] = x[i]
         /\ Numbers(a) \subseteq Numbers(a \o x)
         /\ \A n \in 0 .. Len(a) : SubSeq(a \o x, 1, n) = SubSeq(a, 1, n)
<1> DEFINE b == a \o x
<1>1. b \in Seq(Units) /\ Len(b) = Len(a) + Len(x) /\ Len(x) \in Nat /\ Len(a) \in Nat
      /\ DOMAIN a = 1 .. Len(a) /\ DOMAIN b = 1 .. Len(b)
  OBVIOUS
<1>2. \A i \in DOMAIN a : i \in DOMAIN b /\ b[i] = a[i]
  OBVIOUS
<1>3. \A i \in DOMAIN x : b[Len(a) + i] = x[i]
  OBVIOUS
<1>4. \A n \in 0 .. Len(a) : SubSeq(b, 1, n) = SubSeq(a, 1, n)
  OBVIOUS
<1> HIDE DEF b
<1>5. ASSUME NEW i \in DOMAIN a
      PROVE  /\ ReadableAt(a, i) => ReadableAt(b, i)
             /\ Broken(a, i) => Broken(b, i)
  <2>1. i \in Nat /\ i > 0 /\ i <= Len(a)
    BY <1>1
  <2>2. i < Len(a) => i + 1 \in DOMAIN a
    BY <1>1, <2>1
  <2>3. i > 1 => i - 1 \in DOMAIN a
    BY <1>1, <2>1
  <2>4. i < Len(a) => i < Len(b)
    BY <1>1, <2>1
  <2> QED
    BY <1>2, <2>2, <2>3, <2>4 DEF ReadableAt, Broken
<1>6. Numbers(a) \subseteq Numbers(b)
  BY <1>2, <1>5 DEF Numbers
<1> QED
  BY <1>1, <1>2, <1>3, <1>4, <1>5, <1>6 DEF b

LEMMA ToldGrows ==
  ASSUME NEW a \in Seq(Units), NEW x \in Seq(Units), NEW T, NEW U, T \subseteq U,
         NEW offset, ToldBelow(a, offset, T)
  PROVE  ToldBelow(a \o x, offset, U)
<1>1. \A i \in 1 .. offset : i \in DOMAIN a
  BY DEF ToldBelow
<1>2. offset \in 0 .. Len(a \o x)
  BY Grown DEF ToldBelow
<1> QED
  BY <1>1, <1>2, Grown DEF ToldBelow

(* What a reader of the whole lines from an offset on is told of.          *)
LEMMA ToldOnReading ==
  ASSUME NEW a \in Seq(Units), NEW T, NEW offset, ToldBelow(a, offset, T),
         NEW nl \in Nat, nl > 0, offset + nl <= Len(a), a[offset + nl] = NL,
         NEW U, T \cup Numbers(SubSeq(a, offset + 1, offset + nl)) \subseteq U
  PROVE  ToldBelow(a, offset + nl, U)
<1> DEFINE s == SubSeq(a, offset + 1, offset + nl)
<1>1. offset \in Nat /\ Len(a) \in Nat /\ DOMAIN a = 1 .. Len(a)
  BY DEF ToldBelow
<1>2. Len(s) = nl /\ DOMAIN s = 1 .. nl /\ \A j \in 1 .. nl : s[j] = a[offset + j]
  BY <1>1
<1> HIDE DEF s
<1>3. ASSUME NEW i \in 1 .. offset + nl, a[i] # NL
      PROVE  a[i].line \in U \/ Broken(a, i)
  <2>1. CASE i <= offset
    BY <1>1, <1>3, <2>1 DEF ToldBelow
  <2>2. CASE i > offset
    <3> DEFINE j == i - offset
    <3>1. j \in 1 .. nl /\ i = offset + j /\ j < nl /\ s[j] = a[i]
      BY <1>1, <1>2, <1>3, <2>2
    <3>2. j + 1 \in 1 .. nl /\ s[j + 1] = a[i + 1] /\ i < Len(a)
      BY <1>1, <1>2, <3>1
    <3>3. j > 1 => j - 1 \in 1 .. nl /\ s[j - 1] = a[i - 1] /\ i > 1
      BY <1>1, <1>2, <3>1
    <3> HIDE DEF j
    <3>4. CASE ReadableAt(s, j)
      <4>1. s[j].line \in Numbers(s)
        BY <1>2, <3>1, <3>4 DEF Numbers
      <4> QED
        BY <3>1, <4>1 DEF s
    <3>5. CASE ~ ReadableAt(s, j)
      BY <1>2, <1>3, <3>1, <3>2, <3>3, <3>5 DEF ReadableAt, Broken
    <3> QED
      BY <3>4, <3>5
  <2> QED
    BY <1>1, <2>1, <2>2
<1> QED
  BY <1>1, <1>3 DEF ToldBelow

(* An offset of a former inbox: what it passes over is told as well.       *)
LEMMA ToldAstray ==
  ASSUME NEW a \in Seq(Units), NEW offset \in 0 .. Len(a), NEW T,
         Lines(SubSeq(a, 1, offset)) \subseteq T
  PROVE  ToldBelow(a, offset, T)
<1> DEFINE s == SubSeq(a, 1, offset)
<1>1. DOMAIN s = 1 .. offset /\ \A i \in 1 .. offset : s[i] = a[i]
  OBVIOUS
<1> HIDE DEF s
<1>2. \A i \in 1 .. offset : a[i] # NL => a[i].line \in Lines(s)
  BY <1>1 DEF Lines, Range
<1> QED
  BY <1>2 DEF ToldBelow, s

LEMMA NumbersAreLines ==
  ASSUME NEW a \in Seq(Units)
  PROVE  Numbers(a) \subseteq Lines(a)
  BY DEF Numbers, Lines, Range, ReadableAt

(* What can be read below an offset was told.                              *)
LEMMA ReadIsTold ==
  ASSUME NEW a \in Seq(Units), NEW offset, NEW T, ToldBelow(a, offset, T)
  PROVE  Numbers(SubSeq(a, 1, offset)) \subseteq T
<1> DEFINE s == SubSeq(a, 1, offset)
<1>1. /\ offset \in Nat /\ offset <= Len(a) /\ Len(a) \in Nat
      /\ Len(s) = offset /\ DOMAIN s = 1 .. offset
      /\ \A i \in 1 .. offset : s[i] = a[i]
  BY DEF ToldBelow
<1> HIDE DEF s
<1>2. ASSUME NEW i \in DOMAIN s, ReadableAt(s, i)
      PROVE  s[i].line \in T
  <2>1. /\ i \in 1 .. offset /\ s[i] = a[i] /\ s[i] # NL /\ i < offset
        /\ s[i + 1] = NL
        /\ i > 1 => s[i - 1] = NL
    BY <1>1, <1>2 DEF ReadableAt
  <2>2. /\ a[i + 1] = NL
        /\ i > 1 => a[i - 1] = NL
    <3>1. i + 1 \in 1 .. offset /\ (i > 1 => i - 1 \in 1 .. offset)
      BY <1>1, <2>1
    <3> QED
      BY <1>1, <2>1, <3>1
  <2>3. ~ Broken(a, i)
    BY <2>2 DEF Broken
  <2> QED
    BY <2>1, <2>3 DEF ToldBelow
<1> QED
  BY <1>2 DEF Numbers, s

(* A purge cuts the inbox after a newline: a line that can be read is in   *)
(* what it cut off, or in what is left, or ended after `length`.           *)
LEMMA CutInTwo ==
  ASSUME NEW a \in Seq(Units), NEW offset \in DOMAIN a, a[offset] = NL,
         NEW length \in offset .. Len(a),
         NEW i \in DOMAIN a, ReadableAt(a, i)
  PROVE  \/ a[i].line \in Numbers(SubSeq(a, 1, offset))
         \/ a[i].line \in Numbers(SubSeq(a, offset + 1, length))
         \/ i + 1 > length
<1> DEFINE s == SubSeq(a, 1, offset)
           u == SubSeq(a, offset + 1, length)
<1>1. /\ offset \in Nat /\ length \in Nat /\ Len(a) \in Nat /\ offset > 0
      /\ offset <= length /\ length <= Len(a) /\ i \in Nat /\ i > 0 /\ i <= Len(a)
  OBVIOUS
<1>2. Len(s) = offset /\ DOMAIN s = 1 .. offset /\ \A j \in 1 .. offset : s[j] = a[j]
  BY <1>1
<1>3. /\ Len(u) = length - offset /\ DOMAIN u = 1 .. (length - offset)
      /\ \A j \in 1 .. (length - offset) : u[j] = a[offset + j]
  BY <1>1
<1> HIDE DEF s, u
<1>4. a[i] # NL /\ a[i + 1] = NL /\ (i > 1 => a[i - 1] = NL)
  BY DEF ReadableAt
<1>5. CASE i <= offset
  <2>1. i < offset
    BY <1>1, <1>4, <1>5
  <2>2. i \in DOMAIN s /\ s[i] = a[i] /\ s[i + 1] = a[i + 1] /\ (i > 1 => s[i - 1] = a[i - 1])
    BY <1>1, <1>2, <2>1
  <2>3. ReadableAt(s, i)
    BY <1>2, <1>4, <2>1, <2>2 DEF ReadableAt
  <2>4. a[i].line \in Numbers(s)
    BY <2>2, <2>3 DEF Numbers
  <2> QED
    BY <2>4 DEF s
<1>6. CASE i > offset /\ i + 1 <= length
  <2> DEFINE j == i - offset
  <2>1. j \in 1 .. (length - offset) /\ offset + j = i /\ j < length - offset
    BY <1>1, <1>6
  <2>2. u[j] = a[i]
    BY <1>3, <2>1
  <2>3. j + 1 \in 1 .. (length - offset) /\ offset + (j + 1) = i + 1
    <3>1. j \in Nat /\ j + 1 <= length - offset /\ offset + (j + 1) = i + 1
      BY <1>1, <1>6
    <3> HIDE DEF j
    <3> QED
      BY <1>1, <3>1
  <2>4. u[j + 1] = a[i + 1]
    BY <1>3, <2>3
  <2>5. j > 1 => j - 1 \in 1 .. (length - offset) /\ offset + (j - 1) = i - 1 /\ i > 1
    <3>1. j \in Nat /\ j - 1 <= length - offset /\ offset + (j - 1) = i - 1 /\ j < i
      BY <1>1, <1>6
    <3> HIDE DEF j
    <3> QED
      BY <1>1, <3>1
  <2>6. j > 1 => u[j - 1] = a[i - 1] /\ i > 1
    BY <1>3, <2>5
  <2> HIDE DEF j
  <2>7. ReadableAt(u, j)
    BY <1>3, <1>4, <2>1, <2>2, <2>4, <2>6 DEF ReadableAt
  <2>8. a[i].line \in Numbers(u)
    BY <1>3, <2>1, <2>2, <2>7 DEF Numbers
  <2> QED
    BY <2>8 DEF u
<1> QED
  BY <1>1, <1>5, <1>6

LEMMA ToldMore ==
  ASSUME NEW a, NEW offset, NEW T, NEW U, T \subseteq U, ToldBelow(a, offset, T)
  PROVE  ToldBelow(a, offset, U)
  BY DEF ToldBelow

-----------------------------------------------------------------------------
(* Steps.                                                                  *)

SignalsKept == "signals" \in DOMAIN left' /\ left'.signals = left.signals

LEMMA Aside ==
  ASSUME InboxInv, UNCHANGED inboxVars, SignalsKept
  PROVE  InboxInv'
<1> USE DEF InboxInv, inboxVars
<1>1. InboxTypes'
  BY DEF InboxTypes, SignalsKept
<1>2. WritingLast'
  BY DEF WritingLast
<1>3. OffsetsTold'
  BY DEF OffsetsTold, Told
<1>4. CutterInv'
  BY DEF CutterInv, Below
<1>5. NothingSkipped'
  BY DEF NothingSkipped, Below
<1> QED
  BY <1>1, <1>2, <1>3, <1>4, <1>5

(* A hook appends x. *)
LEMMA Hooked ==
  ASSUME InboxInv, NEW x \in Seq(Units), inbox' = inbox \o x,
         UNCHANGED <<state, daemon, cutter, cut, gen, handed, announced, astray>>,
         writing' \in Nat, "signals" \in DOMAIN left', left'.signals \in Nat,
         WritingLast',
         whole' \subseteq whole \cup Numbers(inbox'), unheard \subseteq unheard',
         cutter.pc = "rename" =>
           \A i \in DOMAIN inbox' :
             ReadableAt(inbox', i) /\ ~ (i \in DOMAIN inbox /\ ReadableAt(inbox, i))
               => inbox'[i].line \in unheard'
  PROVE  InboxInv'
<1> USE DEF InboxInv
<1>1. inbox \in Seq(Units) /\ Len(inbox) \in Nat /\ Len(inbox') \in Nat
      /\ Len(inbox) <= Len(inbox')
      /\ DOMAIN inbox = 1 .. Len(inbox) /\ DOMAIN inbox' = 1 .. Len(inbox')
  BY Grown DEF InboxTypes
<1>2. InboxTypes'
  BY Grown DEF InboxTypes
<1>3. OffsetsTold'
  BY <1>1, ToldGrows DEF OffsetsTold, Told
<1>4. \A n \in 0 .. Len(inbox) : SubSeq(inbox', 1, n) = SubSeq(inbox, 1, n)
  BY <1>1, Grown
<1>5. \A i \in DOMAIN inbox : i \in DOMAIN inbox' /\ inbox'[i] = inbox[i]
  BY <1>1, Grown
<1>6. CutterInv'
  <2> SUFFICES ASSUME cutter.pc \in {"recheck", "rename"}
               PROVE  /\ cutter.offset \in DOMAIN inbox' /\ inbox'[cutter.offset] = NL
                      /\ cutter.length \in cutter.offset .. Len(inbox')
                      /\ Numbers(SubSeq(inbox', 1, cutter.offset)) \subseteq cut
                      /\ cutter.pc = "rename" =>
                           \A i \in DOMAIN inbox' :
                             ReadableAt(inbox', i) /\ i + 1 > cutter.length
                               => inbox'[i].line \in unheard'
    BY DEF CutterInv, Below
  <2>1. /\ cutter.offset \in DOMAIN inbox /\ inbox[cutter.offset] = NL
        /\ cutter.length \in cutter.offset .. Len(inbox)
        /\ Numbers(SubSeq(inbox, 1, cutter.offset)) \subseteq cut
    BY DEF CutterInv, Below
  <2>2. cutter.offset \in 0 .. Len(inbox)
    BY <1>1, <2>1
  <2>3. cutter.length \in cutter.offset .. Len(inbox')
    BY <1>1, <2>1
  <2>4. ASSUME cutter.pc = "rename", NEW i \in DOMAIN inbox', ReadableAt(inbox', i),
               i + 1 > cutter.length
        PROVE  inbox'[i].line \in unheard'
    <3>1. CASE i \in DOMAIN inbox /\ ReadableAt(inbox, i)
      BY <1>5, <2>4, <3>1 DEF CutterInv
    <3>2. CASE ~ (i \in DOMAIN inbox /\ ReadableAt(inbox, i))
      BY <2>4, <3>2
    <3> QED
      BY <3>1, <3>2
  <2> QED
    BY <1>4, <1>5, <2>1, <2>2, <2>3, <2>4
<1>7. NothingSkipped'
  <2>1. whole' \subseteq Numbers(inbox') \cup cut \cup unheard'
    BY <1>1, Grown DEF NothingSkipped
  <2>2. state.gen = gen => SubSeq(inbox', 1, state.offset) = SubSeq(inbox, 1, state.offset)
    BY <1>4 DEF OffsetsTold, ToldBelow
  <2> QED
    BY <2>1, <2>2 DEF NothingSkipped, Below
<1> QED
  BY <1>2, <1>3, <1>6, <1>7

LEMMA BodyIs ==
  ASSUME LedgerInv, InboxInv, NEW kind \in {"boundary", "candidate"},
         NEW fact \in Facts \cup {None}, NEW S \in SUBSET Paths, left.signals > 0
  PROVE  /\ Body(kind, fact, S) \in Units /\ Body(kind, fact, S) # NL
         /\ Body(kind, fact, S).line = left.signals
<1>1. left.signals \in Nat \ {0} /\ now \in Nat
  BY DEF InboxInv, InboxTypes, LedgerInv, LedgerTypes
<1>2. Body(kind, fact, S).line = left.signals
  BY DEF Body
<1>3. Body(kind, fact, S) # NL
  BY <1>1, <1>2, UnitsAre
<1> QED
  BY <1>1, <1>2, <1>3 DEF Body, Units

LEMMA HookSteps ==
  ASSUME LedgerInv, InboxInv, Hook
  PROVE  InboxInv'
<1>t. /\ inbox \in Seq(Units) /\ writing \in Nat
      /\ "signals" \in DOMAIN left /\ left.signals \in Nat
  BY DEF InboxInv, InboxTypes
<1>1. ASSUME NEW kind \in {"boundary", "candidate"}, NEW fact \in Facts \cup {None},
             NEW S \in SUBSET Paths, HookLine(kind, fact, S)
      PROVE  InboxInv'
  <2> DEFINE B == Body(kind, fact, S)
             x == <<B, NL>>
  <2>1. left.signals > 0 /\ B \in Units /\ B # NL /\ B.line = left.signals
    BY <1>1, BodyIs DEF HookLine, Kinds
  <2>2. /\ inbox' = inbox \o x /\ Ended(inbox', left.signals) /\ writing' = writing
        /\ HookUnchanged /\ UseSignal(kind)
    BY <1>1 DEF HookLine
  <2> HIDE DEF B
  <2>3. x \in Seq(Units) /\ Len(x) = 2 /\ x[1] = B /\ x[2] = NL
    BY <2>1, UnitsAre
  <2> HIDE DEF x
  <2>4. "signals" \in DOMAIN left' /\ left'.signals \in Nat
    BY <1>t, <2>1, <2>2 DEF UseSignal
  <2>5. /\ inbox' \in Seq(Units) /\ Len(inbox') = Len(inbox) + 2
        /\ \A i \in DOMAIN inbox : inbox'[i] = inbox[i]
        /\ inbox'[Len(inbox) + 1] = B /\ inbox'[Len(inbox) + 2] = NL
    <3>1. 1 \in DOMAIN x /\ 2 \in DOMAIN x
      BY <2>3
    <3>2. inbox'[Len(inbox) + 1] = x[1] /\ inbox'[Len(inbox) + 2] = x[2]
      <4>1. \A i \in DOMAIN x : (inbox \o x)[Len(inbox) + i] = x[i]
        BY <1>t, <2>3, Grown
      <4> QED
        BY <2>2, <3>1, <4>1
    <3>3. inbox' \in Seq(Units) /\ Len(inbox') = Len(inbox) + 2
      <4>1. inbox \o x \in Seq(Units) /\ Len(inbox \o x) = Len(inbox) + Len(x)
        BY <1>t, <2>3, Grown
      <4> QED
        BY <2>2, <2>3, <4>1
    <3>4. \A i \in DOMAIN inbox : (inbox \o x)[i] = inbox[i]
      BY <1>t, <2>3, Grown
    <3> QED
      BY <2>2, <2>3, <3>2, <3>3, <3>4
  <2>6. WritingLast'
    BY <2>5 DEF WritingLast
  <2>7. whole' \subseteq whole \cup Numbers(inbox') /\ unheard \subseteq unheard'
        /\ (cutter.pc = "rename" => left.signals \in unheard')
    BY <2>2 DEF Ended
  <2>8. ASSUME NEW i \in DOMAIN inbox', ReadableAt(inbox', i),
               ~ (i \in DOMAIN inbox /\ ReadableAt(inbox, i))
        PROVE  inbox'[i].line = left.signals
    <3>1. i \in Nat /\ i > 0 /\ i < Len(inbox) + 2 /\ Len(inbox) \in Nat
          /\ DOMAIN inbox = 1 .. Len(inbox)
      BY <1>t, <2>5, <2>8 DEF ReadableAt
    <3>2. CASE i = Len(inbox) + 1
      BY <2>1, <2>5, <3>2
    <3>3. CASE i = Len(inbox)
      BY <2>1, <2>5, <2>8, <3>1, <3>3 DEF ReadableAt
    <3>4. CASE i < Len(inbox)
      <4>1. i \in DOMAIN inbox /\ i + 1 \in DOMAIN inbox
            /\ (i > 1 => i - 1 \in DOMAIN inbox)
        BY <3>1, <3>4
      <4> QED
        BY <2>5, <2>8, <3>4, <4>1 DEF ReadableAt
    <3> QED
      BY <3>1, <3>2, <3>3, <3>4
  <2> QED
    BY <1>t, <2>2, <2>3, <2>4, <2>6, <2>7, <2>8, Hooked DEF HookUnchanged
<1>2. ASSUME NEW kind \in {"boundary", "candidate"}, NEW fact \in Facts \cup {None},
             NEW S \in SUBSET Paths, HookBegin(kind, fact, S)
      PROVE  InboxInv'
  <2> DEFINE B == Body(kind, fact, S)
             x == <<B>>
  <2>1. left.signals > 0 /\ B \in Units /\ B # NL /\ B.line = left.signals
    BY <1>2, BodyIs DEF HookBegin, Kinds
  <2>2. /\ inbox' = Append(inbox, B) /\ writing' = left.signals
        /\ UNCHANGED <<whole, unheard>> /\ HookUnchanged /\ UseSignal(kind)
    BY <1>2 DEF HookBegin
  <2> HIDE DEF B
  <2>3. x \in Seq(Units) /\ Len(x) = 1 /\ x[1] = B /\ inbox' = inbox \o x
    BY <1>t, <2>1, <2>2
  <2> HIDE DEF x
  <2>4. "signals" \in DOMAIN left' /\ left'.signals \in Nat
    BY <1>t, <2>1, <2>2 DEF UseSignal
  <2>5. /\ inbox' \in Seq(Units) /\ Len(inbox') = Len(inbox) + 1
        /\ \A i \in DOMAIN inbox : inbox'[i] = inbox[i]
        /\ inbox'[Len(inbox) + 1] = B
    BY <1>t, <2>2, <2>3, Grown
  <2>6. WritingLast'
    BY <2>1, <2>2, <2>5 DEF WritingLast
  <2>7. ASSUME NEW i \in DOMAIN inbox', ReadableAt(inbox', i)
        PROVE  i \in DOMAIN inbox /\ ReadableAt(inbox, i)
    <3>1. i \in Nat /\ i > 0 /\ i < Len(inbox) + 1 /\ Len(inbox) \in Nat
          /\ DOMAIN inbox = 1 .. Len(inbox)
      BY <1>t, <2>5, <2>7 DEF ReadableAt
    <3>2. i # Len(inbox)
      BY <2>1, <2>5, <2>7, <3>1 DEF ReadableAt
    <3>3. /\ i \in DOMAIN inbox /\ i + 1 \in DOMAIN inbox /\ i < Len(inbox)
          /\ i > 1 => i - 1 \in DOMAIN inbox
      BY <3>1, <3>2
    <3> QED
      BY <2>5, <2>7, <3>3 DEF ReadableAt
  <2> QED
    BY <1>t, <2>2, <2>3, <2>4, <2>6, <2>7, Hooked DEF HookUnchanged
<1>3. CASE HookEnd
  <2> DEFINE x == <<NL>>
  <2>1. /\ writing # 0 /\ inbox' = Append(inbox, NL) /\ writing' = 0
        /\ Ended(inbox', writing) /\ left' = left /\ HookUnchanged
    BY <1>3 DEF HookEnd
  <2>2. x \in Seq(Units) /\ Len(x) = 1 /\ x[1] = NL /\ inbox' = inbox \o x
    BY <1>t, <2>1, UnitsAre
  <2> HIDE DEF x
  <2>3. /\ inbox' \in Seq(Units) /\ Len(inbox') = Len(inbox) + 1
        /\ \A i \in DOMAIN inbox : inbox'[i] = inbox[i]
        /\ inbox'[Len(inbox) + 1] = NL
    BY <1>t, <2>1, <2>2, Grown
  <2>4. WritingLast'
    BY <2>1 DEF WritingLast
  <2>5. whole' \subseteq whole \cup Numbers(inbox') /\ unheard \subseteq unheard'
        /\ (cutter.pc = "rename" => writing \in unheard')
    BY <2>1 DEF Ended
  <2>6. ASSUME NEW i \in DOMAIN inbox', ReadableAt(inbox', i),
               ~ (i \in DOMAIN inbox /\ ReadableAt(inbox, i))
        PROVE  inbox'[i].line = writing
    <3>1. i \in Nat /\ i > 0 /\ i < Len(inbox) + 1 /\ Len(inbox) \in Nat
          /\ DOMAIN inbox = 1 .. Len(inbox)
      BY <1>t, <2>3, <2>6 DEF ReadableAt
    <3>2. CASE i = Len(inbox)
      <4>1. inbox # << >> /\ i \in DOMAIN inbox
        BY <3>1, <3>2
      <4>2. inbox[Len(inbox)] # NL /\ inbox'[i] = inbox[Len(inbox)]
        BY <2>3, <2>6, <3>2, <4>1 DEF ReadableAt
      <4> QED
        BY <2>1, <4>1, <4>2 DEF InboxInv, WritingLast
    <3>3. CASE i < Len(inbox)
      <4>1. i \in DOMAIN inbox /\ i + 1 \in DOMAIN inbox
            /\ (i > 1 => i - 1 \in DOMAIN inbox)
        BY <3>1, <3>3
      <4> QED
        BY <2>3, <2>6, <3>3, <4>1 DEF ReadableAt
    <3> QED
      BY <3>1, <3>2, <3>3
  <2> QED
    BY <1>t, <2>1, <2>2, <2>4, <2>5, <2>6, Hooked DEF HookUnchanged
<1>4. CASE HookDies
  <2> DEFINE x == << >>
  <2>1. /\ writing' = 0 /\ inbox' = inbox /\ left' = left
        /\ UNCHANGED <<whole, unheard>> /\ HookUnchanged
    BY <1>4 DEF HookDies
  <2>2. x \in Seq(Units) /\ inbox' = inbox \o x
    BY <1>t, <2>1
  <2> HIDE DEF x
  <2>3. WritingLast'
    BY <2>1 DEF WritingLast
  <2> QED
    BY <1>t, <2>1, <2>2, <2>3, Hooked DEF HookUnchanged
<1> QED
  BY <1>1, <1>2, <1>3, <1>4 DEF Hook

-----------------------------------------------------------------------------
(* The daemon moves an offset, and is told what the offset passes over.    *)
LEMMA Moved ==
  ASSUME InboxInv, DaemonUnchanged, SignalsKept, Told \subseteq Told',
         state' = [offset |-> state'.offset, gen |-> state'.gen],
         state'.offset \in Nat, state'.gen \in 0 .. gen,
         daemon' = [pc |-> daemon'.pc, offset |-> daemon'.offset,
                    gen |-> daemon'.gen, batch |-> daemon'.batch],
         daemon'.offset \in Nat, daemon'.gen \in 0 .. gen,
         \/ state' = state
         \/ state'.gen = gen => ToldBelow(inbox, state'.offset, Told'),
         daemon'.gen = gen => ToldBelow(inbox, daemon'.offset, Told')
  PROVE  InboxInv'
<1> USE DEF InboxInv, DaemonUnchanged
<1>1. InboxTypes'
  BY DEF InboxTypes, SignalsKept
<1>2. WritingLast'
  BY DEF WritingLast
<1>3. state'.gen = gen => ToldBelow(inbox, state'.offset, Told')
  BY ToldMore DEF OffsetsTold
<1>4. OffsetsTold'
  BY <1>3 DEF OffsetsTold
<1>5. CutterInv'
  BY DEF CutterInv, Below
<1>6. NothingSkipped'
  <2>1. whole' \subseteq Numbers(inbox') \cup cut' \cup unheard'
    BY DEF NothingSkipped
  <2>2. cut' \subseteq Told'
    BY DEF NothingSkipped, Told
  <2>3. state'.gen = gen => Numbers(SubSeq(inbox, 1, state'.offset)) \subseteq Told'
    BY <1>3, ReadIsTold DEF InboxTypes
  <2> QED
    BY <2>1, <2>2, <2>3 DEF NothingSkipped, Below, Told
<1> QED
  BY <1>1, <1>2, <1>3, <1>4, <1>5, <1>6

LEMMA Inboxes ==
  ASSUME InboxInv
  PROVE  /\ inbox \in Seq(Units) /\ Len(inbox) \in Nat /\ gen \in Nat /\ gen \in 0 .. gen
         /\ SubSeq(inbox, 1, Len(inbox)) = inbox
         /\ state = [offset |-> state.offset, gen |-> state.gen]
         /\ state.offset \in Nat /\ state.gen \in 0 .. gen
         /\ daemon = [pc |-> daemon.pc, offset |-> daemon.offset, gen |-> daemon.gen,
                      batch |-> daemon.batch]
         /\ daemon.offset \in Nat /\ daemon.gen \in 0 .. gen
<1>1. inbox \in Seq(Units)
  BY DEF InboxInv, InboxTypes
<1>2. SubSeq(inbox, 1, Len(inbox)) = inbox /\ Len(inbox) \in Nat
  BY <1>1
<1> QED
  BY <1>1, <1>2 DEF InboxInv, InboxTypes

(* The daemon starts, comes to rest or goes. *)
LEMMA Idle ==
  ASSUME InboxInv, DaemonUnchanged, SignalsKept,
         UNCHANGED <<handed, announced, astray>>,
         state' \in {state, [offset |-> daemon.offset, gen |-> daemon.gen]},
         \/ daemon'.offset = 0 /\ daemon'.gen = 0
         \/ daemon'.offset = daemon.offset /\ daemon'.gen = daemon.gen,
         daemon' = [pc |-> daemon'.pc, offset |-> daemon'.offset,
                    gen |-> daemon'.gen, batch |-> daemon'.batch]
  PROVE  InboxInv'
<1>1. Told' = Told
  BY DEF Told
<1>2. ToldBelow(inbox, 0, Told)
  BY Inboxes DEF ToldBelow
<1>3. /\ daemon.gen = gen => ToldBelow(inbox, daemon.offset, Told)
      /\ state.gen = gen => ToldBelow(inbox, state.offset, Told)
  BY DEF InboxInv, OffsetsTold
<1>4. daemon'.offset \in Nat /\ daemon'.gen \in 0 .. gen
  BY Inboxes
<1>5. daemon'.gen = gen => ToldBelow(inbox, daemon'.offset, Told')
  BY <1>1, <1>2, <1>3
<1>6. CASE state' = state
  BY <1>1, <1>4, <1>5, <1>6, Inboxes, Moved
<1>7. CASE state' = [offset |-> daemon.offset, gen |-> daemon.gen]
  <2>1. state'.offset = daemon.offset /\ state'.gen = daemon.gen
        /\ state' = [offset |-> state'.offset, gen |-> state'.gen]
    BY <1>7
  <2> QED
    BY <1>1, <1>3, <1>4, <1>5, <2>1, Inboxes, Moved
<1> QED
  BY <1>6, <1>7

(* A poll or the gap scan reads from an offset on. *)
LEMMA TakeTold ==
  ASSUME InboxInv, NEW pc, NEW offset \in Nat, NEW of \in Nat,
         of = gen => ToldBelow(inbox, offset, Told), offset <= Len(inbox),
         NEW nl \in Nat, nl = LastNewline(From(offset)), nl > 0,
         Take(pc, offset, of, nl), UNCHANGED gen
  PROVE  Told \subseteq Told' /\ ToldBelow(inbox, offset + nl, Told')
<1> DEFINE bytes == SubSeq(inbox, offset + 1, Len(inbox))
           read == SubSeq(inbox, offset + 1, offset + nl)
<1>1. /\ bytes \in Seq(Units) /\ Len(bytes) = Len(inbox) - offset
      /\ \A i \in 1 .. (Len(inbox) - offset) : bytes[i] = inbox[offset + i]
  <2>1. inbox \in Seq(Units) /\ Len(inbox) \in Nat /\ offset + 1 \in Nat
        /\ offset <= Len(inbox)
    BY Inboxes
  <2>2. bytes \in Seq(Units)
    BY <2>1
  <2>3. Len(bytes) = Len(inbox) - offset
    BY <2>1
  <2>4. \A i \in 1 .. (Len(inbox) - offset) : bytes[i] = inbox[offset + i]
    BY <2>1
  <2> QED
    BY <2>2, <2>3, <2>4
<1>2. nl <= Len(bytes) /\ bytes[nl] = NL /\ nl \in 1 .. (Len(inbox) - offset)
  <2>1. nl = LastNewline(bytes)
    BY DEF From
  <2>2. nl \in 0 .. Len(bytes) /\ bytes[nl] = NL
    BY <1>1, <2>1, LastNewlineIs
  <2> QED
    BY <1>1, <2>2, Inboxes
<1> HIDE DEF bytes
<1>3. offset + nl <= Len(inbox) /\ inbox[offset + nl] = NL
  BY <1>1, <1>2, Inboxes
<1> HIDE DEF read
<1>4. /\ handed' = handed \cup Numbers(read) /\ announced' = announced
      /\ astray' = astray \cup Stray(offset, of)
  BY DEF Take, read
<1>5. Told \subseteq Told' /\ Numbers(read) \subseteq Told'
  BY <1>4 DEF Told
<1>6. ToldBelow(inbox, offset, Told')
  <2>1. CASE of = gen
    BY <1>5, <2>1, ToldMore
  <2>2. CASE of # gen
    <3>1. Lines(SubSeq(inbox, 1, offset)) \subseteq Told'
      BY <1>4, <2>2 DEF Told, Stray, Below
    <3> QED
      BY <3>1, Inboxes, ToldAstray
  <2> QED
    BY <2>1, <2>2
<1> QED
  BY <1>3, <1>5, <1>6, Inboxes, ToldOnReading DEF read

LEMMA Resynced ==
  ASSUME InboxInv, Resync, DaemonUnchanged, SignalsKept
  PROVE  InboxInv'
<1>1. /\ state' = [offset |-> Len(inbox), gen |-> gen]
      /\ daemon' = [pc |-> "up", offset |-> Len(inbox), gen |-> gen, batch |-> << >>]
      /\ announced' = announced \cup (Lines(inbox) \ handed)
      /\ UNCHANGED <<handed, astray>>
  BY DEF Resync
<1>2. Told \subseteq Told' /\ Lines(inbox) \subseteq Told'
  BY <1>1 DEF Told
<1>3. ToldBelow(inbox, Len(inbox), Told')
  <2>1. Lines(SubSeq(inbox, 1, Len(inbox))) \subseteq Told'
    BY <1>2, Inboxes
  <2>2. Len(inbox) \in 0 .. Len(inbox)
    BY Inboxes
  <2> QED
    BY <2>1, <2>2, Inboxes, ToldAstray
<1> QED
  BY <1>1, <1>2, <1>3, Inboxes, Moved

LEMMA DaemonSteps ==
  ASSUME LedgerInv, InboxInv,
         Boot \/ GapScan \/ ReplayDone \/ Poll \/ IngestLine \/ PassLine \/ Stop \/ Crash
  PROVE  InboxInv'
<1>l. "asserts" \in DOMAIN left /\ "signals" \in DOMAIN left
  BY DEF LedgerInv, LedgerTypes, InboxInv, InboxTypes
<1>1. CASE Boot
  <2>1. daemon' = [pc |-> "scan", offset |-> 0, gen |-> 0, batch |-> << >>]
    BY <1>1 DEF Boot, DaemonDown
  <2>2. /\ DaemonUnchanged /\ left' = left /\ state' = state
        /\ UNCHANGED <<handed, announced, astray>>
    BY <1>1 DEF Boot
  <2> QED
    BY <1>l, <2>1, <2>2, Idle DEF SignalsKept
<1>2. CASE ReplayDone
  <2>1. daemon' = [pc |-> "up", offset |-> daemon.offset, gen |-> daemon.gen,
                   batch |-> daemon.batch]
    BY <1>2, Inboxes DEF ReplayDone
  <2> QED
    BY <1>2, <1>l, <2>1, Idle DEF ReplayDone, SignalsKept
<1>3. CASE IngestLine \/ PassLine
  <2>1. daemon' = [pc |-> daemon.pc, offset |-> daemon.offset, gen |-> daemon.gen,
                   batch |-> Tail(daemon.batch)]
    BY <1>3, Inboxes DEF IngestLine, PassLine, NextLine
  <2>2. SignalsKept
    BY <1>3, <1>l DEF IngestLine, PassLine, Ingest, Use, SignalsKept
  <2> QED
    BY <1>3, <2>1, <2>2, Idle DEF IngestLine, PassLine
<1>4. CASE Stop \/ Crash
  <2>1. daemon' = [pc |-> "down", offset |-> 0, gen |-> 0, batch |-> << >>]
    BY <1>4 DEF Stop, Crash, DaemonDown
  <2>2. SignalsKept
    BY <1>4, <1>l DEF Stop, Crash, Use, SignalsKept
  <2> QED
    BY <1>4, <2>1, <2>2, Idle DEF Stop, Crash
<1>5. CASE GapScan
  <2> DEFINE nl == LastNewline(From(state.offset))
  <2>1. DaemonUnchanged /\ SignalsKept /\ UNCHANGED gen
    BY <1>5, <1>l DEF GapScan, SignalsKept, DaemonUnchanged
  <2>2. CASE Len(inbox) < state.offset
    <3>1. ~ (Len(inbox) >= state.offset)
      BY <2>2, Inboxes
    <3>2. Resync
      BY <1>5, <2>2, <3>1 DEF GapScan
    <3> QED
      BY <2>1, <3>2, Resynced
  <2>3. CASE Len(inbox) >= state.offset /\ nl = 0
    <3>1. /\ daemon' = [pc |-> "up", offset |-> state.offset, gen |-> gen, batch |-> << >>]
          /\ astray' = astray \cup Stray(state.offset, state.gen)
          /\ UNCHANGED <<state, handed, announced>>
      BY <1>5, <2>3, Inboxes DEF GapScan
    <3>2. Told \subseteq Told'
      BY <3>1 DEF Told
    <3>3. ToldBelow(inbox, state.offset, Told')
      <4>1. CASE state.gen = gen
        BY <3>2, <4>1, ToldMore DEF InboxInv, OffsetsTold
      <4>2. CASE state.gen # gen
        <5>1. Lines(SubSeq(inbox, 1, state.offset)) \subseteq Told'
          BY <3>1, <4>2 DEF Told, Stray, Below
        <5>2. state.offset \in 0 .. Len(inbox)
          BY <2>3, Inboxes
        <5> QED
          BY <5>1, <5>2, Inboxes, ToldAstray
      <4> QED
        BY <4>1, <4>2
    <3> QED
      BY <2>1, <3>1, <3>2, <3>3, Inboxes, Moved
  <2>4. CASE Len(inbox) >= state.offset /\ nl # 0
    <3>1. Take("replay", state.offset, state.gen, nl) /\ UNCHANGED state
      BY <1>5, <2>4, Inboxes DEF GapScan
    <3>2. nl \in Nat /\ nl > 0
      <4>1. From(state.offset) \in Seq(Units)
        BY Inboxes DEF From
      <4>2. Len(From(state.offset)) \in Nat
        BY <4>1
      <4> QED
        BY <2>4, <4>1, <4>2, LastNewlineIs
    <3> HIDE DEF nl
    <3>3. Told \subseteq Told' /\ ToldBelow(inbox, state.offset + nl, Told')
      BY <2>1, <2>4, <3>1, <3>2, Inboxes, TakeTold DEF nl, InboxInv, OffsetsTold
    <3>4. /\ daemon' = [pc |-> "replay", offset |-> state.offset + nl, gen |-> gen,
                        batch |-> daemon'.batch]
          /\ state.offset + nl \in Nat
      BY <3>1, <3>2, Inboxes DEF Take
    <3> QED
      BY <2>1, <3>1, <3>3, <3>4, Inboxes, Moved
  <2> QED
    BY <2>2, <2>3, <2>4, Inboxes
<1>6. CASE Poll
  <2> DEFINE nl == LastNewline(From(daemon.offset))
  <2>1. DaemonUnchanged /\ SignalsKept /\ UNCHANGED gen
    BY <1>6, <1>l DEF Poll, SignalsKept, DaemonUnchanged
  <2>2. CASE Resync
    BY <2>1, <2>2, Resynced
  <2>3. CASE ~ Resync
    <3>1. /\ Len(inbox) > daemon.offset /\ nl > 0
          /\ Take("up", daemon.offset, daemon.gen, nl)
          /\ state' = [offset |-> daemon.offset + nl, gen |-> gen]
      BY <1>6, <2>3 DEF Poll
    <3>2. nl \in Nat /\ nl > 0
      <4>1. From(daemon.offset) \in Seq(Units)
        BY Inboxes DEF From
      <4>2. Len(From(daemon.offset)) \in Nat
        BY <4>1
      <4> QED
        BY <3>1, <4>1, <4>2, LastNewlineIs
    <3> HIDE DEF nl
    <3>3. Told \subseteq Told' /\ ToldBelow(inbox, daemon.offset + nl, Told')
      <4>1. /\ daemon.gen = gen => ToldBelow(inbox, daemon.offset, Told)
            /\ daemon.offset <= Len(inbox) /\ daemon.offset \in Nat /\ daemon.gen \in Nat
        BY <3>1, Inboxes DEF InboxInv, OffsetsTold
      <4> QED
        BY <2>1, <3>1, <3>2, <4>1, TakeTold DEF nl
    <3>4. /\ daemon' = [pc |-> "up", offset |-> daemon.offset + nl, gen |-> gen,
                        batch |-> daemon'.batch]
          /\ daemon.offset + nl \in Nat
      BY <3>1, <3>2, Inboxes DEF Take
    <3> QED
      BY <2>1, <3>1, <3>3, <3>4, Inboxes, Moved
  <2> QED
    BY <2>2, <2>3
<1> QED
  BY <1>1, <1>2, <1>3, <1>4, <1>5, <1>6

-----------------------------------------------------------------------------
LEMMA UsesAnother ==
  ASSUME InboxInv, NEW what, what # "signals", Use(what)
  PROVE  SignalsKept
  BY DEF InboxInv, InboxTypes, Use, SignalsKept

LEMMA CutterSteps ==
  ASSUME InboxInv,
         CutArchive \/ CutRecheck \/ CutRename \/ CutRebase \/ KillCutter
  PROVE  InboxInv'
<1>t. /\ inbox \in Seq(Units) /\ Len(inbox) \in Nat /\ DOMAIN inbox = 1 .. Len(inbox)
      /\ gen \in Nat /\ "signals" \in DOMAIN left /\ left.signals \in Nat
  BY Inboxes DEF InboxInv, InboxTypes
<1>s. /\ state.gen = gen => ToldBelow(inbox, state.offset, Told)
      /\ daemon.gen = gen => ToldBelow(inbox, daemon.offset, Told)
      /\ whole \subseteq Numbers(inbox) \cup cut \cup unheard /\ cut \subseteq Told
      /\ state.gen = gen => Numbers(SubSeq(inbox, 1, state.offset)) \subseteq Told
  BY DEF InboxInv, OffsetsTold, NothingSkipped, Below, Told
<1>1. CASE CutArchive
  <2>1. /\ state.offset \in DOMAIN inbox /\ inbox[state.offset] = NL
        /\ cut' = cut \cup Numbers(SubSeq(inbox, 1, state.offset))
        /\ astray' = astray \cup Stray(state.offset, state.gen)
        /\ cutter' = [pc |-> "recheck", offset |-> state.offset, length |-> Len(inbox)]
        /\ UNCHANGED <<inbox, writing, state, gen, daemon, handed, announced, whole, unheard>>
    BY <1>1 DEF CutArchive, CutUnchanged, Below
  <2>2. SignalsKept
    BY <1>1, UsesAnother DEF CutArchive
  <2>3. Told \subseteq Told'
    BY <2>1 DEF Told
  <2>4. InboxTypes'
    BY <1>t, <2>1, <2>2 DEF InboxInv, InboxTypes, SignalsKept
  <2>5. WritingLast'
    BY <2>1 DEF InboxInv, WritingLast
  <2>6. OffsetsTold'
    BY <1>s, <2>1, <2>3, ToldMore DEF OffsetsTold
  <2>7. CutterInv'
    BY <1>t, <2>1 DEF CutterInv, Below
  <2>8. Numbers(SubSeq(inbox, 1, state.offset)) \subseteq Told'
    <3>1. CASE state.gen = gen
      BY <1>s, <2>3, <3>1
    <3>2. CASE state.gen # gen
      <4>1. SubSeq(inbox, 1, state.offset) \in Seq(Units)
        BY <1>t, <2>1
      <4>2. Lines(SubSeq(inbox, 1, state.offset)) \subseteq Told'
        BY <2>1, <3>2 DEF Told, Stray, Below
      <4> QED
        BY <4>1, <4>2, NumbersAreLines
    <3> QED
      BY <3>1, <3>2
  <2>9. NothingSkipped'
    <3>1. whole' \subseteq Numbers(inbox') \cup cut' \cup unheard'
      BY <1>s, <2>1
    <3>2. cut' \subseteq Told'
      BY <1>s, <2>1, <2>3, <2>8
    <3> QED
      BY <2>1, <2>8, <3>1, <3>2 DEF NothingSkipped, Below, Told
  <2> QED
    BY <2>4, <2>5, <2>6, <2>7, <2>9 DEF InboxInv
<1>2. CASE CutRecheck
  <2>1. /\ UNCHANGED <<inbox, writing, state, gen, astray, left, daemon, handed, announced,
                       whole, unheard>>
        /\ cutter.pc = "recheck"
    BY <1>2 DEF CutRecheck, CutUnchanged
  <2>2. /\ cutter = [pc |-> cutter.pc, offset |-> cutter.offset, length |-> cutter.length]
        /\ InboxTypes /\ WritingLast /\ OffsetsTold /\ CutterInv
    BY DEF InboxInv, InboxTypes
  <2>3. WritingLast' /\ OffsetsTold'
    BY <2>1, <2>2 DEF WritingLast, OffsetsTold, Told
  <2>4. CASE Len(inbox) # cutter.length
    <3>1. cutter' = CutterRest /\ cut' = cut \ Numbers(inbox)
      BY <1>2, <2>4 DEF CutRecheck
    <3>2. InboxTypes' /\ CutterInv'
      BY <2>1, <2>2, <3>1 DEF InboxTypes, CutterInv, CutterRest
    <3>3. NothingSkipped'
      BY <2>1, <3>1 DEF NothingSkipped, Below, InboxInv
    <3> QED
      BY <2>3, <3>2, <3>3 DEF InboxInv
  <2>5. CASE Len(inbox) = cutter.length
    <3>1. /\ cut' = cut
          /\ cutter' = [pc |-> "rename", offset |-> cutter.offset, length |-> cutter.length]
      BY <1>2, <2>2, <2>5 DEF CutRecheck
    <3>2. InboxTypes'
      BY <2>1, <2>2, <3>1 DEF InboxTypes
    <3>3. \A i \in DOMAIN inbox : ~ (ReadableAt(inbox, i) /\ i + 1 > cutter.length)
      BY <1>t, <2>5 DEF ReadableAt
    <3>4. CutterInv'
      BY <2>1, <2>2, <3>1, <3>3 DEF CutterInv, Below
    <3>5. NothingSkipped'
      BY <2>1, <3>1 DEF NothingSkipped, Below, InboxInv
    <3> QED
      BY <2>3, <3>2, <3>4, <3>5 DEF InboxInv
  <2> QED
    BY <2>4, <2>5
<1>3. CASE CutRename
  <2> DEFINE left_ == SubSeq(inbox, cutter.offset + 1, cutter.length)
  <2>1. /\ cutter.pc = "rename" /\ inbox' = left_ /\ writing' = 0 /\ gen' = gen + 1
        /\ cutter' = [cutter EXCEPT !.pc = "rebase"]
        /\ UNCHANGED <<state, cut, astray, left, daemon, handed, announced, whole, unheard>>
    BY <1>3 DEF CutRename, CutUnchanged
  <2>2. /\ cutter.offset \in DOMAIN inbox /\ inbox[cutter.offset] = NL
        /\ cutter.length \in cutter.offset .. Len(inbox)
        /\ Numbers(SubSeq(inbox, 1, cutter.offset)) \subseteq cut
        /\ \A i \in DOMAIN inbox :
             ReadableAt(inbox, i) /\ i + 1 > cutter.length => inbox[i].line \in unheard
    BY <2>1 DEF InboxInv, CutterInv, Below
  <2>3. left_ \in Seq(Units)
    BY <1>t, <2>2
  <2> HIDE DEF left_
  <2>4. InboxTypes'
    <3>1. state.gen \in 0 .. gen' /\ daemon.gen \in 0 .. gen' /\ gen' \in Nat
      BY <1>t, <2>1, Inboxes
    <3>2. cutter' = [pc |-> cutter'.pc, offset |-> cutter'.offset, length |-> cutter'.length]
      BY <2>1 DEF InboxInv, InboxTypes
    <3> QED
      BY <1>t, <2>1, <2>3, <3>1, <3>2, Inboxes DEF InboxTypes
  <2>5. WritingLast'
    BY <2>1 DEF WritingLast
  <2>6. state'.gen # gen' /\ daemon'.gen # gen'
    BY <1>t, <2>1, Inboxes
  <2>7. OffsetsTold'
    BY <2>6 DEF OffsetsTold
  <2>8. cutter'.pc = "rebase"
    BY <2>1 DEF InboxInv, InboxTypes
  <2>9. CutterInv'
    BY <2>8 DEF CutterInv
  <2>10. Numbers(inbox) \subseteq cut \cup Numbers(left_) \cup unheard
    <3>1. ASSUME NEW i \in DOMAIN inbox, ReadableAt(inbox, i)
          PROVE  inbox[i].line \in cut \cup Numbers(left_) \cup unheard
      BY <1>t, <2>2, <3>1, CutInTwo DEF left_
    <3> QED
      BY <3>1 DEF Numbers
  <2>11. NothingSkipped'
    BY <1>s, <2>1, <2>6, <2>10 DEF NothingSkipped, Told
  <2> QED
    BY <2>4, <2>5, <2>7, <2>9, <2>11 DEF InboxInv
<1>4. CASE CutRebase
  <2>1. /\ state' = [offset |-> 0, gen |-> gen] /\ cutter' = CutterRest
        /\ UNCHANGED <<inbox, writing, gen, cut, astray, left, daemon, handed, announced,
                       whole, unheard>>
    BY <1>4 DEF CutRebase, CutUnchanged
  <2>2. InboxTypes'
    BY <1>t, <2>1, Inboxes DEF InboxInv, InboxTypes, CutterRest
  <2>3. WritingLast' /\ CutterInv'
    BY <2>1 DEF InboxInv, WritingLast, CutterInv, CutterRest
  <2>4. ToldBelow(inbox, 0, Told)
    BY <1>t DEF ToldBelow
  <2>5. OffsetsTold'
    BY <1>s, <2>1, <2>4 DEF OffsetsTold, Told
  <2>6. Numbers(SubSeq(inbox, 1, 0)) \subseteq Told
    BY <1>t, <2>4, ReadIsTold
  <2>7. NothingSkipped'
    BY <1>s, <2>1, <2>6 DEF NothingSkipped, Below, Told
  <2> QED
    BY <2>2, <2>3, <2>5, <2>7 DEF InboxInv
<1>5. CASE KillCutter
  <2>1. /\ cutter' = CutterRest
        /\ UNCHANGED <<inbox, writing, state, gen, cut, astray, daemon, handed, announced,
                       whole, unheard>>
    BY <1>5 DEF KillCutter, CutUnchanged
  <2>2. SignalsKept
    BY <1>5, UsesAnother DEF KillCutter
  <2>3. InboxTypes'
    BY <2>1, <2>2 DEF InboxInv, InboxTypes, CutterRest, SignalsKept
  <2>4. WritingLast' /\ CutterInv'
    BY <2>1 DEF InboxInv, WritingLast, CutterInv, CutterRest
  <2>5. OffsetsTold'
    BY <1>s, <2>1 DEF OffsetsTold, Told
  <2>6. NothingSkipped'
    BY <2>1 DEF NothingSkipped, Below, InboxInv
  <2> QED
    BY <2>3, <2>4, <2>5, <2>6 DEF InboxInv
<1> QED
  BY <1>1, <1>2, <1>3, <1>4, <1>5

(* What the ledger and its readers do uses no signal.                      *)
LEMMA ElsewhereSteps ==
  ASSUME InboxInv, LedgerNext \/ PurgeDecide \/ RecallNext
  PROVE  SignalsKept
<1>l. UNCHANGED left => SignalsKept
  BY DEF InboxInv, InboxTypes, SignalsKept
<1>1. ASSUME NEW p, NEW fact, NEW S, Remember(p, fact, S)
      PROVE  SignalsKept
  BY <1>1, UsesAnother DEF Remember
<1>2. ASSUME NEW p, NEW m, NEW old, NEW new,
             Verify(p, m) \/ Forget(p, m) \/ VerifyReplacing(p, m, old, new)
      PROVE  SignalsKept
  BY <1>2, UsesAnother DEF Verify, Forget, VerifyReplacing
<1>3. ASSUME NEW p, KillWriter(p) \/ AppendLocked(p)
      PROVE  SignalsKept
  BY <1>3, <1>l, UsesAnother DEF KillWriter, AppendLocked
<1>4. CASE PurgeDecide \/ PurgeArchive \/ PurgeRewrite \/ KillPurge
  BY <1>4, <1>l, UsesAnother DEF PurgeDecide, PurgeArchive, PurgeRewrite, KillPurge
<1>5. ASSUME NEW q, NEW c, Edit(q, c)
      PROVE  SignalsKept
  BY <1>5, UsesAnother DEF Edit
<1>6. CASE Tick
  BY <1>6, UsesAnother DEF Tick
<1>7. ASSUME LedgerNext
      PROVE  SignalsKept
  BY <1>1, <1>2, <1>3, <1>4, <1>5, <1>6, <1>7 DEF LedgerNext
<1>8. ASSUME NEW k, Recall(k) \/ Inject(k)
      PROVE  SignalsKept
  BY <1>8, UsesAnother DEF Recall, Inject, Load
<1>9. CASE Step \/ Answer \/ RecallEnd \/ Late \/ GiveUp \/ Receive
  BY <1>9, <1>l DEF Step, Answer, RecallEnd, Late, GiveUp, Receive, Return
<1>10. ASSUME NEW q, Recorded(q)
       PROVE  SignalsKept
  BY <1>10, UsesAnother DEF Recorded
<1>11. ASSUME RecallNext
       PROVE  SignalsKept
  BY <1>8, <1>9, <1>10, <1>11 DEF RecallNext
<1> QED
  BY <1>4, <1>7, <1>11

LEMMA InboxBegins == Init => InboxInv
<1> SUFFICES ASSUME Init PROVE InboxInv
  OBVIOUS
<1>1. "signals" \in DOMAIN left /\ left.signals \in Nat
  BY InboxAssumption DEF Init, LedgerInit
<1>2. /\ inbox = << >> /\ writing = 0 /\ state = [offset |-> 0, gen |-> 0]
      /\ daemon = [pc |-> "down", offset |-> 0, gen |-> 0, batch |-> << >>]
      /\ cutter = CutterRest /\ cut = {} /\ gen = 0
      /\ handed = {} /\ announced = {} /\ astray = {} /\ whole = {} /\ unheard = {}
  BY DEF Init, DaemonDown
<1>3. inbox \in Seq(Units) /\ Len(inbox) = 0
  BY <1>2
<1>4. InboxTypes
  BY <1>1, <1>2, <1>3 DEF InboxTypes, CutterRest
<1>5. WritingLast /\ CutterInv
  BY <1>2 DEF WritingLast, CutterInv, CutterRest
<1>6. ToldBelow(inbox, 0, Told)
  BY <1>3 DEF ToldBelow
<1>7. OffsetsTold
  BY <1>2, <1>6 DEF OffsetsTold
<1>8. Numbers(SubSeq(inbox, 1, 0)) \subseteq Told
  BY <1>3, <1>6, ReadIsTold
<1>9. NothingSkipped
  BY <1>2, <1>8 DEF NothingSkipped, Below, Told
<1> QED
  BY <1>4, <1>5, <1>7, <1>9 DEF InboxInv

LEMMA InboxContinues == LedgerInv /\ InboxInv /\ [Next]_vars => InboxInv'
<1> SUFFICES ASSUME LedgerInv, InboxInv, [Next]_vars PROVE InboxInv'
  OBVIOUS
<1>1. CASE (LedgerNext \/ PurgeDecide \/ RecallNext) /\ UNCHANGED inboxVars
  BY <1>1, ElsewhereSteps, Aside
<1>2. CASE Hook
  BY <1>2, HookSteps
<1>3. CASE InboxNext
  BY <1>2, <1>3, DaemonSteps, CutterSteps DEF InboxNext
<1>4. CASE UNCHANGED vars
  <2>1. UNCHANGED inboxVars /\ SignalsKept
    BY <1>4 DEF vars, InboxInv, InboxTypes, SignalsKept
  <2> QED
    BY <2>1, Aside
<1> QED
  BY <1>1, <1>3, <1>4 DEF Next

(* The inbox loses no line and passes over none in silence, while hooks    *)
(* append, a purge cuts it, the daemon restarts and each of them is killed *)
(* (SignalTailer, replay_pending_candidates, purge_signals_consumed).      *)
THEOREM LinesHeard == Spec => []NothingSkipped
<1>1. Init => LedgerInv /\ InboxInv
  BY Begins, InboxBegins
<1>2. (LedgerInv /\ InboxInv) /\ [Next]_vars => (LedgerInv /\ InboxInv)'
  BY Continues, InboxContinues
<1>3. LedgerInv /\ InboxInv => NothingSkipped
  BY DEF InboxInv
<1> QED
  BY <1>1, <1>2, <1>3, PTL DEF Spec
-----------------------------------------------------------------------------
(* Candidates. An unverified memory of a candidate that lives has one      *)
(* record: Alone. What the daemon is about to assert is not among them,    *)
(* for ingest_candidate has looked, and nobody else asserts such a memory. *)

Alone(a) ==
  /\ a \in mem.records /\ a.op = "assert" /\ a.id \in minted \ Verified
  /\ \A s \in mem.records : s.id = a.id => s = a

SameClaim(r, s) == r.fact = s.fact /\ DOMAIN r.pins = DOMAIN s.pins

(* An id is asserted once, and whoever retracts it has read the assertion. *)
AssertedBefore ==
  \A a \in mem.records : a.op = "assert" =>
    /\ \A r \in mem.records : r.id = a.id /\ r.op = "retract" => a.ts <= r.ts
    /\ \A r \in mem.records : r.id = a.id /\ r.op = "assert" => r = a
    /\ \A p \in Writers : Intends(p, "retract", a.id) => a.ts <= proc[p].since

(* The ids of candidates are the daemon's. *)
Mints ==
  /\ \A i \in minted : i \in Nat /\ i > left.asserts
  /\ \A p \in Commands : Intends(p, "assert", proc[p].record.id) =>
       proc[p].record.id \notin minted
  /\ proc[Daemon] # Resting => proc[Daemon].record.op = "assert"

Unlike ==
  /\ \A a, b \in mem.records : Alone(a) /\ Alone(b) /\ SameClaim(a, b) => a = b
  /\ proc[Daemon] # Resting =>
       \A a \in mem.records : Alone(a) => ~ SameClaim(a, proc[Daemon].record)

OnceInv == mem.records \subseteq acked /\ AssertedBefore /\ Mints /\ Unlike

-----------------------------------------------------------------------------
(* The fold of a chain that nobody verified.                               *)

(* One record, alone in its chain, is what the memory says.                *)
LEMMA AloneLives ==
  ASSUME LedgerInv, NEW a, Alone(a)
  PROVE  /\ Effective(mem.records, a.id) \in Living
         /\ Effective(mem.records, a.id).says = [fact |-> a.fact, pins |-> a.pins]
<1>1. Chain(mem.records, a.id) = {a}
  BY DEF Alone, Chain
<1>2. ~ Earlier(a, a)
  BY EarlierIsAnOrder DEF LedgerInv, LedgerTypes, Alone
<1>3. Latest({a}) = a
  BY <1>2 DEF Latest
<1>4. Says({a}) = {a}
  BY DEF Says, Alone
<1>5. /\ ~ Effective(mem.records, a.id).retracted
      /\ Effective(mem.records, a.id).says = [fact |-> a.fact, pins |-> a.pins]
  BY <1>1, <1>3, <1>4 DEF Effective, Alone
<1>6. Effective(mem.records, a.id) \in LoadEffective
  BY DEF LoadEffective, Ids, Alone
<1> QED
  BY <1>5, <1>6 DEF Living

(* A memory that lives and was never verified has one record.              *)
LEMMA LivesAlone ==
  ASSUME LedgerInv, OnceInv, NEW m \in Living, m.id \in minted \ Verified
  PROVE  \E a \in mem.records :
           Alone(a) /\ m = Effective(mem.records, a.id)
<1>1. PICK r \in mem.records : m = Effective(mem.records, r.id) /\ ~ m.retracted
  BY DEF Living, LoadEffective, Ids
<1> DEFINE i == r.id
           C == {s \in mem.records : s.id = i}
<1>2. m.id = i
  BY <1>1 DEF Effective
<1>3. \A s \in C : IsRecord(s) /\ s.op \in {"assert", "retract"}
  <2>1. ASSUME NEW s \in C PROVE s.op # "reverify"
    BY <1>2 DEF Verified, OnceInv
  <2> QED
    BY <2>1 DEF LedgerInv, LedgerTypes, IsRecord, Ops
<1>4. ASSUME NEW s \in C, s.op = "retract" PROVE FALSE
  <2> DEFINE T == {x.ts : x \in {y \in C : y.op = "retract"}}
  <2>1. T \in SUBSET Nat /\ T # {} /\ now \in Nat /\ \A x \in T : x <= now
    BY <1>3, <1>4 DEF LedgerInv, LedgerTypes, IsRecord
  <2>2. PICK t \in T : \A y \in T : t >= y
    BY <2>1, GreatestOf
  <2>3. PICK x \in C : x.op = "retract" /\ x.ts = t
    OBVIOUS
  <2>4. ASSUME NEW y \in C PROVE ~ Earlier(x, y)
    <3>1. CASE y.op = "retract"
      <4>1. y.ts <= x.ts /\ y.ts \in Nat /\ x.ts \in Nat
        BY <1>3, <2>2, <2>3, <3>1 DEF IsRecord
      <4> QED
        BY <2>3, <3>1, <4>1 DEF Earlier, Rank
    <3>2. CASE y.op = "assert"
      <4>1. y.ts <= x.ts /\ y.ts \in Nat /\ x.ts \in Nat
        BY <1>3, <2>3, <3>2 DEF OnceInv, AssertedBefore, IsRecord
      <4> QED
        BY <2>3, <3>2, <4>1 DEF Earlier, Rank
    <3> QED
      BY <1>3, <3>1, <3>2
  <2>5. EndsRetracted(i)
    BY <2>3, <2>4 DEF EndsRetracted
  <2> QED
    BY <1>1, <2>5, FoldRetracts DEF LedgerInv
<1>5. r \in C /\ r.op = "assert" /\ \A s \in C : s.op = "assert"
  BY <1>3, <1>4
<1>6. \A s \in C : s = r
  BY <1>5 DEF OnceInv, AssertedBefore
<1>7. Alone(r)
  BY <1>2, <1>5, <1>6 DEF Alone
<1> QED
  BY <1>1, <1>7

LEMMA UnlikeIsOnce == LedgerInv /\ OnceInv => RememberedOnce
<1> SUFFICES ASSUME LedgerInv, OnceInv,
                    NEW m \in Living, m.id \in minted \ Verified,
                    NEW n \in Living, n.id \in minted \ Verified,
                    m.says.fact = n.says.fact, DOMAIN m.says.pins = DOMAIN n.says.pins
             PROVE  m = n
  BY DEF RememberedOnce
<1>1. PICK a \in mem.records : Alone(a) /\ m = Effective(mem.records, a.id)
  BY LivesAlone
<1>2. PICK b \in mem.records : Alone(b) /\ n = Effective(mem.records, b.id)
  BY LivesAlone
<1>3. /\ m.says.fact = a.fact /\ m.says.pins = a.pins
      /\ n.says.fact = b.fact /\ n.says.pins = b.pins
  <2>1. m.says = [fact |-> a.fact, pins |-> a.pins] /\ n.says = [fact |-> b.fact, pins |-> b.pins]
    BY <1>1, <1>2, AloneLives
  <2> QED
    BY <2>1
<1>4. a = b
  BY <1>1, <1>2, <1>3 DEF OnceInv, Unlike, SameClaim
<1> QED
  BY <1>1, <1>2, <1>4
-----------------------------------------------------------------------------
(* Steps.                                                                  *)

Spends == left'.asserts \in Int /\ left'.asserts <= left.asserts

LEMMA UseSpends ==
  ASSUME LedgerInv
  PROVE  /\ UNCHANGED left => Spends
         /\ \A what : Use(what) => Spends
  BY DEF LedgerInv, LedgerTypes, Use, Spends

(* The ledger stays; writers may forget what they were about to append.    *)
LEMMA OnceSteady ==
  ASSUME LedgerInv, OnceInv, Spends,
         UNCHANGED <<acked, minted>>, mem'.records = mem.records,
         \A p \in Writers : proc'[p] \in {proc[p], Resting}
  PROVE  OnceInv'
<1>1. Daemon \in Writers /\ Commands \subseteq Writers
  BY DEF Writers
<1>2. /\ \A p \in Writers : proc'[p] # Resting => proc'[p] = proc[p]
      /\ \A p \in Writers : \A op, i : Intends(p, op, i)' => Intends(p, op, i) /\ proc'[p] = proc[p]
  BY DEF Intends
<1>3. AssertedBefore'
  BY <1>2 DEF OnceInv, AssertedBefore
<1>4. Mints'
  <2>1. \A i \in minted : i \in Nat /\ i > left'.asserts
    BY DEF OnceInv, Mints, Spends, LedgerInv, LedgerTypes
  <2>2. ASSUME NEW p \in Commands, Intends(p, "assert", proc[p].record.id)'
        PROVE  proc'[p].record.id \notin minted
    BY <1>1, <2>2 DEF OnceInv, Mints, Intends
  <2> QED
    BY <1>1, <1>2, <2>1, <2>2 DEF OnceInv, Mints
<1>5. \A a : Alone(a)' => Alone(a)
  BY DEF Alone, Verified
<1>6. Unlike'
  BY <1>1, <1>2, <1>5 DEF OnceInv, Unlike
<1> QED
  BY <1>3, <1>4, <1>6 DEF OnceInv

(* A command decides what it appends. *)
LEMMA OnceIntends ==
  ASSUME LedgerInv, OnceInv, Spends,
         UNCHANGED <<mem, acked, minted>>,
         NEW p \in Commands, NEW r, Intend(p, r),
         r.op = "assert" => r.id = left.asserts
  PROVE  OnceInv'
<1> DEFINE x == [pc |-> "append", since |-> now, record |-> r]
<1>1. Daemon \in Writers /\ Commands \subseteq Writers /\ p # Daemon
  BY LedgerAssumption DEF Writers
<1>2. /\ proc'[p] = x /\ \A q \in Writers : q # p => proc'[q] = proc[q]
  BY <1>1 DEF Intend, LedgerInv, LedgerTypes
<1>3. x.record = r /\ x.since = now
  OBVIOUS
<1> HIDE DEF x
<1>4. AssertedBefore'
  <2>1. ASSUME NEW a \in mem.records, a.op = "assert",
               NEW q \in Writers, Intends(q, "retract", a.id)'
        PROVE  a.ts <= proc'[q].since
    <3>1. CASE q = p
      <4>1. a.ts <= now
        BY DEF LedgerInv, LedgerTypes, IsRecord
      <4> QED
        BY <1>2, <1>3, <3>1, <4>1
    <3>2. CASE q # p
      <4>1. Intends(q, "retract", a.id) /\ proc'[q] = proc[q]
        BY <1>2, <2>1, <3>2 DEF Intends
      <4> QED
        BY <2>1, <4>1 DEF OnceInv, AssertedBefore
    <3> QED
      BY <3>1, <3>2
  <2> QED
    BY <2>1 DEF OnceInv, AssertedBefore
<1>5. Mints'
  <2>1. \A i \in minted : i \in Nat /\ i > left'.asserts
    BY DEF OnceInv, Mints, Spends, LedgerInv, LedgerTypes
  <2>2. ASSUME NEW q \in Commands, Intends(q, "assert", proc[q].record.id)'
        PROVE  proc'[q].record.id \notin minted
    <3>1. CASE q = p
      <4>1. r.op = "assert"
        BY <1>2, <1>3, <2>2, <3>1 DEF Intends
      <4>2. left.asserts \notin minted
        BY DEF OnceInv, Mints, LedgerInv, LedgerTypes
      <4> QED
        BY <1>2, <1>3, <3>1, <4>1, <4>2
    <3>2. CASE q # p
      <4>1. Intends(q, "assert", proc[q].record.id) /\ proc'[q] = proc[q]
        BY <1>1, <1>2, <2>2, <3>2 DEF Intends
      <4> QED
        BY <4>1 DEF OnceInv, Mints
    <3> QED
      BY <3>1, <3>2
  <2>3. proc'[Daemon] = proc[Daemon]
    BY <1>1, <1>2
  <2> QED
    BY <2>1, <2>2, <2>3 DEF OnceInv, Mints
<1>6. \A a : Alone(a)' => Alone(a)
  BY DEF Alone, Verified
<1>7. proc'[Daemon] = proc[Daemon]
  BY <1>1, <1>2
<1>8. Unlike'
  BY <1>6, <1>7 DEF OnceInv, Unlike
<1> QED
  BY <1>4, <1>5, <1>8 DEF OnceInv

(* ingest_candidate: nothing like it lives.                                *)
LEMMA OnceIngests ==
  ASSUME LedgerInv, OnceInv, NEW fact, NEW S, NEW ts,
         ~ IsDuplicate(fact, S), Ingest(fact, S, ts), minted' = minted \cup {left.asserts}
  PROVE  OnceInv'
<1> DEFINE r == [id |-> left.asserts, op |-> "assert", fact |-> fact, pins |-> Hashed(S)]
           x == [pc |-> "append", since |-> ts, record |-> r]
<1>1. Daemon \in Writers /\ Commands \subseteq Writers /\ Daemon \notin Commands
  BY LedgerAssumption DEF Writers
<1>2. /\ UNCHANGED <<mem, acked>> /\ left.asserts \in Nat /\ left.asserts > 0
      /\ left'.asserts = left.asserts - 1
  BY DEF Ingest, Use, LedgerInv, LedgerTypes
<1>3. /\ proc'[Daemon] = x /\ \A q \in Writers : q # Daemon => proc'[q] = proc[q]
  BY <1>1 DEF Ingest, LedgerInv, LedgerTypes
<1>4. x.record = r /\ r.op = "assert" /\ r.fact = fact /\ DOMAIN r.pins = S
  BY DEF Hashed
<1> HIDE DEF x, r
<1>5. AssertedBefore'
  <2>1. ASSUME NEW q \in Writers, NEW i, Intends(q, "retract", i)'
        PROVE  Intends(q, "retract", i) /\ proc'[q] = proc[q]
    BY <1>3, <1>4, <2>1 DEF Intends
  <2> QED
    BY <1>2, <2>1 DEF OnceInv, AssertedBefore
<1>6. Mints'
  <2>1. \A i \in minted' : i \in Nat /\ i > left'.asserts
    BY <1>2 DEF OnceInv, Mints
  <2>2. ASSUME NEW q \in Commands, Intends(q, "assert", proc[q].record.id)'
        PROVE  proc'[q].record.id \notin minted'
    <3>1. Intends(q, "assert", proc[q].record.id) /\ proc'[q] = proc[q] /\ proc[q] # Resting
      BY <1>1, <1>3, <2>2 DEF Intends
    <3>2. proc[q].record.id # left.asserts
      BY <1>1, <1>2, <3>1 DEF LedgerInv, AssertedOnce
    <3> QED
      BY <3>1, <3>2 DEF OnceInv, Mints
  <2> QED
    BY <1>3, <1>4, <2>1, <2>2 DEF Mints
<1>7. ASSUME NEW a, Alone(a)' PROVE Alone(a)
  <2>1. a.id # left.asserts
    BY <1>2, <1>7 DEF Alone, LedgerInv, AssertedOnce
  <2> QED
    BY <1>2, <1>7, <2>1 DEF Alone, Verified
<1>8. ASSUME NEW a, Alone(a) PROVE ~ SameClaim(a, r)
  <2> DEFINE m == Effective(mem.records, a.id)
  <2>1. m \in Living /\ m.says = [fact |-> a.fact, pins |-> a.pins]
    BY <1>8, AloneLives
  <2>2. m.says.fact = a.fact /\ m.says.pins = a.pins
    BY <2>1
  <2> QED
    BY <1>4, <2>1, <2>2 DEF IsDuplicate, SameClaim
<1>9. Unlike'
  BY <1>2, <1>3, <1>4, <1>7, <1>8 DEF OnceInv, Unlike
<1> QED
  BY <1>2, <1>5, <1>6, <1>9 DEF OnceInv

(* An append reaches the file. *)
LEMMA OnceAppended ==
  ASSUME LedgerInv, OnceInv, Spends, NEW p \in Writers, NEW r,
         proc[p] # Resting, proc' = [proc EXCEPT ![p] = Resting],
         r.id = proc[p].record.id, r.op = proc[p].record.op,
         r.fact = proc[p].record.fact, r.pins = proc[p].record.pins,
         r.op = "retract" => proc[p].since <= r.ts, r.ts \in Nat,
         mem'.records = mem.records \cup {r}, acked' = acked \cup {r},
         UNCHANGED minted
  PROVE  OnceInv'
<1>1. Daemon \in Writers /\ Commands \subseteq Writers /\ \A q \in Writers : q \in Commands \/ q = Daemon
  BY DEF Writers
<1>2. /\ proc'[p] = Resting /\ \A q \in Writers : q # p => proc'[q] = proc[q]
  BY DEF LedgerInv, LedgerTypes
<1>3. \A q \in Writers : proc'[q] # Resting => q # p /\ proc'[q] = proc[q]
  BY <1>2
<1>4. \A q \in Writers : \A op, i : Intends(q, op, i)' => q # p /\ Intends(q, op, i) /\ proc'[q] = proc[q]
  BY <1>3 DEF Intends
<1>5. Intends(p, r.op, r.id)
  BY DEF Intends
<1>6. r.op = "assert" => \A s \in mem.records : s.id # r.id
  BY DEF LedgerInv, AssertedOnce
<1>7. AssertedBefore'
  <2> SUFFICES ASSUME NEW a \in mem.records \cup {r}, a.op = "assert"
               PROVE  /\ \A s \in mem.records \cup {r} :
                           s.id = a.id /\ s.op = "retract" => a.ts <= s.ts
                      /\ \A s \in mem.records \cup {r} :
                           s.id = a.id /\ s.op = "assert" => s = a
                      /\ \A q \in Writers : Intends(q, "retract", a.id)' => a.ts <= proc'[q].since
    BY DEF AssertedBefore
  <2>1. CASE a = r
    <3>1. \A q \in Writers : ~ Intends(q, "retract", r.id)'
      <4>1. ASSUME NEW q \in Writers, Intends(q, "retract", r.id)' PROVE FALSE
        <5>1. q # p /\ proc[q] # Resting /\ proc[q].record.id = r.id
          BY <1>4, <4>1 DEF Intends
        <5> QED
          BY <2>1, <5>1 DEF LedgerInv, AssertedOnce
      <4> QED
        BY <4>1
    <3> QED
      BY <1>6, <2>1, <3>1
  <2>2. CASE a \in mem.records
    <3>1. r.id = a.id /\ r.op = "retract" => a.ts <= r.ts
      <4>1. CASE r.id = a.id /\ r.op = "retract"
        <5>1. a.ts <= proc[p].since /\ proc[p].since <= r.ts
          BY <1>5, <2>2, <4>1 DEF OnceInv, AssertedBefore
        <5>2. a.ts \in Nat /\ proc[p].since \in Nat
          BY <2>2, <4>1 DEF LedgerInv, LedgerTypes, IsRecord, IsIntent
        <5> QED
          BY <5>1, <5>2
      <4> QED
        BY <4>1
    <3>2. r.id = a.id => r.op # "assert"
      BY <1>6, <2>2
    <3>3. \A q \in Writers : Intends(q, "retract", a.id)' => a.ts <= proc'[q].since
      BY <1>4, <2>2 DEF OnceInv, AssertedBefore
    <3> QED
      BY <2>2, <3>1, <3>2, <3>3 DEF OnceInv, AssertedBefore
  <2> QED
    BY <2>1, <2>2
<1>8. Mints'
  <2>1. \A i \in minted : i \in Nat /\ i > left'.asserts
    BY DEF OnceInv, Mints, Spends, LedgerInv, LedgerTypes
  <2>2. ASSUME NEW q \in Commands, Intends(q, "assert", proc[q].record.id)'
        PROVE  proc'[q].record.id \notin minted
    BY <1>1, <1>4, <2>2 DEF OnceInv, Mints, Intends
  <2> QED
    BY <1>1, <1>3, <2>1, <2>2 DEF OnceInv, Mints
<1>9. ASSUME NEW a \in mem.records \cup {r}, Alone(a)'
      PROVE  Alone(a) \/ (a = r /\ p = Daemon)
  <2>1. CASE a \in mem.records
    BY <1>9, <2>1 DEF Alone, Verified
  <2>2. CASE a = r /\ p \in Commands
    <3>1. r.op = "assert" /\ r.id \in minted
      BY <1>9, <2>2 DEF Alone
    <3> QED
      BY <1>5, <2>2, <3>1 DEF OnceInv, Mints
  <2> QED
    BY <1>1, <2>1, <2>2
<1>10. p = Daemon => \A a \in mem.records : Alone(a) => ~ SameClaim(a, r) /\ ~ SameClaim(r, a)
  BY DEF OnceInv, Unlike, SameClaim
<1>11. ASSUME NEW a, Alone(a) PROVE a \in mem.records
  BY <1>11 DEF Alone
<1>12. Unlike'
  <2>1. ASSUME NEW a \in mem.records \cup {r}, NEW b \in mem.records \cup {r},
               Alone(a)', Alone(b)', SameClaim(a, b)
        PROVE  a = b
    BY <1>9, <1>10, <1>11, <2>1 DEF OnceInv, Unlike
  <2>2. ASSUME proc'[Daemon] # Resting, NEW a \in mem.records \cup {r}, Alone(a)'
        PROVE  ~ SameClaim(a, proc'[Daemon].record)
    <3>1. p # Daemon /\ proc'[Daemon] = proc[Daemon]
      BY <1>1, <1>3, <2>2
    <3>2. Alone(a) /\ a \in mem.records
      BY <1>9, <1>11, <2>2, <3>1
    <3> QED
      BY <2>2, <3>1, <3>2 DEF OnceInv, Unlike
  <2> QED
    BY <2>1, <2>2 DEF Unlike, SameClaim
<1> QED
  BY <1>7, <1>8, <1>12 DEF OnceInv

LEMMA OnceAppends ==
  ASSUME LedgerInv, OnceInv, NEW p \in Writers, AppendLocked(p), UNCHANGED minted
  PROVE  OnceInv'
<1>1. PICK t \in 0 .. now :
        LET r == Stamped(proc[p].record, t) IN
          /\ proc[p].since <= t /\ AppendRecord(r)
          /\ acked' = IF mem.torn THEN acked ELSE acked \cup {r}
  BY DEF AppendLocked
<1> DEFINE r == Stamped(proc[p].record, t)
<1>2. /\ proc[p] # Resting /\ proc' = [proc EXCEPT ![p] = Resting] /\ Spends
  BY UseSpends DEF AppendLocked
<1>3. /\ r.id = proc[p].record.id /\ r.op = proc[p].record.op
      /\ r.fact = proc[p].record.fact /\ r.pins = proc[p].record.pins
      /\ r.ts = t /\ t \in Nat /\ proc[p].since <= t
  BY <1>1 DEF Stamped, LedgerInv, LedgerTypes
<1>4. /\ mem.torn => mem'.records = mem.records
      /\ ~ mem.torn => mem'.records = mem.records \cup {r}
  BY <1>1 DEF AppendRecord, LedgerInv, LedgerTypes
<1>5. acked' = IF mem.torn THEN acked ELSE acked \cup {r}
  BY <1>1
<1> HIDE DEF r
<1>6. CASE mem.torn
  <2>1. \A q \in Writers : proc'[q] \in {proc[q], Resting}
    BY <1>2 DEF LedgerInv, LedgerTypes
  <2> QED
    BY <1>2, <1>4, <1>5, <1>6, <2>1, OnceSteady
<1>7. CASE ~ mem.torn
  BY <1>2, <1>3, <1>4, <1>5, <1>7, OnceAppended
<1> QED
  BY <1>6, <1>7

(* A purge takes whole chains. *)
LEMMA OnceRewrites ==
  ASSUME LedgerInv, OnceInv, PurgeRewrite, UNCHANGED minted
  PROVE  OnceInv'
<1>1. /\ mem'.records = purge.keep /\ purge.keep \subseteq mem.records
      /\ \A r, s \in mem.records : r.id = s.id /\ r \in purge.keep => s \in purge.keep
      /\ UNCHANGED <<proc, acked, left>>
  BY DEF PurgeRewrite, PurgeUnchanged, LedgerInv, PurgeInv, LedgerTypes
<1>2. AssertedBefore' /\ Mints'
  BY <1>1 DEF OnceInv, AssertedBefore, Mints, Intends
<1>3. \A a : Alone(a)' => Alone(a)
  BY <1>1 DEF Alone, Verified
<1>4. Unlike'
  BY <1>1, <1>3 DEF OnceInv, Unlike
<1> QED
  BY <1>1, <1>2, <1>4 DEF OnceInv

LEMMA OnceLedger ==
  ASSUME LedgerInv, OnceInv, LedgerNext \/ PurgeDecide \/ RecallNext, UNCHANGED minted
  PROVE  OnceInv'
<1>u. /\ UNCHANGED left => Spends
      /\ \A what : Use(what) => Spends
  BY UseSpends
<1>s. /\ mem' = mem => mem'.records = mem.records
      /\ proc' = proc => \A p \in Writers : proc'[p] \in {proc[p], Resting}
  OBVIOUS
<1>1. ASSUME NEW p \in Commands, NEW fact, NEW S, Remember(p, fact, S)
      PROVE  OnceInv'
  <2> DEFINE r == [id |-> left.asserts, op |-> "assert", fact |-> fact, pins |-> Hashed(S)]
  <2>1. Intend(p, r) /\ r.op = "assert" /\ r.id = left.asserts /\ Spends
    BY <1>1, <1>u DEF Remember
  <2>2. UNCHANGED <<mem, acked>>
    BY <2>1 DEF Intend
  <2> HIDE DEF r
  <2> QED
    BY <2>1, <2>2, OnceIntends
<1>2. ASSUME NEW p \in Commands, NEW r, Intend(p, r), r.op # "assert", NEW what, Use(what)
      PROVE  OnceInv'
  BY <1>2, <1>u, OnceIntends DEF Intend
<1>3. ASSUME NEW p \in Commands, NEW m, Verify(p, m)
      PROVE  OnceInv'
  <2> DEFINE r == [ id |-> m.id, op |-> "reverify", fact |-> m.says.fact,
                    pins |-> Hashed(DOMAIN m.says.pins \cap Present) ]
  <2>1. Intend(p, r) /\ r.op # "assert" /\ Use("verifies")
    BY <1>3 DEF Verify
  <2> HIDE DEF r
  <2> QED
    BY <1>2, <2>1
<1>4. ASSUME NEW p \in Commands, NEW m, NEW old, NEW new, VerifyReplacing(p, m, old, new)
      PROVE  OnceInv'
  <2> DEFINE r == [ id |-> m.id, op |-> "reverify", fact |-> m.says.fact,
                    pins |-> Hashed(((DOMAIN m.says.pins \ {old}) \cap Present) \cup {new}) ]
  <2>1. Intend(p, r) /\ r.op # "assert" /\ Use("verifies")
    BY <1>4 DEF VerifyReplacing
  <2> HIDE DEF r
  <2> QED
    BY <1>2, <2>1
<1>5. ASSUME NEW p \in Commands, NEW m, Forget(p, m)
      PROVE  OnceInv'
  <2> DEFINE r == [id |-> m.id, op |-> "retract", fact |-> m.says.fact, pins |-> m.says.pins]
  <2>1. Intend(p, r) /\ r.op # "assert" /\ Use("forgets")
    BY <1>5 DEF Forget
  <2> HIDE DEF r
  <2> QED
    BY <1>2, <2>1
<1>6. ASSUME NEW p \in Commands, KillWriter(p)
      PROVE  OnceInv'
  <2>1. Spends /\ UNCHANGED acked
    BY <1>6, <1>u DEF KillWriter
  <2>2. mem'.records = mem.records
    BY <1>6 DEF KillWriter, TearRecord, LedgerInv, LedgerTypes
  <2>3. \A q \in Writers : proc'[q] \in {proc[q], Resting}
    BY <1>6 DEF KillWriter, LedgerInv, LedgerTypes
  <2> QED
    BY <2>1, <2>2, <2>3, OnceSteady
<1>7. CASE PurgeDecide \/ PurgeArchive \/ KillPurge \/ Tick
  <2>1. Spends /\ UNCHANGED <<mem, acked, proc>>
    BY <1>7, <1>u DEF PurgeDecide, PurgeArchive, KillPurge, Tick, PurgeUnchanged
  <2> QED
    BY <1>s, <2>1, OnceSteady
<1>8. ASSUME NEW q, NEW c, Edit(q, c)
      PROVE  OnceInv'
  BY <1>8, <1>s, <1>u, OnceSteady DEF Edit
<1>9. ASSUME RecallNext
      PROVE  OnceInv'
  <2>1. Spends
    <3>1. ASSUME NEW for, NEW k, Load(for, k) PROVE Spends
      BY <1>u, <3>1 DEF Load
    <3>2. ASSUME NEW q, Recorded(q) PROVE Spends
      BY <1>u, <3>2 DEF Recorded
    <3>3. CASE Step \/ Answer \/ RecallEnd \/ Late \/ GiveUp \/ Receive
      BY <1>u, <3>3 DEF Step, Answer, RecallEnd, Late, GiveUp, Receive, Return
    <3> QED
      BY <1>9, <3>1, <3>2, <3>3 DEF RecallNext, Recall, Inject
  <2>2. UNCHANGED <<mem, acked, proc>>
    BY <1>9 DEF RecallNext, Recall, Inject, Load, Step, Answer, RecallEnd, Late, GiveUp,
         Receive, Return, Recorded, RecallUnchanged
  <2> QED
    BY <1>s, <2>1, <2>2, OnceSteady
<1>10. ASSUME LedgerNext
       PROVE  OnceInv'
  BY <1>1, <1>3, <1>4, <1>5, <1>6, <1>7, <1>8, <1>10, OnceAppends, OnceRewrites DEF LedgerNext
<1> QED
  BY <1>7, <1>9, <1>10

LEMMA OnceInbox ==
  ASSUME LedgerInv, OnceInv, InboxNext
  PROVE  OnceInv'
<1>u. /\ UNCHANGED left => Spends
      /\ \A what : Use(what) => Spends
  BY UseSpends
<1>s. UNCHANGED <<mem, acked, proc, minted>> /\ Spends => OnceInv'
  BY OnceSteady
<1>1. CASE Hook /\ UNCHANGED minted
  <2>1. ASSUME NEW kind, UseSignal(kind) PROVE Spends
    BY <2>1 DEF UseSignal, Spends, LedgerInv, LedgerTypes
  <2>2. Spends
    <3>1. ASSUME NEW kind, NEW fact, NEW S, HookLine(kind, fact, S) \/ HookBegin(kind, fact, S)
          PROVE  Spends
      BY <2>1, <3>1 DEF HookLine, HookBegin
    <3>2. CASE HookEnd \/ HookDies
      BY <1>u, <3>2 DEF HookEnd, HookDies
    <3> QED
      BY <1>1, <3>1, <3>2 DEF Hook
  <2>3. UNCHANGED <<mem, acked, proc>>
    BY <1>1 DEF Hook, HookLine, HookBegin, HookEnd, HookDies, HookUnchanged, ledger
  <2> QED
    BY <1>1, <1>s, <2>2, <2>3
<1>2. CASE (Boot \/ GapScan \/ ReplayDone \/ Poll) /\ UNCHANGED minted
  BY <1>2, <1>s, <1>u DEF Boot, GapScan, ReplayDone, Poll, ledger
<1>3. CASE PassLine \/ Stop
  BY <1>3, <1>s, <1>u DEF PassLine, Stop, ledger
<1>4. CASE CutArchive \/ CutRecheck \/ CutRename \/ CutRebase \/ KillCutter
  <2>1. Spends /\ UNCHANGED <<mem, acked, proc, minted>>
    BY <1>4, <1>u DEF CutArchive, CutRecheck, CutRename, CutRebase, KillCutter, CutUnchanged, ledger
  <2> QED
    BY <1>s, <2>1
<1>5. CASE IngestLine
  <2>1. PICK s : /\ Ingestible(s.fact, s.pins) /\ Ingest(s.fact, s.pins, s.ts)
                 /\ minted' = minted \cup {left.asserts}
    BY <1>5 DEF IngestLine
  <2> QED
    BY <2>1, OnceIngests DEF Ingestible
<1>6. CASE Crash
  <2>1. Spends /\ UNCHANGED <<acked, minted>>
    BY <1>6, <1>u DEF Crash
  <2>2. mem'.records = mem.records
    BY <1>6 DEF Crash, TearRecord, LedgerInv, LedgerTypes
  <2>3. \A q \in Writers : proc'[q] \in {proc[q], Resting}
    BY <1>6 DEF Crash, LedgerInv, LedgerTypes
  <2> QED
    BY <2>1, <2>2, <2>3, OnceSteady
<1> QED
  BY <1>1, <1>2, <1>3, <1>4, <1>5, <1>6 DEF InboxNext

LEMMA OnceBegins == Init => OnceInv
<1> SUFFICES ASSUME Init PROVE OnceInv
  OBVIOUS
<1>1. /\ acked = mem.records /\ minted = {} /\ proc = [p \in Writers |-> Resting]
      /\ left \in Bounds
  BY DEF Init, LedgerInit
<1>2. PICK fact, S : mem = [records |-> Remembered(fact, S), torn |-> FALSE, corrupt |-> FALSE]
  BY DEF Init, LedgerInit
<1>3. left.asserts \in Nat
  BY <1>1, LedgerAssumption
<1>4. \A r, s \in mem.records : r.op = "assert" /\ (r.id = s.id => r = s)
  <2>1. \A m, n \in 1 .. left.memories : left.asserts + m = left.asserts + n => m = n
    BY <1>3
  <2> QED
    BY <1>2, <2>1 DEF Remembered
<1>5. \A p \in Writers : proc[p] = Resting
  BY <1>1
<1>6. Daemon \in Writers /\ Commands \subseteq Writers
  BY DEF Writers
<1>7. AssertedBefore
  BY <1>4, <1>5 DEF AssertedBefore, Intends
<1> QED
  BY <1>1, <1>4, <1>5, <1>6, <1>7 DEF OnceInv, Mints, Unlike, Alone, Intends

LEMMA OnceContinues == LedgerInv /\ OnceInv /\ [Next]_vars => OnceInv'
<1> SUFFICES ASSUME LedgerInv, OnceInv, [Next]_vars PROVE OnceInv'
  OBVIOUS
<1>1. CASE Next
  BY <1>1, OnceLedger, OnceInbox DEF Next, inboxVars
<1>2. CASE UNCHANGED vars
  <2>1. UNCHANGED <<mem, acked, proc, minted>> /\ UNCHANGED left
    BY <1>2 DEF vars, ledger, inboxVars
  <2> QED
    BY <2>1, UseSpends, OnceSteady
<1> QED
  BY <1>1, <1>2

(* A candidate is remembered once (replay_pending_candidates,              *)
(* ingest_candidate): two memories of candidates that live and that nobody *)
(* verified never say the same of the same files, although a successor of  *)
(* a killed daemon reads lines again that were acted on.                   *)
THEOREM CandidatesOnce == Spec => []RememberedOnce
<1>1. Init => LedgerInv /\ OnceInv
  BY Begins, OnceBegins
<1>2. (LedgerInv /\ OnceInv) /\ [Next]_vars => (LedgerInv /\ OnceInv)'
  BY Continues, OnceContinues
<1>3. LedgerInv /\ OnceInv => RememberedOnce
  BY UnlikeIsOnce
<1> QED
  BY <1>1, <1>2, <1>3, PTL DEF Spec
-----------------------------------------------------------------------------
(* Recall. A walk has taken every steady memory that it has passed.        *)

ReaderTypes ==
  /\ reader = [ pc |-> reader.pc, for |-> reader.for, k |-> reader.k,
                ranking |-> reader.ranking, i |-> reader.i, hits |-> reader.hits,
                capped |-> reader.capped, corrupt |-> reader.corrupt, late |-> reader.late,
                steady |-> reader.steady, seen |-> reader.seen, said |-> reader.said ]
  /\ reader.pc \in {"walk", "done", "said"}
  /\ reader.capped \in BOOLEAN /\ reader.k \in Nat \ {0} /\ reader.i \in Nat \ {0}
  /\ reader.ranking \in Seq(ToSet(reader.ranking))
  /\ reader.hits \in Seq(ToSet(reader.ranking))

Passed(r) ==
  \A j \in DOMAIN r.ranking : j < r.i /\ r.ranking[j] \in r.steady => r.ranking[j] \in ToSet(r.hits)

ReaderInv ==
  reader # ReaderRest =>
    /\ ReaderTypes
    /\ reader.pc = "walk" =>
         /\ reader.steady \subseteq ToSet(reader.ranking) /\ Passed(reader)
         /\ \A m \in reader.steady : Freshness(m.says.pins) = "fresh"
    /\ reader.pc # "walk" => WalkHonest(reader)
    /\ reader.pc # "said" => reader.said = "nothing"
    /\ reader.corrupt => reader.pc # "walk" /\ reader.hits = << >>
    /\ reader.seen \subseteq mem.records \cup archive
    /\ EmptyHonest(reader)

Notes == {{"failure"}, {"capped"}, {"n"}, {"n", "capped"}, {"budget_exceeded"}}

HookInv ==
  /\ {"pc", "injections"} \subseteq DOMAIN hook /\ hook.injections \in Nat
  /\ hook.pc \in {"rest", "wait", "done"}
  /\ stats \in Seq(Notes) /\ HookHonest

DriftInv ==
  /\ turns \in Seq([path : Paths, after : Contents \cup {Gone}, ended : Nat])
  /\ \A i \in DOMAIN turns : turns[i].ended <= now
  /\ \A i, j \in DOMAIN turns : i < j => turns[i].ended <= turns[j].ended

RecallInv ==
  /\ IsFiniteSet(mem.records) /\ tree \in [Paths -> Contents \cup {Gone}]
  /\ ReaderInv /\ HookInv /\ DriftInv
-----------------------------------------------------------------------------
(* What is ranked, and what is counted.                                    *)

FieldsOf(r) ==
  [ pc |-> r.pc, for |-> r.for, k |-> r.k, ranking |-> r.ranking, i |-> r.i, hits |-> r.hits,
    capped |-> r.capped, corrupt |-> r.corrupt, late |-> r.late, steady |-> r.steady,
    seen |-> r.seen, said |-> r.said ]

LEMMA LivingIsFinite ==
  ASSUME IsFiniteSet(mem.records)
  PROVE  IsFiniteSet(Living)
<1> DEFINE f == [r \in mem.records |-> Effective(mem.records, r.id)]
           T == {Effective(mem.records, r.id) : r \in mem.records}
<1>1. f \in Surjection(mem.records, T)
  BY DEF Surjection
<1>2. IsFiniteSet(T)
  BY <1>1, FS_Surjection
<1>3. Living \subseteq T
  BY DEF Living, LoadEffective, Ids
<1> QED
  BY <1>2, <1>3, FS_Subset

LEMMA RankingIs ==
  ASSUME IsFiniteSet(mem.records), NEW ranking \in Rankings
  PROVE  ranking \in Seq(ToSet(ranking)) /\ ToSet(ranking) \subseteq Living
<1>1. PICK S \in SUBSET Living : ranking \in SetToSeqs(S)
  BY DEF Rankings
<1>2. Cardinality(S) \in Nat
  BY LivingIsFinite, FS_Subset, FS_CardinalityType
<1>3. ranking \in [1 .. Cardinality(S) -> S]
  BY <1>1 DEF SetToSeqs
<1>4. \A i \in 1 .. Cardinality(S) : ranking[i] \in ToSet(ranking)
  BY <1>3 DEF ToSet
<1>5. ranking \in [1 .. Cardinality(S) -> ToSet(ranking)]
  BY <1>3, <1>4
<1>6. ToSet(ranking) \subseteq S
  BY <1>3 DEF ToSet
<1> QED
  BY <1>2, <1>5, <1>6, SeqDef

(* pin_freshness. *)
LEMMA FreshIs ==
  ASSUME NEW pins
  PROVE  Freshness(pins) = "fresh" <=>
           DOMAIN pins \subseteq Present /\ \A q \in DOMAIN pins : tree[q] = pins[q]
<1>1. CASE ~ DOMAIN pins \subseteq Present
  <2>1. Freshness(pins) = "orphaned"
    BY <1>1 DEF Freshness
  <2> QED
    BY <1>1, <2>1
<1>2. CASE DOMAIN pins \subseteq Present /\ \A q \in DOMAIN pins : tree[q] = pins[q]
  BY <1>2 DEF Freshness
<1>3. CASE DOMAIN pins \subseteq Present /\ ~ \A q \in DOMAIN pins : tree[q] = pins[q]
  <2>1. Freshness(pins) = "stale"
    BY <1>3 DEF Freshness
  <2> QED
    BY <1>3, <2>1
<1> QED
  BY <1>1, <1>2, <1>3

LEMMA OneMore ==
  ASSUME NEW T, NEW s \in Seq(T), NEW x \in T, NEW S
  PROVE  /\ Cardinality({i \in DOMAIN s : s[i] \in S}) \in Nat
         /\ Cardinality({i \in DOMAIN Append(s, x) : Append(s, x)[i] \in S})
              = Cardinality({i \in DOMAIN s : s[i] \in S}) + (IF x \in S THEN 1 ELSE 0)
<1> DEFINE A == {i \in DOMAIN s : s[i] \in S}
           z == Append(s, x)
           B == {i \in DOMAIN z : z[i] \in S}
           n == Len(s) + 1
<1>1. /\ Len(s) \in Nat /\ DOMAIN s = 1 .. Len(s) /\ DOMAIN z = 1 .. n
      /\ z[n] = x /\ \A i \in 1 .. Len(s) : z[i] = s[i]
  OBVIOUS
<1>2. IsFiniteSet(1 .. Len(s))
  BY <1>1, FS_Interval
<1>3. IsFiniteSet(A) /\ Cardinality(A) \in Nat
  BY <1>1, <1>2, FS_Subset, FS_CardinalityType
<1>4. n \notin A /\ 1 .. n = 1 .. Len(s) \cup {n}
  BY <1>1
<1> HIDE DEF z, n
<1>5. B = IF x \in S THEN A \cup {n} ELSE A
  BY <1>1, <1>4
<1>6. Cardinality(B) = Cardinality(A) + (IF x \in S THEN 1 ELSE 0)
  <2>1. CASE x \in S
    <3>1. B = A \cup {n}
      BY <1>5, <2>1
    <3> HIDE DEF A, B
    <3>2. Cardinality(A \cup {n}) = Cardinality(A) + 1
      BY <1>3, <1>4, FS_AddElement
    <3> QED
      BY <2>1, <3>1, <3>2
  <2>2. CASE x \notin S
    <3>1. B = A
      BY <1>5, <2>2
    <3> HIDE DEF A, B
    <3> QED
      BY <1>3, <2>2, <3>1
  <2> QED
    BY <2>1, <2>2
<1> QED
  BY <1>3, <1>6 DEF z

-----------------------------------------------------------------------------
(* The walk and what it answers.                                           *)

WalkUnchanged == UNCHANGED <<hook, stats, turns, tree, now>>

Kept ==
  /\ IsFiniteSet(mem'.records) /\ archive \subseteq archive'
  /\ mem.records \cup archive \subseteq mem'.records \cup archive'

(* The reader does nothing: records move to the archive, others come.      *)
LEMMA ReaderWaits ==
  ASSUME RecallInv, Kept, UNCHANGED <<reader, tree>>
  PROVE  ReaderInv'
  BY DEF Kept, ReaderInv, RecallInv, ReaderTypes, Passed, WalkHonest, EmptyHonest, Freshness, Present

LEMMA HookWaits ==
  ASSUME RecallInv, UNCHANGED <<hook, stats>>
  PROVE  HookInv'
  BY DEF RecallInv, HookInv, HookHonest, Summary, Count, Keys

LEMMA TurnsWait ==
  ASSUME RecallInv, UNCHANGED turns, now' >= now, now \in Nat, now' \in Nat
  PROVE  DriftInv'
<1>1. \A i \in DOMAIN turns : turns[i].ended \in Nat /\ turns[i].ended <= now
  <2> DEFINE T == [path : Paths, after : Contents \cup {Gone}, ended : Nat]
  <2>1. turns \in Seq(T)
    BY DEF RecallInv, DriftInv
  <2>2. \A t \in T : t.ended \in Nat
    OBVIOUS
  <2> HIDE DEF T
  <2>3. \A i \in DOMAIN turns : turns[i] \in T
    BY <2>1
  <2> QED
    BY <2>2, <2>3 DEF RecallInv, DriftInv
<1>2. \A i \in DOMAIN turns : turns[i].ended <= now'
  BY <1>1
<1> QED
  BY <1>2 DEF RecallInv, DriftInv

(* The ledger is loaded and ranked. *)
LEMMA LoadStep ==
  ASSUME RecallInv, NEW for, NEW k \in 1 .. K, Load(for, k)
  PROVE  ReaderInv' /\ reader # reader' /\ UNCHANGED <<mem, archive, tree, now>>
<1>1. K \in Nat /\ k \in Nat \ {0}
  BY RecallAssumption
<1>2. UNCHANGED <<mem, archive, tree, now>>
  BY DEF Load, RecallUnchanged
<1>3. PICK ranking, corrupt :
        /\ corrupt \in BOOLEAN /\ reader' = Found(for, k, ranking, corrupt)
        /\ ranking \in Seq(ToSet(ranking))
  <2>1. CASE mem.corrupt /\ reader' = Found(for, k, << >>, TRUE)
    <3>1. PICK none, yes : none = << >> /\ yes = TRUE
      OBVIOUS
    <3>2. none \in Seq(ToSet(none)) /\ yes \in BOOLEAN
      BY <3>1
    <3>3. reader' = Found(for, k, none, yes)
      BY <2>1, <3>1
    <3> QED
      BY <3>2, <3>3
  <2>2. CASE \E ranking \in Rankings : reader' = Found(for, k, ranking, FALSE)
    <3>1. PICK ranking \in Rankings : reader' = Found(for, k, ranking, FALSE)
      BY <2>2
    <3>2. ranking \in Seq(ToSet(ranking))
      BY RankingIs DEF RecallInv
    <3>3. PICK no : no = FALSE
      OBVIOUS
    <3>4. no \in BOOLEAN /\ reader' = Found(for, k, ranking, no)
      BY <3>1, <3>3
    <3> QED
      BY <3>2, <3>4
  <2> QED
    BY <2>1, <2>2 DEF Load
<1>4. PICK z : z = Found(for, k, ranking, corrupt)
  OBVIOUS
<1>5. /\ z = FieldsOf(z) /\ z.pc = IF corrupt THEN "done" ELSE "walk"
      /\ z.k = k /\ z.ranking = ranking /\ z.i = 1 /\ z.hits = << >>
      /\ z.capped = FALSE /\ z.corrupt = corrupt /\ z.steady = FreshOf(ToSet(ranking))
      /\ z.seen \subseteq mem.records /\ z.said = "nothing"
  BY <1>4 DEF Found, FieldsOf
<1>6. reader = ReaderRest /\ z # ReaderRest
  <2>1. z.pc # "rest"
    BY <1>5
  <2> QED
    BY <2>1 DEF Load, ReaderRest
<1>7. reader' = z
  BY <1>3, <1>4
<1>8. ReaderTypes'
  <2>1. << >> \in Seq(ToSet(ranking)) /\ 1 \in Nat \ {0}
    OBVIOUS
  <2>2. z.pc \in {"walk", "done", "said"}
    BY <1>5
  <2> QED
    BY <1>1, <1>3, <1>5, <1>7, <2>1, <2>2 DEF ReaderTypes, FieldsOf
<1>9. z.steady \subseteq ToSet(z.ranking) /\ \A m \in z.steady : Freshness(m.says.pins) = "fresh"
  BY <1>5 DEF FreshOf
<1>10. Passed(z)
  <2>1. \A j \in DOMAIN ranking : ~ (j < 1)
    BY <1>3
  <2> QED
    BY <1>5, <2>1 DEF Passed
<1>11. (\A m \in reader.steady : Freshness(m.says.pins) = "fresh")'
  BY <1>2, <1>7, <1>9 DEF Freshness, Present
<1>12. Passed(reader)' /\ (reader.steady \subseteq ToSet(reader.ranking))'
  BY <1>7, <1>9, <1>10 DEF Passed
<1>13. EmptyHonest(reader)' /\ (reader.seen \subseteq mem.records \cup archive)'
  BY <1>2, <1>5, <1>7 DEF EmptyHonest
<1>14. (reader.pc # "walk" => WalkHonest(reader))'
  BY <1>5, <1>7 DEF WalkHonest
<1>15. reader'.said = "nothing" /\ reader'.hits = << >>
       /\ (reader'.corrupt => reader'.pc # "walk")
  BY <1>5, <1>7
<1> QED
  BY <1>2, <1>6, <1>7, <1>8, <1>11, <1>12, <1>13, <1>14, <1>15 DEF ReaderInv

LEMMA StepStep ==
  ASSUME RecallInv, Step
  PROVE  ReaderInv'
<1>1. /\ reader # ReaderRest /\ reader.pc = "walk" /\ ReaderTypes /\ Passed(reader)
      /\ reader.steady \subseteq ToSet(reader.ranking)
      /\ \A m \in reader.steady : Freshness(m.says.pins) = "fresh"
      /\ reader.seen \subseteq mem.records \cup archive /\ reader.said = "nothing"
      /\ ~ reader.corrupt
  BY DEF Step, Walks, RecallInv, ReaderInv
<1>2. UNCHANGED <<mem, archive, tree>>
  BY DEF Step, RecallUnchanged
<1>3. Len(reader.ranking) \in Nat /\ DOMAIN reader.ranking = 1 .. Len(reader.ranking)
      /\ reader.i \in Nat \ {0}
  BY <1>1 DEF ReaderTypes
<1>4. CASE \E capped \in BOOLEAN :
             /\ reader' = [reader EXCEPT !.pc = "done", !.capped = capped]
             /\ ~ capped => Enough
  <2>1. PICK capped \in BOOLEAN :
          /\ reader' = [reader EXCEPT !.pc = "done", !.capped = capped]
          /\ ~ capped => Enough
    BY <1>4
  <2>2. /\ ReaderTypes' /\ reader'.pc = "done" /\ reader'.capped = capped
        /\ reader'.corrupt = reader.corrupt /\ reader'.hits = reader.hits /\ reader'.k = reader.k /\ reader'.steady = reader.steady
        /\ reader'.seen = reader.seen /\ reader'.said = "nothing"
    BY <1>1, <2>1 DEF ReaderTypes
  <2>3. ASSUME reader.i > Len(reader.ranking) PROVE reader.steady \subseteq ToSet(reader.hits)
    <3>1. ASSUME NEW m \in reader.steady PROVE m \in ToSet(reader.hits)
      <4>1. PICK j \in DOMAIN reader.ranking : reader.ranking[j] = m
        BY <1>1 DEF ToSet
      <4>2. j < reader.i
        BY <1>3, <2>3, <4>1
      <4> QED
        BY <1>1, <4>1, <4>2 DEF Passed
    <3> QED
      BY <3>1
  <2>4. WalkHonest(reader)'
    BY <2>1, <2>2, <2>3 DEF WalkHonest, Enough
  <2>5. reader'.corrupt => reader'.hits = << >>
    BY <1>1, <2>2 DEF RecallInv, ReaderInv
  <2> QED
    BY <1>1, <1>2, <2>2, <2>4, <2>5 DEF ReaderInv, EmptyHonest
<1>5. CASE ~ Enough /\ VerifyNext
  <2> DEFINE m == reader.ranking[reader.i]
             hits == IF Freshness(m.says.pins) = "fresh" THEN Append(reader.hits, m) ELSE reader.hits
  <2>1. reader.i \in DOMAIN reader.ranking /\ m \in ToSet(reader.ranking)
    BY <1>3, <1>5 DEF Enough, ToSet
  <2>2. reader' = [reader EXCEPT !.i = reader.i + 1, !.hits = hits]
    BY <1>1, <1>5 DEF VerifyNext, ReaderTypes
  <2>3. /\ hits \in Seq(ToSet(reader.ranking)) /\ ToSet(reader.hits) \subseteq ToSet(hits)
        /\ Freshness(m.says.pins) = "fresh" => m \in ToSet(hits)
    <3>1. reader.hits \in Seq(ToSet(reader.ranking))
      BY <1>1 DEF ReaderTypes
    <3>2. CASE Freshness(m.says.pins) = "fresh"
      <4>1. hits = Append(reader.hits, m)
        BY <3>2
      <4>2. /\ hits \in Seq(ToSet(reader.ranking)) /\ DOMAIN reader.hits = 1 .. Len(reader.hits)
            /\ Len(reader.hits) \in Nat /\ DOMAIN hits = 1 .. Len(reader.hits) + 1
            /\ hits[Len(reader.hits) + 1] = m
            /\ \A j \in 1 .. Len(reader.hits) : hits[j] = reader.hits[j]
        <5> HIDE DEF m, hits
        <5> QED
          BY <2>1, <3>1, <4>1
      <4>3. Len(reader.hits) + 1 \in DOMAIN hits /\ \A j \in DOMAIN reader.hits : j \in DOMAIN hits
        BY <4>2
      <4> HIDE DEF m, hits
      <4> QED
        BY <4>2, <4>3 DEF ToSet
    <3>3. CASE Freshness(m.says.pins) # "fresh"
      BY <3>1, <3>3
    <3> QED
      BY <3>2, <3>3
  <2> HIDE DEF hits, m
  <2>4. /\ ReaderTypes' /\ reader'.pc = "walk" /\ reader'.i = reader.i + 1
        /\ reader'.corrupt = reader.corrupt /\ reader'.hits = hits /\ reader'.steady = reader.steady
        /\ reader'.ranking = reader.ranking
        /\ reader'.seen = reader.seen /\ reader'.said = "nothing"
    <3>1. reader.i + 1 \in Nat \ {0}
      BY <1>3
    <3>2. reader' = [ pc |-> reader.pc, for |-> reader.for, k |-> reader.k,
                ranking |-> reader.ranking, i |-> reader.i + 1, hits |-> hits,
                capped |-> reader.capped, corrupt |-> reader.corrupt, late |-> reader.late,
                steady |-> reader.steady, seen |-> reader.seen, said |-> reader.said ]
      BY <1>1, <2>2 DEF ReaderTypes
    <3> QED
      BY <1>1, <2>3, <3>1, <3>2 DEF ReaderTypes
  <2>5. Passed(reader)'
    <3>1. ASSUME NEW j \in DOMAIN reader.ranking, j < reader.i + 1, reader.ranking[j] \in reader.steady
          PROVE  reader.ranking[j] \in ToSet(hits)
      <4>1. CASE j < reader.i
        BY <1>1, <2>3, <3>1, <4>1 DEF Passed
      <4>2. CASE j = reader.i
        BY <1>1, <2>3, <3>1, <4>2 DEF m
      <4> QED
        BY <1>3, <3>1, <4>1, <4>2
    <3> QED
      BY <2>4, <3>1 DEF Passed
  <2>6. (\A x \in reader.steady : Freshness(x.says.pins) = "fresh")'
    BY <1>1, <1>2, <2>4 DEF Freshness, Present
  <2> QED
    BY <1>1, <1>2, <2>4, <2>5, <2>6 DEF ReaderInv, EmptyHonest
<1>6. \/ /\ Enough /\ reader' = [reader EXCEPT !.pc = "done", !.capped = reader.capped]
      \/ reader' = [reader EXCEPT !.pc = "done", !.capped = TRUE]
      \/ ~ Enough /\ VerifyNext
  BY <1>1 DEF Step, ReaderTypes
<1>7. CASE Enough /\ reader' = [reader EXCEPT !.pc = "done", !.capped = reader.capped]
  <2>1. reader.capped \in BOOLEAN
    BY <1>1 DEF ReaderTypes
  <2> QED
    BY <1>4, <1>7, <2>1
<1>8. CASE reader' = [reader EXCEPT !.pc = "done", !.capped = TRUE]
  BY <1>1, <1>4, <1>8 DEF ReaderTypes
<1> QED
  BY <1>5, <1>6, <1>7, <1>8

LEMMA AnswerStep ==
  ASSUME RecallInv, Answer
  PROVE  ReaderInv'
<1>1. /\ reader # ReaderRest /\ reader.pc = "done" /\ ReaderTypes /\ WalkHonest(reader)
      /\ reader.seen \subseteq mem.records \cup archive
      /\ reader.corrupt => reader.hits = << >>
  BY DEF Answer, RecallInv, ReaderInv, ReaderRest
<1>2. UNCHANGED <<mem, archive, tree>>
  BY DEF Answer, RecallUnchanged
<1>3. PICK said :
        /\ reader' = [reader EXCEPT !.pc = "said", !.said = said]
        /\ said = CASE reader.hits # << >> -> "hits"
                    [] reader.hits = << >> /\ LoadEffective = {} -> "no memories yet"
                    [] reader.hits = << >> /\ LoadEffective # {} -> "none fresh"
  BY DEF Answer
<1>4. reader' = [ pc |-> "said", for |-> reader.for, k |-> reader.k,
                  ranking |-> reader.ranking, i |-> reader.i, hits |-> reader.hits,
                  capped |-> reader.capped, corrupt |-> reader.corrupt, late |-> reader.late,
                  steady |-> reader.steady, seen |-> reader.seen, said |-> said ]
  BY <1>1, <1>3 DEF ReaderTypes
<1>5. ReaderTypes' /\ WalkHonest(reader)'
  BY <1>1, <1>4 DEF ReaderTypes, WalkHonest
<1>6. said = "no memories yet" => reader.seen \subseteq archive
  <2>1. LoadEffective = {} => mem.records = {}
    BY DEF LoadEffective, Ids
  <2> QED
    BY <1>1, <1>3, <2>1
<1> QED
  BY <1>1, <1>2, <1>4, <1>5, <1>6 DEF ReaderInv, EmptyHonest

LEMMA LateStep ==
  ASSUME RecallInv, Late
  PROVE  ReaderInv'
<1>1. /\ reader # ReaderRest /\ reader.pc = "walk" /\ ReaderTypes
      /\ reader.seen \subseteq mem.records \cup archive
      /\ reader.said = "nothing"
  BY DEF Late, Walks, RecallInv, ReaderInv
<1>2. UNCHANGED <<mem, archive, tree>>
  BY DEF Late, RecallUnchanged
<1>3. reader' = [ pc |-> "done", for |-> reader.for, k |-> reader.k,
                  ranking |-> reader.ranking, i |-> reader.i, hits |-> << >>,
                  capped |-> reader.capped, corrupt |-> reader.corrupt, late |-> TRUE,
                  steady |-> reader.steady, seen |-> reader.seen, said |-> reader.said ]
  BY <1>1 DEF ReaderTypes, Late
<1>4. << >> \in Seq(ToSet(reader.ranking))
  OBVIOUS
<1>5. ReaderTypes' /\ WalkHonest(reader)'
  BY <1>1, <1>3, <1>4 DEF ReaderTypes, WalkHonest
<1> QED
  BY <1>1, <1>2, <1>3, <1>5 DEF ReaderInv, EmptyHonest

(* A file changes: what has been steady so far does not pin it, or pins    *)
(* what it holds now.                                                      *)
LEMMA EditStep ==
  ASSUME RecallInv, NEW q \in Paths, NEW c \in Contents \cup {Gone}, Edit(q, c)
  PROVE  ReaderInv' /\ tree' \in [Paths -> Contents \cup {Gone}]
<1>1. /\ tree \in [Paths -> Contents \cup {Gone}] /\ tree' = [tree EXCEPT ![q] = c]
      /\ c # tree[q] /\ UNCHANGED <<mem, archive>>
  BY DEF RecallInv, Edit
<1>2. CASE reader = ReaderRest
  BY <1>1, <1>2 DEF Edit, ReaderInv
<1>3. CASE reader # ReaderRest
  <2> DEFINE steady == {m \in reader.steady : q \in DOMAIN m.says.pins => m.says.pins[q] = c}
  <2>1. ReaderTypes
    BY <1>3 DEF RecallInv, ReaderInv
  <2>2. reader' = [ pc |-> reader.pc, for |-> reader.for, k |-> reader.k,
                    ranking |-> reader.ranking, i |-> reader.i, hits |-> reader.hits,
                    capped |-> reader.capped, corrupt |-> reader.corrupt, late |-> reader.late,
                    steady |-> steady, seen |-> reader.seen, said |-> reader.said ]
    BY <1>3, <2>1 DEF ReaderTypes, Edit
  <2>3. reader.pc = "walk" => \A m \in steady : (Freshness(m.says.pins) = "fresh")'
    <3>1. ASSUME reader.pc = "walk", NEW m \in steady
          PROVE  (Freshness(m.says.pins) = "fresh")'
      <4>1. /\ DOMAIN m.says.pins \subseteq Present
            /\ \A p \in DOMAIN m.says.pins : tree[p] = m.says.pins[p]
        BY <1>3, <3>1, FreshIs DEF RecallInv, ReaderInv
      <4>2. q \notin DOMAIN m.says.pins
        BY <1>1, <4>1
      <4>3. /\ DOMAIN m.says.pins \subseteq Present'
            /\ \A p \in DOMAIN m.says.pins : tree'[p] = m.says.pins[p]
        BY <1>1, <4>1, <4>2 DEF Present
      <4> QED
        BY <4>3 DEF Freshness
    <3> QED
      BY <3>1
  <2>4. steady \subseteq reader.steady
    OBVIOUS
  <2> HIDE DEF steady
  <2>5. ReaderTypes' /\ (reader.pc # "walk" => WalkHonest(reader)')
    BY <1>3, <2>1, <2>2, <2>4 DEF RecallInv, ReaderInv, ReaderTypes, WalkHonest
  <2>6. reader.pc = "walk" => Passed(reader)'
    BY <1>3, <2>2, <2>4 DEF RecallInv, ReaderInv, Passed
  <2> QED
    BY <1>1, <1>3, <2>2, <2>3, <2>4, <2>5, <2>6 DEF RecallInv, ReaderInv, EmptyHonest
<1> QED
  BY <1>1, <1>2, <1>3

-----------------------------------------------------------------------------
(* What a hook notes and what `memories --stats` makes of it.              *)

(* Which of the counts a line goes into: always one.                       *)
OneKind(note) ==
  /\ "n" \in note => "budget_exceeded" \notin note /\ "failure" \notin note
  /\ "budget_exceeded" \in note => "failure" \notin note /\ "capped" \notin note
  /\ "failure" \in note => "capped" \notin note
  /\ "n" \in note \/ "budget_exceeded" \in note \/ "failure" \in note \/ "capped" \in note

LEMMA NoteCounts ==
  ASSUME NEW note \in Notes
  PROVE  /\ OneKind(note)
         /\ note \in {l \in Keys : l \cap {"budget_exceeded", "failure"} = {} /\ "n" \in l}
              <=> "n" \in note
         /\ note \in {l \in Keys : "budget_exceeded" \in l} <=> "budget_exceeded" \in note
         /\ note \in {l \in Keys : "failure" \in l /\ "budget_exceeded" \notin l}
              <=> "failure" \in note
         /\ note \in {l \in Keys : "capped" \in l
                        /\ l \cap {"budget_exceeded", "failure", "n"} = {}}
              <=> "capped" \in note /\ "n" \notin note
<1>1. note \in Keys
  BY DEF Notes, Keys
<1>2. OneKind(note)
  <2>1. CASE note = {"failure"}
    BY <2>1 DEF OneKind
  <2>2. CASE note = {"capped"}
    BY <2>2 DEF OneKind
  <2>3. CASE note = {"n"}
    BY <2>3 DEF OneKind
  <2>4. CASE note = {"n", "capped"}
    BY <2>4 DEF OneKind
  <2>5. CASE note = {"budget_exceeded"}
    BY <2>5 DEF OneKind
  <2> QED
    BY <2>1, <2>2, <2>3, <2>4, <2>5 DEF Notes
<1>3. /\ note \cap {"budget_exceeded", "failure"} = {}
           <=> "budget_exceeded" \notin note /\ "failure" \notin note
      /\ note \cap {"budget_exceeded", "failure", "n"} = {}
           <=> "budget_exceeded" \notin note /\ "failure" \notin note /\ "n" \notin note
  OBVIOUS
<1> QED
  BY <1>1, <1>2, <1>3 DEF OneKind

LEMMA SummaryGrows ==
  ASSUME stats \in Seq(Notes), NEW note \in Notes, stats' = Append(stats, note),
         HookHonest, hook.injections \in Nat
  PROVE  /\ Summary'.injected = IF "n" \in note THEN hook.injections + 1 ELSE hook.injections
         /\ Summary'.injected + Summary'.budget_exceeded + Summary'.failure
              + Summary'.capped_empty = Len(stats')
<1> DEFINE S1 == {l \in Keys : l \cap {"budget_exceeded", "failure"} = {} /\ "n" \in l}
           S2 == {l \in Keys : "budget_exceeded" \in l}
           S3 == {l \in Keys : "failure" \in l /\ "budget_exceeded" \notin l}
           S4 == {l \in Keys : "capped" \in l
                    /\ l \cap {"budget_exceeded", "failure", "n"} = {}}
           C(S) == Cardinality({i \in DOMAIN stats : stats[i] \in S})
           D(S) == Cardinality({i \in DOMAIN stats' : stats'[i] \in S})
<1>1. /\ OneKind(note)
      /\ note \in S1 <=> "n" \in note
      /\ note \in S2 <=> "budget_exceeded" \in note
      /\ note \in S3 <=> "failure" \in note
      /\ note \in S4 <=> "capped" \in note /\ "n" \notin note
  BY NoteCounts
<1>2. /\ Summary.injected = C(S1) /\ Summary.budget_exceeded = C(S2)
      /\ Summary.failure = C(S3) /\ Summary.capped_empty = C(S4)
      /\ Summary'.injected = D(S1) /\ Summary'.budget_exceeded = D(S2)
      /\ Summary'.failure = D(S3) /\ Summary'.capped_empty = D(S4)
  BY DEF Summary, Count
<1> HIDE DEF S1, S2, S3, S4
<1>3. ASSUME NEW S
      PROVE  C(S) \in Nat /\ D(S) = C(S) + (IF note \in S THEN 1 ELSE 0)
  BY OneMore, SMTT(60)
<1>4. Len(stats') = Len(stats) + 1 /\ Len(stats) \in Nat
  OBVIOUS
<1>5. C(S1) = hook.injections /\ C(S1) + C(S2) + C(S3) + C(S4) = Len(stats)
  BY <1>2 DEF HookHonest
<1>6. /\ C(S1) \in Nat /\ D(S1) = C(S1) + (IF note \in S1 THEN 1 ELSE 0)
      /\ C(S2) \in Nat /\ D(S2) = C(S2) + (IF note \in S2 THEN 1 ELSE 0)
      /\ C(S3) \in Nat /\ D(S3) = C(S3) + (IF note \in S3 THEN 1 ELSE 0)
      /\ C(S4) \in Nat /\ D(S4) = C(S4) + (IF note \in S4 THEN 1 ELSE 0)
  BY <1>3
<1> HIDE DEF C, D
<1>7. D(S1) + D(S2) + D(S3) + D(S4) = C(S1) + C(S2) + C(S3) + C(S4) + 1
  BY <1>1, <1>6 DEF OneKind
<1>8. D(S1) = IF "n" \in note THEN hook.injections + 1 ELSE hook.injections
  BY <1>1, <1>5, <1>6
<1>9. D(S1) + D(S2) + D(S3) + D(S4) = Len(stats')
  BY <1>4, <1>5, <1>7
<1> QED
  BY <1>2, <1>8, <1>9

LEMMA ReturnStep ==
  ASSUME RecallInv, NEW printed, NEW note \in Notes \cup {{}}, Return(printed, note),
         printed # << >> <=> "n" \in note,
         note = {} => reader.steady = {} \/ (reader.hits # << >> /\ printed = << >>)
  PROVE  ReaderInv' /\ HookInv' /\ UNCHANGED <<mem, archive, tree, now, turns>>
<1>1. ReaderInv' /\ UNCHANGED <<mem, archive, tree, now, turns>>
  BY DEF Return, ReaderInv, RecallUnchanged
<1>2. hook.injections \in Nat /\ stats \in Seq(Notes) /\ HookHonest
  BY DEF RecallInv, HookInv
<1>3. /\ hook'.pc = "done" /\ hook'.note = note /\ hook'.printed = printed /\ hook'.found = reader
      /\ hook'.injections = hook.injections + (IF printed = << >> THEN 0 ELSE 1)
      /\ DOMAIN hook' = {"pc", "printed", "note", "found", "injections"}
  BY DEF Return
<1>4. hook'.injections = IF "n" \in note THEN hook.injections + 1 ELSE hook.injections
  BY <1>2, <1>3
<1>5. CASE note = {}
  <2>1. stats' = stats
    BY <1>5 DEF Return
  <2>2. Summary' = Summary
    BY <2>1 DEF Summary, Count
  <2>3. hook'.injections = hook.injections
    BY <1>4, <1>5
  <2> QED
    BY <1>1, <1>2, <1>3, <1>5, <2>1, <2>2, <2>3 DEF HookInv, HookHonest
<1>6. CASE note # {}
  <2>1. stats' = Append(stats, note) /\ note \in Notes
    BY <1>6 DEF Return
  <2>2. stats' \in Seq(Notes)
    BY <1>2, <2>1
  <2>3. /\ Summary'.injected = hook'.injections
        /\ Summary'.injected + Summary'.budget_exceeded + Summary'.failure
             + Summary'.capped_empty = Len(stats')
    BY <1>2, <1>4, <2>1, SummaryGrows
  <2>4. hook'.injections \in Nat
    BY <1>2, <1>4
  <2> QED
    BY <1>1, <1>3, <1>6, <2>2, <2>3, <2>4 DEF HookInv, HookHonest
<1> QED
  BY <1>5, <1>6

LEMMA NothingToPrint == Block(<< >>) = << >>
<1>1. {n \in DOMAIN << >> : Width(SubSeq(<< >>, 1, n)) <= CHARS} = {}
  OBVIOUS
<1>2. Max({0}) = 0
  BY DEF Max
<1>3. Block(<< >>) = SubSeq(<< >>, 1, 0)
  BY <1>1, <1>2 DEF Block
<1> QED
  BY <1>3

LEMMA HookReturns ==
  ASSUME RecallInv, GiveUp \/ Receive
  PROVE  ReaderInv' /\ HookInv' /\ UNCHANGED <<mem, archive, tree, now, turns>>
<1>1. CASE GiveUp
  <2>1. Return(<< >>, {"budget_exceeded"}) /\ {"budget_exceeded"} \in Notes
    BY <1>1 DEF GiveUp, Notes
  <2> QED
    BY <2>1, ReturnStep
<1>2. CASE Receive
  <2> DEFINE printed == Block(reader.hits)
             note == Noted(reader)
  <2>1. /\ reader # ReaderRest /\ WalkHonest(reader) /\ ~ reader.late
        /\ reader.corrupt => reader.hits = << >>
        /\ reader.k \in Nat \ {0} /\ Return(printed, note)
    BY <1>2 DEF Receive, RecallInv, ReaderInv, ReaderTypes, ReaderRest
  <2>2. CASE reader.corrupt
    <3>1. printed = << >> /\ note = {"failure"}
      BY <2>1, <2>2, NothingToPrint DEF Noted
    <3>2. note \in Notes /\ note # {} /\ "n" \notin note
      BY <3>1 DEF Notes
    <3> QED
      BY <2>1, <3>1, <3>2, ReturnStep
  <2>3. CASE ~ reader.corrupt /\ printed = << >>
    <3>1. note = IF reader.capped THEN {"capped"} ELSE {}
      BY <2>3 DEF Noted
    <3>2. note \in Notes \cup {{}} /\ "n" \notin note
      BY <3>1 DEF Notes
    <3>3. ASSUME note = {} PROVE reader.steady = {} \/ reader.hits # << >>
      <4>1. ~ reader.capped
        BY <3>1, <3>3
      <4>2. ASSUME reader.hits = << >> PROVE reader.steady = {}
        <5>1. ~ (Len(reader.hits) >= reader.k) /\ ToSet(reader.hits) = {}
          BY <2>1, <4>2 DEF ToSet
        <5> QED
          BY <2>1, <2>3, <4>1, <5>1 DEF WalkHonest
      <4> QED
        BY <4>2
    <3> HIDE DEF note, printed
    <3> QED
      BY <2>1, <2>3, <3>2, <3>3, ReturnStep
  <2>4. CASE ~ reader.corrupt /\ printed # << >>
    <3>1. note = {"n"} \cup (IF reader.capped THEN {"capped"} ELSE {})
      BY <2>4 DEF Noted
    <3>2. note \in Notes /\ "n" \in note
      BY <3>1 DEF Notes
    <3> HIDE DEF note, printed
    <3> QED
      BY <2>1, <2>4, <3>2, ReturnStep
  <2> QED
    BY <2>2, <2>3, <2>4
<1> QED
  BY <1>1, <1>2

-----------------------------------------------------------------------------
(* The turns that drift is explained by.                                   *)

LEMMA GreatestIs ==
  ASSUME NEW S \in SUBSET Nat, S # {}, NEW n \in Nat, \A x \in S : x <= n
  PROVE  Max(S) \in S /\ \A y \in S : Max(S) >= y
<1>1. \E x \in S : \A y \in S : x >= y
  BY GreatestOf
<1> QED
  BY <1>1 DEF Max

LEMMA RecordedStep ==
  ASSUME RecallInv, now \in Nat, NEW q \in Paths, Recorded(q)
  PROVE  DriftInv' /\ UNCHANGED <<mem, archive, tree, now, reader, hook, stats>>
<1> DEFINE T == [path : Paths, after : Contents \cup {Gone}, ended : Nat]
<1>1. UNCHANGED <<mem, archive, tree, now, reader, hook, stats>>
  BY DEF Recorded, RecallUnchanged
<1>2. PICK t : t = [path |-> q, after |-> tree[q], ended |-> now]
  OBVIOUS
<1>3. t \in T /\ t.ended = now
  BY <1>2 DEF RecallInv
<1>4. turns \in Seq(T) /\ turns' = Append(turns, t)
  BY <1>2 DEF Recorded, RecallInv, DriftInv
<1>5. \A i \in DOMAIN turns : turns[i].ended <= now
  BY DEF RecallInv, DriftInv
<1>6. \A i, j \in DOMAIN turns : i < j => turns[i].ended <= turns[j].ended
  BY DEF RecallInv, DriftInv
<1>7. turns' \in Seq(T)
  <2> HIDE DEF T
  <2> QED
    BY <1>3, <1>4
<1>8. /\ Len(turns) \in Nat /\ DOMAIN turns = 1 .. Len(turns)
      /\ DOMAIN turns' = 1 .. Len(turns) + 1 /\ turns'[Len(turns) + 1] = t
      /\ \A i \in 1 .. Len(turns) : turns'[i] = turns[i]
  <2> HIDE DEF T
  <2> QED
    BY <1>3, <1>4
<1>9. \A i \in DOMAIN turns' : turns'[i].ended <= now
  <2>1. ASSUME NEW i \in DOMAIN turns' PROVE turns'[i].ended <= now
    <3>1. CASE i \in DOMAIN turns
      BY <1>5, <1>8, <3>1
    <3>2. CASE i = Len(turns) + 1
      BY <1>3, <1>8, <3>2
    <3> QED
      BY <1>8, <3>1, <3>2
  <2> QED
    BY <2>1
<1>10. ASSUME NEW i \in DOMAIN turns', NEW j \in DOMAIN turns', i < j
       PROVE  turns'[i].ended <= turns'[j].ended
  <2>1. i \in DOMAIN turns
    BY <1>8, <1>10
  <2>2. CASE j \in DOMAIN turns
    BY <1>6, <1>8, <1>10, <2>1, <2>2
  <2>3. CASE j = Len(turns) + 1
    BY <1>3, <1>5, <1>8, <2>1, <2>3
  <2> QED
    BY <1>8, <2>2, <2>3
<1> QED
  BY <1>1, <1>7, <1>9, <1>10 DEF DriftInv

(* The last record of a chain has a time.                                  *)
LEMMA LastHasTime ==
  ASSUME LedgerInv, IsFiniteSet(mem.records), NEW m \in LoadEffective
  PROVE  m.ts \in Nat
<1>1. PICK id \in Ids(mem.records) : m = Effective(mem.records, id)
  BY DEF LoadEffective
<1> DEFINE C == Chain(mem.records, id)
           key(r) == 3 * r.ts + Rank(r.op)
           S == {key(r) : r \in C}
<1>2. C # {} /\ C \subseteq mem.records
  BY <1>1 DEF Ids, Chain
<1>3. \A r \in C : r.ts \in Nat /\ r.ts <= now /\ Rank(r.op) \in 0 .. 2 /\ now \in Nat
  BY <1>2 DEF LedgerInv, LedgerTypes, IsRecord, Ops, Rank
<1>4. \A r \in C : key(r) \in Nat /\ key(r) <= 3 * now + 2
  BY <1>3
<1>5. S \in SUBSET Nat /\ S # {} /\ \A x \in S : x <= 3 * now + 2
  BY <1>2, <1>4
<1>6. PICK r \in C : \A s \in C : key(r) >= key(s)
  <2>1. PICK x \in S : \A y \in S : x >= y
    <3>1. 3 * now + 2 \in Nat
      BY DEF LedgerInv, LedgerTypes
    <3> HIDE DEF S
    <3> QED
      BY <1>5, <3>1, GreatestOf
  <2> QED
    BY <2>1
<1>7. \A s \in C : ~ Earlier(r, s)
  BY <1>3, <1>6 DEF Earlier
<1>8. Latest(C) \in C
  BY <1>7 DEF Latest
<1> QED
  BY <1>1, <1>3, <1>8 DEF Effective

LEMMA DriftIsExplained ==
  ASSUME LedgerInv, RecallInv
  PROVE  DriftHonest
<1>1. SUFFICES ASSUME NEW m \in Rows, NEW q \in Drifted(m),
                      LastTurn(q) # 0, turns[LastTurn(q)].after = tree[q]
               PROVE  \/ DriftTurn(q, m.ts) = LastTurn(q)
                      \/ tree[q] = Gone /\ DriftTurn(q, m.ts) = 0
  BY DEF DriftHonest
<1> DEFINE at == {i \in DOMAIN turns : turns[i].path = q}
           producers == {i \in at : tree[q] # Gone /\ turns[i].after = tree[q]}
           since == {i \in at : turns[i].ended >= m.ts}
           last == LastTurn(q)
<1>2. m.ts \in Nat
  BY LastHasTime DEF Rows, Living, RecallInv
<1>3. DOMAIN turns = 1 .. Len(turns) /\ Len(turns) \in Nat
  BY DEF RecallInv, DriftInv
<1>4. \A i \in DOMAIN turns : turns[i].ended \in Nat
  <2> DEFINE T == [path : Paths, after : Contents \cup {Gone}, ended : Nat]
  <2>1. turns \in Seq(T)
    BY DEF RecallInv, DriftInv
  <2>2. \A t \in T : t.ended \in Nat
    OBVIOUS
  <2> HIDE DEF T
  <2>3. \A i \in DOMAIN turns : turns[i] \in T
    BY <2>1
  <2> QED
    BY <2>2, <2>3
<1>5. \A i, j \in DOMAIN turns : i < j => turns[i].ended <= turns[j].ended
  BY DEF RecallInv, DriftInv
<1>6. last \in at /\ \A i \in at : last >= i
  <2>1. {0} \cup at \in SUBSET Nat /\ \A i \in {0} \cup at : i <= Len(turns)
    BY <1>3
  <2>2. last \in {0} \cup at /\ \A i \in {0} \cup at : last >= i
    BY <1>3, <2>1, GreatestIs DEF LastTurn
  <2> QED
    BY <1>1, <2>2
<1>7. ASSUME NEW S \in SUBSET ({0} \cup at), last \in S
      PROVE  Max(S) = last
  <2>1. S \in SUBSET Nat /\ S # {} /\ \A i \in S : i <= Len(turns)
    BY <1>3, <1>7
  <2>2. Max(S) \in S /\ \A i \in S : Max(S) >= i
    BY <1>3, <2>1, GreatestIs
  <2>3. \A i \in S : last >= i
    BY <1>3, <1>6
  <2>4. Max(S) >= last /\ last >= Max(S) /\ last \in Nat /\ Max(S) \in Nat
    BY <1>7, <2>1, <2>2, <2>3
  <2> QED
    BY <2>4
<1>8. DriftTurn(q, m.ts) = IF producers # {} THEN Max(producers) ELSE Max({0} \cup since)
  BY DEF DriftTurn
<1>9. CASE tree[q] # Gone
  <2>1. last \in producers
    BY <1>1, <1>6, <1>9
  <2>2. Max(producers) = last
    BY <1>7, <2>1
  <2> QED
    BY <1>8, <2>1, <2>2
<1>10. CASE tree[q] = Gone
  <2>1. producers = {}
    BY <1>10
  <2>2. CASE last \in since
    <3>1. Max({0} \cup since) = last
      BY <1>7, <2>2
    <3> QED
      BY <1>8, <2>1, <3>1
  <2>3. CASE last \notin since
    <3>1. ASSUME NEW i \in since PROVE FALSE
      <4>1. i \in at /\ i <= last /\ turns[i].ended >= m.ts
        BY <1>3, <1>6
      <4>2. turns[i].ended <= turns[last].ended
        BY <1>3, <1>4, <1>5, <1>6, <4>1
      <4>3. turns[last].ended >= m.ts
        BY <1>2, <1>4, <1>6, <4>1, <4>2
      <4> QED
        BY <1>6, <2>3, <4>3
    <3>2. {0} \cup since = {0}
      BY <3>1
    <3>3. Max({0}) = 0
      BY DEF Max
    <3> QED
      BY <1>8, <1>10, <2>1, <3>2, <3>3
  <2> QED
    BY <2>2, <2>3
<1> QED
  BY <1>9, <1>10

-----------------------------------------------------------------------------
(* The ledger while it is read.                                            *)

LEMMA KeptByAppend ==
  ASSUME RecallInv, NEW p, AppendLocked(p)
  PROVE  Kept
<1>1. PICK r : AppendRecord(r)
  BY DEF AppendLocked
<1>2. archive' = archive
  BY DEF AppendLocked
<1>3. mem'.records = mem.records \/ mem'.records = mem.records \cup {r}
  BY <1>1 DEF AppendRecord
<1>4. IsFiniteSet(mem.records) /\ IsFiniteSet(mem.records \cup {r})
  BY FS_AddElement DEF RecallInv
<1> QED
  BY <1>2, <1>3, <1>4 DEF Kept

(* Only the ledger and the time go on.                                     *)
LEMMA Waits ==
  ASSUME LedgerInv, RecallInv, Kept, UNCHANGED <<reader, tree, recallVars>>,
         now' \in Nat, now' >= now
  PROVE  RecallInv'
<1>1. now \in Nat
  BY DEF LedgerInv, LedgerTypes
<1>2. ReaderInv' /\ HookInv' /\ DriftInv'
  BY <1>1, ReaderWaits, HookWaits, TurnsWait DEF recallVars
<1> QED
  BY <1>2 DEF RecallInv, Kept

LEMMA WaitsStill ==
  ASSUME LedgerInv, RecallInv, mem'.records = mem.records,
         UNCHANGED <<archive, now, reader, tree, recallVars>>
  PROVE  RecallInv'
<1>1. Kept /\ now' \in Nat /\ now' >= now
  BY DEF Kept, RecallInv, LedgerInv, LedgerTypes
<1> QED
  BY <1>1, Waits

LEMMA RecallOfLedger ==
  ASSUME LedgerInv, RecallInv, LedgerNext \/ PurgeDecide, UNCHANGED recallVars
  PROVE  RecallInv'
<1>m. mem' = mem => mem'.records = mem.records
  OBVIOUS
<1>1. ASSUME NEW p, NEW r, Intend(p, r) PROVE RecallInv'
  BY <1>1, <1>m, WaitsStill DEF Intend
<1>2. ASSUME NEW p, KillWriter(p) PROVE RecallInv'
  <2>1. mem'.records = mem.records
    BY <1>2 DEF KillWriter, TearRecord, LedgerInv, LedgerTypes
  <2> QED
    BY <1>2, <2>1, WaitsStill DEF KillWriter
<1>3. ASSUME NEW p, AppendLocked(p) PROVE RecallInv'
  <2>1. UNCHANGED <<now, reader, tree>>
    BY <1>3 DEF AppendLocked
  <2>2. Kept /\ now' \in Nat /\ now' >= now
    BY <1>3, <2>1, KeptByAppend DEF LedgerInv, LedgerTypes
  <2> QED
    BY <2>1, <2>2, Waits
<1>4. CASE PurgeDecide \/ KillPurge
  BY <1>4, <1>m, WaitsStill DEF PurgeDecide, KillPurge, PurgeUnchanged
<1>5. CASE PurgeArchive
  <2>1. Kept /\ UNCHANGED <<now, reader, tree>>
    BY <1>5 DEF PurgeArchive, PurgeUnchanged, Kept, RecallInv
  <2>2. now' \in Nat /\ now' >= now
    BY <2>1 DEF LedgerInv, LedgerTypes
  <2> QED
    BY <2>1, <2>2, Waits
<1>6. CASE PurgeRewrite
  <2>1. mem'.records = purge.keep /\ UNCHANGED <<archive, now, reader, tree>>
    BY <1>6 DEF PurgeRewrite, PurgeUnchanged, LedgerInv, LedgerTypes
  <2>2. purge.take \cup purge.keep = mem.records /\ purge.take \subseteq archive
    BY <1>6 DEF PurgeRewrite, LedgerInv, PurgeInv
  <2>3. IsFiniteSet(purge.keep)
    BY <2>2, FS_Subset DEF RecallInv
  <2>4. Kept /\ now' \in Nat /\ now' >= now
    BY <2>1, <2>2, <2>3 DEF Kept, LedgerInv, LedgerTypes
  <2> QED
    BY <2>1, <2>4, Waits
<1>7. CASE Tick
  <2>1. Kept /\ UNCHANGED <<reader, tree>>
    BY <1>7 DEF Tick, Kept, RecallInv
  <2>2. now' \in Nat /\ now' >= now
    BY <1>7 DEF Tick, LedgerInv, LedgerTypes
  <2> QED
    BY <2>1, <2>2, Waits
<1>8. ASSUME NEW q \in Paths, NEW c \in Contents \cup {Gone}, Edit(q, c) PROVE RecallInv'
  <2>1. UNCHANGED <<mem, now>>
    BY <1>8 DEF Edit
  <2>2. HookInv' /\ DriftInv'
    BY <2>1, HookWaits, TurnsWait DEF recallVars, LedgerInv, LedgerTypes
  <2> QED
    BY <1>8, <2>1, <2>2, EditStep DEF RecallInv
<1> QED
  BY <1>1, <1>2, <1>3, <1>4, <1>5, <1>6, <1>7, <1>8
  DEF LedgerNext, Remember, Verify, Forget, VerifyReplacing

(* The reader goes on, and nobody else.                                    *)
LEMMA ReaderGoes ==
  ASSUME LedgerInv, RecallInv, ReaderInv', HookInv', UNCHANGED <<mem, archive, tree, now, turns>>
  PROVE  RecallInv'
<1>1. DriftInv'
  BY TurnsWait DEF LedgerInv, LedgerTypes
<1> QED
  BY <1>1 DEF RecallInv

LEMMA RecallOfRecall ==
  ASSUME LedgerInv, RecallInv, RecallNext
  PROVE  RecallInv'
<1>1. ASSUME NEW k \in 1 .. K, Recall(k) PROVE RecallInv'
  <2>1. ReaderInv' /\ UNCHANGED <<mem, archive, tree, now, recallVars>>
    BY <1>1, LoadStep DEF Recall
  <2> QED
    BY <2>1, HookWaits, ReaderGoes DEF recallVars
<1>2. ASSUME NEW k \in 1 .. K, Inject(k) PROVE RecallInv'
  <2>1. ReaderInv' /\ UNCHANGED <<mem, archive, tree, now, stats, turns>>
    BY <1>2, LoadStep DEF Inject
  <2>2. /\ hook' = [hook EXCEPT !.pc = "wait"]
        /\ {"pc", "injections"} \subseteq DOMAIN hook /\ hook.injections \in Nat
        /\ stats \in Seq(Notes) /\ HookHonest
    BY <1>2 DEF Inject, RecallInv, HookInv
  <2>3. /\ hook'.pc = "wait" /\ hook'.injections = hook.injections
        /\ {"pc", "injections"} \subseteq DOMAIN hook'
    BY <2>2
  <2>4. Summary' = Summary
    BY <2>1 DEF Summary, Count
  <2>5. HookInv'
    BY <2>1, <2>2, <2>3, <2>4 DEF HookInv, HookHonest
  <2> QED
    BY <2>1, <2>5, ReaderGoes
<1>3. CASE Step /\ UNCHANGED recallVars
  <2>1. ReaderInv' /\ UNCHANGED <<mem, archive, tree, now>>
    BY <1>3, StepStep DEF Step, RecallUnchanged
  <2> QED
    BY <1>3, <2>1, HookWaits, ReaderGoes DEF recallVars
<1>4. CASE Answer
  <2>1. ReaderInv' /\ UNCHANGED <<mem, archive, tree, now, recallVars>>
    BY <1>4, AnswerStep DEF Answer, RecallUnchanged
  <2> QED
    BY <2>1, HookWaits, ReaderGoes DEF recallVars
<1>5. CASE RecallEnd
  <2>1. ReaderInv' /\ UNCHANGED <<mem, archive, tree, now, recallVars>>
    BY <1>5 DEF RecallEnd, RecallUnchanged, ReaderInv
  <2> QED
    BY <2>1, HookWaits, ReaderGoes DEF recallVars
<1>6. CASE Late
  <2>1. ReaderInv' /\ UNCHANGED <<mem, archive, tree, now, recallVars>>
    BY <1>6, LateStep DEF Late, RecallUnchanged
  <2> QED
    BY <2>1, HookWaits, ReaderGoes DEF recallVars
<1>7. CASE GiveUp \/ Receive
  BY <1>7, HookReturns, ReaderGoes
<1>8. ASSUME NEW q \in Paths, Recorded(q) PROVE RecallInv'
  <2>1. DriftInv' /\ UNCHANGED <<mem, archive, tree, now, reader, hook, stats>>
    BY <1>8, RecordedStep DEF LedgerInv, LedgerTypes
  <2>2. Kept
    BY <2>1 DEF Kept, RecallInv
  <2>3. ReaderInv' /\ HookInv'
    BY <2>1, <2>2, ReaderWaits, HookWaits
  <2> QED
    BY <2>1, <2>3 DEF RecallInv
<1> QED
  BY <1>1, <1>2, <1>3, <1>4, <1>5, <1>6, <1>7, <1>8 DEF RecallNext

LEMMA RecallOfInbox ==
  ASSUME LedgerInv, RecallInv, InboxNext, UNCHANGED recallVars
  PROVE  RecallInv'
<1>m. mem' = mem => mem'.records = mem.records
  OBVIOUS
<1>1. CASE Hook
  <2>1. UNCHANGED <<mem, archive, now, reader, tree>>
    BY <1>1 DEF Hook, HookLine, HookBegin, HookEnd, HookDies, HookUnchanged, ledger
  <2> QED
    BY <1>m, <2>1, WaitsStill
<1>2. CASE Boot \/ GapScan \/ ReplayDone \/ Poll \/ PassLine \/ Stop
  <2>1. UNCHANGED <<mem, archive, now, reader, tree>>
    BY <1>2 DEF Boot, GapScan, ReplayDone, Poll, PassLine, Stop, ledger
  <2> QED
    BY <1>m, <2>1, WaitsStill
<1>3. CASE CutArchive \/ CutRecheck \/ CutRename \/ CutRebase \/ KillCutter
  <2>1. UNCHANGED <<mem, archive, now, reader, tree>>
    BY <1>3 DEF CutArchive, CutRecheck, CutRename, CutRebase, KillCutter, CutUnchanged, ledger
  <2> QED
    BY <1>m, <2>1, WaitsStill
<1>4. CASE IngestLine
  <2>1. UNCHANGED <<mem, archive, now, reader, tree>>
    BY <1>4 DEF IngestLine, Ingest
  <2> QED
    BY <1>m, <2>1, WaitsStill
<1>5. CASE Crash
  <2>1. mem'.records = mem.records
    BY <1>5 DEF Crash, TearRecord, LedgerInv, LedgerTypes
  <2>2. UNCHANGED <<archive, now, reader, tree>>
    BY <1>5 DEF Crash
  <2> QED
    BY <2>1, <2>2, WaitsStill
<1> QED
  BY <1>1, <1>2, <1>3, <1>4, <1>5 DEF InboxNext

LEMMA RecallContinues == LedgerInv /\ RecallInv /\ [Next]_vars => RecallInv'
<1> SUFFICES ASSUME LedgerInv, RecallInv, [Next]_vars PROVE RecallInv'
  OBVIOUS
<1>1. CASE Next
  BY <1>1, RecallOfLedger, RecallOfRecall, RecallOfInbox DEF Next
<1>2. CASE UNCHANGED vars
  <2>1. UNCHANGED <<mem, archive, now, reader, tree, recallVars>>
    BY <1>2 DEF vars, ledger
  <2> QED
    BY <2>1, WaitsStill
<1> QED
  BY <1>1, <1>2

LEMMA RecallBegins == Init => RecallInv
<1> SUFFICES ASSUME Init PROVE RecallInv
  OBVIOUS
<1>1. /\ reader = ReaderRest /\ hook = HookRest /\ stats = << >> /\ turns = << >>
      /\ tree \in [Paths -> Contents] /\ left.memories \in Nat
  BY LedgerAssumption DEF Init, LedgerInit, RecallInit
<1>2. PICK fact, S : mem = [records |-> Remembered(fact, S), torn |-> FALSE, corrupt |-> FALSE]
  BY DEF Init, LedgerInit
<1>3. IsFiniteSet(mem.records)
  <2> DEFINE N == 1 .. left.memories
             f == [n \in N |-> [ id |-> left.asserts + n, op |-> "assert", fact |-> fact[n],
                                 pins |-> Hashed(S[n]), ts |-> 0 ]]
  <2>1. f \in Surjection(N, Remembered(fact, S))
    BY DEF Surjection, Remembered
  <2>2. IsFiniteSet(N)
    BY <1>1, FS_Interval
  <2> QED
    BY <1>2, <2>1, <2>2, FS_Surjection
<1>4. ReaderInv
  BY <1>1 DEF ReaderInv
<1>5. HookInv
  <2>1. \A S_1 : Count(S_1) = 0
    <3>1. ASSUME NEW S_1 PROVE Count(S_1) = 0
      <4>1. {i \in DOMAIN stats : stats[i] \in S_1} = {}
        BY <1>1
      <4> QED
        BY <4>1, FS_EmptySet DEF Count
    <3> QED
      BY <3>1
  <2>2. /\ Summary.injected = 0 /\ Summary.budget_exceeded = 0 /\ Summary.failure = 0
        /\ Summary.capped_empty = 0
    BY <2>1 DEF Summary
  <2>3. /\ hook.pc = "rest" /\ hook.injections = 0 /\ {"pc", "injections"} \subseteq DOMAIN hook
    BY <1>1 DEF HookRest
  <2>4. stats \in Seq(Notes) /\ Len(stats) = 0
    BY <1>1
  <2> QED
    BY <2>2, <2>3, <2>4 DEF HookInv, HookHonest
<1>6. DriftInv
  BY <1>1 DEF DriftInv
<1> QED
  BY <1>1, <1>3, <1>4, <1>5, <1>6 DEF RecallInv

(* What is said of the memories is what can be said of them (INV-M2,       *)
(* INV-M4), while the ledger and the files change under the reader: a walk *)
(* that found less than it was asked for and does not say that it was cut  *)
(* short has found all that stayed fresh, "no memories yet" is not said    *)
(* while a memory that was read is in the ledger, a hook that prints       *)
(* nothing has noted why (recall_impl, inject_memory, recall_stats), and   *)
(* drift is put down to the turn that changed the file (find_drift_turn).  *)
THEOREM RecallsAreHonest == Spec => []RecallHonest
<1>1. Init => LedgerInv /\ RecallInv
  BY Begins, RecallBegins
<1>2. (LedgerInv /\ RecallInv) /\ [Next]_vars => (LedgerInv /\ RecallInv)'
  BY Continues, RecallContinues
<1>3. LedgerInv /\ RecallInv => RecallHonest
  <2> SUFFICES ASSUME LedgerInv, RecallInv PROVE RecallHonest
    OBVIOUS
  <2>1. DriftHonest
    BY DriftIsExplained
  <2>2. HookHonest
    BY DEF RecallInv, HookInv
  <2>3. reader # ReaderRest => /\ reader.pc # "walk" => WalkHonest(reader)
                               /\ EmptyHonest(reader)
    BY DEF RecallInv, ReaderInv
  <2> QED
    BY <2>1, <2>2, <2>3 DEF RecallHonest
<1> QED
  BY <1>1, <1>2, <1>3, PTL DEF Spec
=============================================================================
