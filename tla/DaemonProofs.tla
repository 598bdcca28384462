---------------------------- MODULE DaemonProofs ----------------------------
(***************************************************************************)
(* What the daemon promises across crashes, for every bound of an          *)
(* exploration, window and number of lines.                                *)
(*                                                                         *)
(* No line reaches the engine twice, and a signal that can be told from    *)
(* its resends has one effect with them (AppliedOnce). The daemon          *)
(* remembers the key of the last signal it marked and nothing older. That  *)
(* is enough because emissions with a key are in order in the inbox, and   *)
(* the lines that are not passed yet are not earlier than the mark. So     *)
(* such a line is of the marked emission or of a later one, and what was   *)
(* applied with a mark is not later than the mark (KeyInv).                *)
(*                                                                         *)
(* One record for one turn (LoggedOnce), if a poll finds no more lines     *)
(* than already_logged's window has room for. The ids of the log, of the   *)
(* queue and of the engine are apart (TurnsInv); so only recover_orphan    *)
(* could log a turn again, and it finds the record of the journal's turn   *)
(* among the last ones, because few are appended before the journal is     *)
(* written anew (WindowInv).                                               *)
(*                                                                         *)
(* A journaled turn stays on disk (JournaledSurvives), if no candidate is  *)
(* handled while a turn waits that a git transition has closed: what the   *)
(* journal holds is in the log, in the queue or in the engine, and the     *)
(* journal is written anew when only the open turn is not in the log       *)
(* (MirrorInv).                                                            *)
(***************************************************************************)
EXTENDS RecorderDaemon, FiniteSetTheorems, SequenceTheorems, TLAPS

Lines ==
  [kind : {"start", "stop", "candidate"}, em : Nat, turn : Nat \cup {None}, event : BOOLEAN]

LastEm == Cardinality(Emissions)

Key == IF lastKey = None THEN 0 ELSE lastKey

(* The lines that will not be handed to the engine any more: all that are  *)
(* there before the gap is scanned, those of the gap, and then those that  *)
(* have been handled.                                                      *)
BeforeScan == {"down", "recover", "unjournal", "scan"}

Passed ==
  IF pc \in BeforeScan THEN Len(inbox)
  ELSE IF pc = "replay" THEN upto
  ELSE upto - Len(batch)

(* A signal whose resends the daemon can tell.                             *)
Marked(s) == Keyed(s) /\ s.em \notin unmarked

InboxInv ==
  /\ inbox \in Seq(Lines)
  /\ LastEm \in Nat /\ Emissions = 1 .. LastEm
  /\ \A i, j \in DOMAIN inbox : inbox[i].em = inbox[j].em => inbox[i] = inbox[j]
  /\ \A i, j \in DOMAIN inbox :
       i <= j /\ Keyed(inbox[i]) /\ Keyed(inbox[j]) => inbox[i].em <= inbox[j].em
  /\ max \in Bounds

BatchInv ==
  /\ batch \in Seq(Lines)
  /\ upto \in 0 .. Len(inbox) /\ Len(batch) <= upto
  /\ \A i \in DOMAIN batch : batch[i] = inbox[(upto - Len(batch)) + i]
  /\ offset \in 0 .. Len(inbox)
  /\ pc \in {"apply", "ingest"} => batch # << >>
  /\ pc = "persist" => after \in {"signals", "sync", "unmirror"}

MarkInv ==
  /\ lastKey = None \/ \E j \in DOMAIN inbox : Keyed(inbox[j]) /\ inbox[j].em = lastKey
  /\ \A j \in DOMAIN inbox : j > Passed /\ Keyed(inbox[j]) => Key <= inbox[j].em

AppliedInv ==
  /\ applied \in Seq(Nat)
  /\ \A i \in DOMAIN applied : applied[i] \in 1 .. Passed
  /\ \A i, j \in DOMAIN applied : i < j => applied[i] < applied[j]
  /\ \A i \in DOMAIN applied : Marked(inbox[applied[i]]) => inbox[applied[i]].em <= Key
  /\ pc = "apply" /\ Marked(Head(batch)) =>
       /\ lastKey = Head(batch).em
       /\ \A i \in DOMAIN applied : Marked(inbox[applied[i]]) => inbox[applied[i]].em < Key
  /\ AppliedOnce

KeyInv == InboxInv /\ BatchInv /\ MarkInv /\ AppliedInv

-----------------------------------------------------------------------------
(* What follows from the invariant at once.                                *)

LEMMA Indices ==
  ASSUME InboxInv, BatchInv
  PROVE  /\ Len(inbox) \in Nat /\ DOMAIN inbox = 1 .. Len(inbox)
         /\ Len(batch) \in Nat /\ DOMAIN batch = 1 .. Len(batch)
         /\ upto \in Nat /\ upto <= Len(inbox)
         /\ Passed \in Nat /\ Passed <= Len(inbox)
<1>1. /\ Len(inbox) \in Nat /\ DOMAIN inbox = 1 .. Len(inbox)
      /\ Len(batch) \in Nat /\ DOMAIN batch = 1 .. Len(batch)
      /\ upto \in Nat /\ upto <= Len(inbox) /\ Len(batch) <= upto
  BY DEF InboxInv, BatchInv
<1>2. upto - Len(batch) \in Nat /\ upto - Len(batch) <= Len(inbox)
  BY <1>1
<1>3. Passed \in {Len(inbox), upto, upto - Len(batch)}
  BY DEF Passed
<1> QED
  BY <1>1, <1>2, <1>3

(* An emission in the inbox is one of those that have been made.           *)
LEMMA EmissionsUpTo ==
  ASSUME InboxInv, NEW j \in DOMAIN inbox
  PROVE  inbox[j].em \in 1 .. LastEm
<1>1. inbox[j].em \in Emissions
  BY DEF Emissions, Range
<1> QED
  BY <1>1 DEF InboxInv

LEMMA KeyType ==
  ASSUME InboxInv, MarkInv
  PROVE  Key \in Nat /\ (lastKey # None => Key = lastKey /\ lastKey \in 1 .. LastEm)
<1>1. CASE lastKey = None
  BY <1>1 DEF Key
<1>2. CASE lastKey # None
  <2>1. PICK j \in DOMAIN inbox : inbox[j].em = lastKey
    BY <1>2 DEF MarkInv
  <2>2. lastKey \in 1 .. LastEm /\ LastEm \in Nat
    BY <2>1, EmissionsUpTo DEF InboxInv
  <2> QED
    BY <1>2, <2>2 DEF Key
<1> QED
  BY <1>1, <1>2

(* The first line of the batch is the next one of the inbox.               *)
LEMMA NextLine ==
  ASSUME InboxInv, BatchInv, batch # << >>, pc \notin BeforeScan, pc # "replay"
  PROVE  /\ Passed = upto - Len(batch)
         /\ Passed + 1 \in DOMAIN inbox /\ Head(batch) = inbox[Passed + 1]
<1>1. Passed = upto - Len(batch)
  BY DEF Passed
<1>2. /\ Len(inbox) \in Nat /\ DOMAIN inbox = 1 .. Len(inbox)
      /\ Len(batch) \in Nat /\ DOMAIN batch = 1 .. Len(batch)
      /\ upto \in Nat /\ upto <= Len(inbox)
  BY Indices
<1>3. Len(batch) # 0 /\ Head(batch) = batch[1] /\ Len(batch) <= upto
  BY DEF BatchInv
<1>4. 1 \in DOMAIN batch /\ (upto - Len(batch)) + 1 \in 1 .. Len(inbox)
  BY <1>2, <1>3
<1>5. batch[1] = inbox[(upto - Len(batch)) + 1]
  BY <1>4 DEF BatchInv
<1> QED
  BY <1>1, <1>2, <1>3, <1>4, <1>5

-----------------------------------------------------------------------------
(* Steps.                                                                  *)

SameKeys == UNCHANGED <<inbox, lastKey, applied, unmarked, max>>

LEMMA SameInbox ==
  ASSUME InboxInv, UNCHANGED <<inbox, max>>
  PROVE  InboxInv' /\ LastEm' = LastEm
<1>1. Emissions' = Emissions
  BY DEF Emissions
<1>2. LastEm' = LastEm
  BY <1>1 DEF LastEm
<1> QED
  BY <1>1, <1>2 DEF InboxInv, Keyed, IsBoundary

(* Lines are passed by, or nothing of what KeyInv speaks of changes.       *)
LEMMA Handled ==
  ASSUME KeyInv, SameKeys, BatchInv', Passed' \in Nat, Passed <= Passed',
         pc' = "apply" => pc = "apply" /\ batch' = batch
  PROVE  KeyInv'
<1>1. InboxInv /\ BatchInv /\ MarkInv /\ AppliedInv
  BY DEF KeyInv
<1>2. InboxInv'
  BY <1>1, SameInbox DEF SameKeys
<1>3. Key' = Key /\ inbox' = inbox /\ applied' = applied /\ unmarked' = unmarked
      /\ lastKey' = lastKey
  BY DEF Key, SameKeys
<1>4. Passed \in Nat /\ DOMAIN inbox \subseteq Nat
  BY <1>1, Indices
<1>5. MarkInv'
  <2>1. \A j \in DOMAIN inbox : j > Passed' => j > Passed
    BY <1>4
  <2> QED
    BY <1>1, <1>3, <2>1 DEF MarkInv, Keyed, IsBoundary
<1>6. AppliedInv'
  <2>1. \A i \in DOMAIN applied : applied[i] \in 1 .. Passed'
    BY <1>1, <1>4 DEF AppliedInv
  <2>2. AppliedOnce'
    BY <1>1, <1>3 DEF AppliedInv, AppliedOnce, Keyed, IsBoundary
  <2> QED
    BY <1>1, <1>3, <2>1, <2>2 DEF AppliedInv, Marked, Keyed, IsBoundary
<1> QED
  BY <1>1, <1>2, <1>5, <1>6 DEF KeyInv

LEMMA Tails ==
  ASSUME NEW S, NEW s \in Seq(S), s # << >>
  PROVE  /\ Tail(s) \in Seq(S) /\ Len(Tail(s)) = Len(s) - 1
         /\ DOMAIN Tail(s) = 1 .. (Len(s) - 1)
         /\ \A i \in 1 .. (Len(s) - 1) : Tail(s)[i] = s[i + 1]
<1>1. Tail(s) \in Seq(S) /\ Len(Tail(s)) = Len(s) - 1 /\ Len(s) \in Nat
  OBVIOUS
<1>2. DOMAIN Tail(s) = 1 .. (Len(s) - 1)
  BY <1>1
<1> QED
  BY <1>1, <1>2

(* The batch stays as it is or loses its first line.                       *)
LEMMA Fewer ==
  ASSUME InboxInv, BatchInv, inbox' = inbox, upto' = upto, offset' \in 0 .. Len(inbox),
         batch' = batch \/ (batch # << >> /\ batch' = Tail(batch)),
         pc' \in {"apply", "ingest"} => batch' # << >>,
         pc' = "persist" => after' \in {"signals", "sync", "unmirror"}
  PROVE  /\ BatchInv'
         /\ upto' - Len(batch') \in Nat /\ upto - Len(batch) <= upto' - Len(batch')
<1>1. /\ Len(inbox) \in Nat /\ DOMAIN inbox = 1 .. Len(inbox)
      /\ Len(batch) \in Nat /\ DOMAIN batch = 1 .. Len(batch)
      /\ upto \in Nat /\ upto <= Len(inbox) /\ Len(batch) <= upto
      /\ batch \in Seq(Lines) /\ \A i \in DOMAIN batch : batch[i] = inbox[(upto - Len(batch)) + i]
  BY Indices DEF BatchInv
<1>2. CASE batch' = batch
  BY <1>1, <1>2 DEF BatchInv
<1>3. CASE batch # << >> /\ batch' = Tail(batch)
  <2>1. /\ batch' \in Seq(Lines) /\ Len(batch') = Len(batch) - 1
        /\ DOMAIN batch' = 1 .. (Len(batch) - 1)
        /\ \A i \in 1 .. (Len(batch) - 1) : batch'[i] = batch[i + 1]
    BY <1>1, <1>3, Tails
  <2>2. ASSUME NEW i \in 1 .. (Len(batch) - 1)
        PROVE  batch'[i] = inbox[(upto - Len(batch')) + i]
    <3>1. i + 1 \in DOMAIN batch /\ (upto - Len(batch)) + (i + 1) = (upto - Len(batch')) + i
      BY <1>1, <2>1
    <3> QED
      BY <1>1, <2>1, <3>1
  <2>3. Len(batch') <= upto' /\ upto' - Len(batch') \in Nat
        /\ upto - Len(batch) <= upto' - Len(batch')
    BY <1>1, <2>1
  <2> QED
    BY <1>1, <2>1, <2>2, <2>3 DEF BatchInv
<1> QED
  BY <1>2, <1>3

(* The steps of a running daemon that neither read the inbox nor mark nor  *)
(* apply, and those of a start.                                            *)
LEMMA InLoop ==
  ASSUME KeyInv, SameKeys, UNCHANGED <<upto, offset>>,
         batch' = batch \/ (batch # << >> /\ batch' = Tail(batch)),
         pc \notin BeforeScan, pc # "replay", pc' \notin BeforeScan, pc' # "replay",
         pc' = "apply" => pc = "apply" /\ batch' = batch,
         pc' = "ingest" => batch' # << >>,
         pc' = "persist" => after' \in {"signals", "sync", "unmirror"}
  PROVE  KeyInv'
<1>1. InboxInv /\ BatchInv
  BY DEF KeyInv
<1>2. pc' \in {"apply", "ingest"} => batch' # << >>
  BY <1>1 DEF BatchInv
<1>3. /\ BatchInv'
      /\ upto' - Len(batch') \in Nat /\ upto - Len(batch) <= upto' - Len(batch')
  BY <1>1, <1>2, Fewer DEF SameKeys, BatchInv
<1>4. Passed = upto - Len(batch) /\ Passed' = upto' - Len(batch')
  BY DEF Passed
<1> QED
  BY <1>3, <1>4, Handled

LEMMA AtStart ==
  ASSUME KeyInv, SameKeys, UNCHANGED <<upto, offset, batch>>,
         pc \in BeforeScan, pc' \in BeforeScan
  PROVE  KeyInv'
<1>1. InboxInv /\ BatchInv
  BY DEF KeyInv
<1>2. BatchInv'
  <2>1. pc' \notin {"apply", "ingest", "persist"}
    BY DEF BeforeScan
  <2> QED
    BY <1>1, <2>1 DEF BatchInv, SameKeys
<1>3. Passed' = Passed /\ Passed \in Nat
  BY <1>1, Indices DEF Passed, SameKeys
<1>4. pc' # "apply"
  BY DEF BeforeScan
<1> QED
  BY <1>2, <1>3, <1>4, Handled

LEMMA Ended ==
  ASSUME KeyInv, Crash \/ StopEpoch
  PROVE  KeyInv'
<1>1. /\ SameKeys /\ offset' = offset
      /\ pc' = "down" /\ batch' = << >> /\ upto' = 0
  BY DEF Crash, StopEpoch, Die, SameKeys, disk, env, hist
<1>2. InboxInv /\ BatchInv
  BY DEF KeyInv
<1>3. Len(inbox) \in Nat /\ Passed <= Len(inbox) /\ offset \in 0 .. Len(inbox)
  BY <1>2, Indices DEF BatchInv
<1>4. BatchInv'
  BY <1>1, <1>3 DEF BatchInv, SameKeys
<1>5. Passed' = Len(inbox)
  BY <1>1 DEF Passed, BeforeScan, SameKeys
<1> QED
  BY <1>1, <1>3, <1>4, <1>5, Handled

(* The gap scan and a poll take the lines that are still to be read.       *)
LEMMA Rests ==
  ASSUME InboxInv, NEW n \in 0 .. Len(inbox)
  PROVE  LET s == SubSeq(inbox, n + 1, Len(inbox)) IN
           /\ s \in Seq(Lines) /\ Len(s) = Len(inbox) - n /\ DOMAIN s = 1 .. (Len(inbox) - n)
           /\ \A i \in DOMAIN s : s[i] = inbox[(Len(inbox) - Len(s)) + i]
<1> DEFINE s == SubSeq(inbox, n + 1, Len(inbox))
<1>1. inbox \in Seq(Lines) /\ Len(inbox) \in Nat /\ n \in Nat /\ n <= Len(inbox)
  BY DEF InboxInv
<1>2. /\ s \in Seq(Lines) /\ Len(s) = Len(inbox) - n /\ DOMAIN s = 1 .. (Len(inbox) - n)
      /\ \A i \in 1 .. (Len(inbox) - n) : s[i] = inbox[n + i]
  BY <1>1
<1> HIDE DEF s
<1>3. Len(inbox) - Len(s) = n
  BY <1>1, <1>2
<1> QED
  BY <1>2, <1>3 DEF s

LEMMA ReadSteps ==
  ASSUME KeyInv, Scan \/ Poll
  PROVE  KeyInv'
<1>1. InboxInv /\ BatchInv
  BY DEF KeyInv
<1>2. /\ Len(inbox) \in Nat /\ upto \in 0 .. Len(inbox) /\ offset \in 0 .. Len(inbox)
      /\ Len(batch) \in Nat /\ Passed \in Nat /\ Passed <= Len(inbox)
  BY <1>1, Indices DEF BatchInv
<1>3. PICK n \in 0 .. Len(inbox) :
        /\ batch' = SubSeq(inbox, n + 1, Len(inbox)) /\ SameKeys
        /\ upto' = Len(inbox) /\ offset' \in 0 .. Len(inbox)
        /\ \/ pc' = "replay"
           \/ pc = "poll" /\ pc' = "signals" /\ n = upto
  <2>1. CASE Scan
    BY <1>2, <2>1 DEF Scan, Goto, disk, env, hist, SameKeys
  <2>2. CASE Poll
    BY <1>2, <2>2 DEF Poll, WriteOffset, Goto, hist, SameKeys
  <2> QED
    BY <2>1, <2>2
<1>4. /\ batch' \in Seq(Lines) /\ Len(batch') = Len(inbox) - n
      /\ DOMAIN batch' = 1 .. (Len(inbox) - n)
      /\ \A i \in DOMAIN batch' : batch'[i] = inbox[(Len(inbox) - Len(batch')) + i]
  BY <1>1, <1>3, Rests
<1>5. BatchInv'
  <2>1. Len(batch') <= Len(inbox)
    BY <1>2, <1>4
  <2> QED
    BY <1>2, <1>3, <1>4, <2>1 DEF BatchInv, SameKeys
<1>6. Passed' \in Nat /\ Passed <= Passed'
  <2>1. CASE pc' = "replay"
    BY <1>2, <1>3, <2>1 DEF Passed, BeforeScan
  <2>2. CASE pc = "poll" /\ pc' = "signals" /\ n = upto
    <3>1. Passed = upto - Len(batch) /\ Passed' = Len(inbox) - Len(batch')
      BY <1>3, <2>2 DEF Passed, BeforeScan
    <3> QED
      BY <1>2, <1>4, <2>2, <3>1
  <2> QED
    BY <1>3, <2>1, <2>2
<1> QED
  BY <1>3, <1>5, <1>6, Handled

(* The gap is handled; what comes after it goes to the loop.               *)
LEMMA ReplaySteps ==
  ASSUME KeyInv, ReplayLine \/ ReplayDone
  PROVE  KeyInv'
<1>1. InboxInv /\ BatchInv
  BY DEF KeyInv
<1>2. /\ pc = "replay" /\ pc' \in {"replay", "epoch"} /\ SameKeys /\ upto' = upto
      /\ batch' = batch \/ (batch # << >> /\ batch' = Tail(batch))
      /\ pc' = "epoch" => batch' = << >>
  BY DEF ReplayLine, ReplayDone, Goto, env, hist, SameKeys
<1>3. upto \in Nat /\ offset' \in 0 .. Len(inbox)
  BY <1>1, Indices DEF ReplayLine, ReplayDone, WriteOffset, BatchInv
<1>4. BatchInv'
  BY <1>1, <1>2, <1>3, Fewer DEF SameKeys
<1>5. Passed = upto /\ Passed' = upto
  <2>1. Passed = upto
    BY <1>2 DEF Passed, BeforeScan
  <2>2. CASE pc' = "replay"
    BY <1>2, <2>2 DEF Passed, BeforeScan
  <2>3. CASE pc' = "epoch"
    <3>1. batch' = << >> /\ Passed' = upto - Len(batch')
      BY <1>2, <2>3 DEF Passed, BeforeScan
    <3>2. Len(batch') = 0
      BY <3>1
    <3> QED
      BY <1>3, <2>1, <3>1, <3>2
  <2> QED
    BY <1>2, <2>1, <2>2, <2>3
<1> QED
  BY <1>2, <1>3, <1>4, <1>5, Handled

(* A signal goes on to the engine: with a mark, to an emission that was    *)
(* not applied yet; with a mark that failed; or without a key.             *)
LEMMA MarkSteps ==
  ASSUME KeyInv, Mark \/ MarkFails \/ Unkeyed
  PROVE  KeyInv'
<1>1. InboxInv /\ BatchInv /\ MarkInv /\ AppliedInv
  BY DEF KeyInv
<1>2. /\ pc = "signals" /\ pc' = "apply" /\ batch # << >>
      /\ UNCHANGED <<inbox, offset, applied, max, after, batch, upto>>
  BY DEF Mark, MarkFails, Unkeyed, Goto, disk, env, hist
<1>3. InboxInv' /\ BatchInv' /\ Passed' = Passed
  <2>1. BatchInv'
    BY <1>1, <1>2 DEF BatchInv
  <2>2. Passed' = Passed
    BY <1>2 DEF Passed, BeforeScan
  <2> QED
    BY <1>1, <1>2, <2>1, <2>2, SameInbox
<1>4. PICK l : l = Passed + 1
  OBVIOUS
<1>5. l \in DOMAIN inbox /\ Head(batch) = inbox[l] /\ DOMAIN inbox \subseteq Nat /\ Passed \in Nat
  BY <1>1, <1>2, <1>4, NextLine, Indices DEF BeforeScan
<1>6. /\ \A i \in DOMAIN applied : applied[i] \in Nat /\ applied[i] \in DOMAIN inbox
      /\ \A i \in DOMAIN applied : inbox[applied[i]].em \in Nat
  <2>1. \A i \in DOMAIN applied : applied[i] \in Nat /\ applied[i] \in DOMAIN inbox
    BY <1>1, Indices DEF AppliedInv
  <2>2. \A j \in DOMAIN inbox : inbox[j].em \in Nat
    BY <1>1, EmissionsUpTo DEF InboxInv
  <2> QED
    BY <2>1, <2>2
<1>7. CASE Mark
  <2>1. /\ Keyed(inbox[l]) /\ lastKey # inbox[l].em /\ lastKey' = inbox[l].em
        /\ unmarked' = unmarked
    BY <1>5, <1>7 DEF Mark, hist
  <2>2. inbox[l].em \in 1 .. LastEm /\ LastEm \in Nat
    BY <1>1, <1>5, EmissionsUpTo DEF InboxInv
  <2>3. Key' = inbox[l].em
    BY <2>1, <2>2, NoKeyAssumption DEF Key
  <2>4. Key \in Nat /\ Key < inbox[l].em
    <3>1. Key \in Nat /\ (lastKey # None => Key = lastKey)
      BY <1>1, KeyType
    <3>2. l > Passed
      BY <1>4, <1>5
    <3>3. Key <= inbox[l].em
      BY <1>1, <1>5, <2>1, <3>2 DEF MarkInv
    <3>4. Key # inbox[l].em
      <4>1. CASE lastKey = None
        BY <2>2, <4>1 DEF Key
      <4>2. CASE lastKey # None
        BY <2>1, <3>1, <4>2
      <4> QED
        BY <4>1, <4>2
    <3> QED
      BY <2>2, <3>1, <3>3, <3>4
  <2>5. MarkInv'
    <3>1. \A j \in DOMAIN inbox : j > Passed => l <= j
      BY <1>4, <1>5
    <3>2. \A j \in DOMAIN inbox : j > Passed /\ Keyed(inbox[j]) => inbox[l].em <= inbox[j].em
      BY <1>1, <1>5, <2>1, <3>1 DEF InboxInv
    <3> QED
      BY <1>2, <1>3, <1>5, <2>1, <2>3, <3>2 DEF MarkInv, Keyed, IsBoundary
  <2>6. AppliedInv'
    <3>1. \A i \in DOMAIN applied :
            Marked(inbox[applied[i]]) => inbox[applied[i]].em < inbox[l].em
      <4>1. \A i \in DOMAIN applied :
              Marked(inbox[applied[i]]) => inbox[applied[i]].em <= Key
        BY <1>1 DEF AppliedInv
      <4> QED
        BY <1>6, <2>2, <2>4, <4>1
    <3>2. \A i \in DOMAIN applied :
            Marked(inbox[applied[i]]) => inbox[applied[i]].em <= inbox[l].em
      BY <1>6, <2>2, <3>1
    <3>3. AppliedOnce'
      BY <1>1, <1>2, <2>1 DEF AppliedInv, AppliedOnce, Keyed, IsBoundary
    <3> QED
      BY <1>1, <1>2, <1>3, <1>5, <2>1, <2>3, <3>1, <3>2, <3>3
      DEF AppliedInv, Marked, Keyed, IsBoundary
  <2> QED
    BY <1>3, <2>5, <2>6 DEF KeyInv
<1>8. CASE MarkFails \/ Unkeyed
  <2>1. /\ lastKey' = lastKey /\ unmarked \subseteq unmarked'
        /\ Keyed(inbox[l]) => inbox[l].em \in unmarked'
    BY <1>5, <1>8 DEF MarkFails, Unkeyed, disk, hist
  <2>2. Key' = Key
    BY <2>1 DEF Key
  <2>3. MarkInv'
    BY <1>1, <1>2, <1>3, <2>1, <2>2 DEF MarkInv, Keyed, IsBoundary
  <2>4. AppliedInv'
    <3>1. AppliedOnce'
      BY <1>1, <1>2, <2>1 DEF AppliedInv, AppliedOnce, Keyed, IsBoundary
    <3>2. \A i \in DOMAIN applied' : Marked(inbox[applied[i]])' => Marked(inbox[applied[i]])
      BY <1>2, <2>1 DEF Marked, Keyed, IsBoundary
    <3>3. ~ Marked(Head(batch))'
      BY <1>2, <1>5, <2>1 DEF Marked, Keyed, IsBoundary
    <3> QED
      BY <1>1, <1>2, <1>3, <2>2, <3>1, <3>2, <3>3 DEF AppliedInv
  <2> QED
    BY <1>3, <2>3, <2>4 DEF KeyInv
<1> QED
  BY <1>7, <1>8

(* The line that comes after all that were applied.                        *)
LEMMA ApplyStep ==
  ASSUME KeyInv, ApplySignal
  PROVE  KeyInv'
<1>1. InboxInv /\ BatchInv /\ MarkInv /\ AppliedInv
  BY DEF KeyInv
<1>2. /\ pc = "apply" /\ pc' = "persist" /\ after' = "signals" /\ batch' = Tail(batch)
      /\ UNCHANGED <<inbox, offset, lastKey, unmarked, max, upto>>
      /\ applied' = Append(applied, (upto - Len(batch)) + 1)
  BY DEF ApplySignal, Goto, disk
<1>3. batch # << >>
  BY <1>1, <1>2 DEF BatchInv
<1>4. PICK l : l = Passed + 1
  OBVIOUS
<1>5. /\ l \in DOMAIN inbox /\ Head(batch) = inbox[l] /\ Passed = upto - Len(batch)
      /\ DOMAIN inbox \subseteq Nat /\ Passed \in Nat /\ l \in Nat /\ l > Passed
  BY <1>1, <1>2, <1>3, <1>4, NextLine, Indices DEF BeforeScan
<1>6. InboxInv' /\ BatchInv' /\ Passed' = l /\ Key' = Key
  <2>1. InboxInv'
    BY <1>1, <1>2, SameInbox
  <2>2. BatchInv'
    BY <1>1, <1>2, <1>3, Fewer DEF BatchInv
  <2>3. Passed' = upto - Len(Tail(batch))
    BY <1>2 DEF Passed, BeforeScan
  <2>4. Len(Tail(batch)) = Len(batch) - 1 /\ Len(batch) \in Nat /\ upto \in Nat
    BY <1>1, <1>3, Indices DEF BatchInv
  <2>5. Passed' = l
    <3>1. PICK m, b : m = Len(Tail(batch)) /\ b = Len(batch)
      OBVIOUS
    <3>2. Passed' = upto - m /\ m = b - 1 /\ b \in Nat /\ upto \in Nat /\ Passed = upto - b
      BY <1>5, <2>3, <2>4, <3>1
    <3>3. upto - m = (upto - b) + 1
      BY <3>2
    <3> QED
      BY <1>4, <3>2, <3>3
  <2> QED
    BY <1>2, <2>1, <2>2, <2>5 DEF Key
<1>7. MarkInv'
  <2>1. \A j \in DOMAIN inbox : j > l => j > Passed
    BY <1>5
  <2> QED
    BY <1>1, <1>2, <1>6, <2>1 DEF MarkInv, Keyed, IsBoundary
<1>8. /\ applied \in Seq(Nat) /\ Len(applied) \in Nat /\ DOMAIN applied = 1 .. Len(applied)
      /\ DOMAIN applied' = 1 .. Len(applied) + 1 /\ applied' \in Seq(Nat)
      /\ \A i \in DOMAIN applied : applied'[i] = applied[i]
      /\ applied'[Len(applied) + 1] = l
  <2>1. applied \in Seq(Nat) /\ applied' = Append(applied, l)
    BY <1>1, <1>2, <1>4, <1>5 DEF AppliedInv
  <2> QED
    BY <1>5, <2>1
<1>9. PICK n \in Nat : n = Len(applied) + 1
  BY <1>8
<1>10. /\ \A i \in DOMAIN applied' : i = n \/ (i \in DOMAIN applied /\ i < n)
       /\ n \notin DOMAIN applied /\ applied'[n] = l
  BY <1>8, <1>9
<1>11. \A i \in DOMAIN applied : /\ applied[i] \in Nat /\ applied[i] <= Passed
                                 /\ 1 <= applied[i] /\ applied[i] < l
                                 /\ applied[i] \in DOMAIN inbox
  BY <1>1, <1>5, Indices DEF AppliedInv
<1>12. Key \in Nat /\ \A j \in DOMAIN inbox : inbox[j].em \in Nat
  BY <1>1, KeyType, EmissionsUpTo DEF InboxInv
<1>13. Marked(inbox[l]) =>
         /\ inbox[l].em = Key
         /\ \A i \in DOMAIN applied :
              Marked(inbox[applied[i]]) => inbox[applied[i]].em < inbox[l].em
  <2>1. Marked(inbox[l]) =>
          /\ lastKey = inbox[l].em
          /\ \A i \in DOMAIN applied : Marked(inbox[applied[i]]) => inbox[applied[i]].em < Key
    BY <1>1, <1>2, <1>5 DEF AppliedInv
  <2>2. lastKey = inbox[l].em => lastKey # None /\ Key = lastKey
    BY <1>5, <1>12, NoKeyAssumption DEF Key
  <2> QED
    BY <2>1, <2>2
<1>14. \A i \in DOMAIN applied :
         /\ Keyed(inbox[l]) /\ inbox[applied[i]].em = inbox[l].em => inbox[l].em \in unmarked
         /\ Keyed(inbox[applied[i]]) /\ inbox[l].em = inbox[applied[i]].em
              => inbox[applied[i]].em \in unmarked
  <2>1. ASSUME NEW i \in DOMAIN applied, inbox[applied[i]].em = inbox[l].em,
               Keyed(inbox[l]) \/ Keyed(inbox[applied[i]]), inbox[l].em \notin unmarked
        PROVE  FALSE
    <3>1. inbox[applied[i]] = inbox[l]
      BY <1>1, <1>5, <1>11, <2>1 DEF InboxInv
    <3>2. Marked(inbox[l]) /\ Marked(inbox[applied[i]])
      BY <2>1, <3>1 DEF Marked
    <3> QED
      BY <1>5, <1>12, <1>13, <2>1, <3>2
  <2> QED
    BY <2>1
<1>15. AppliedOnce'
  <2> SUFFICES ASSUME NEW i \in DOMAIN applied', NEW j \in DOMAIN applied', i # j
               PROVE  /\ applied'[i] # applied'[j]
                      /\ Keyed(inbox[applied'[i]])
                         /\ inbox[applied'[j]].em = inbox[applied'[i]].em
                           => inbox[applied'[i]].em \in unmarked
    BY <1>2 DEF AppliedOnce, Keyed, IsBoundary
  <2>1. CASE i \in DOMAIN applied /\ j \in DOMAIN applied
    BY <1>1, <1>8, <2>1 DEF AppliedInv, AppliedOnce
  <2>2. CASE i \in DOMAIN applied /\ j = n
    <3>1. applied'[i] = applied[i] /\ applied'[j] = l /\ applied[i] # l
      BY <1>5, <1>8, <1>10, <1>11, <2>2
    <3>2. Keyed(inbox[applied[i]]) /\ inbox[l].em = inbox[applied[i]].em
            => inbox[applied[i]].em \in unmarked
      BY <1>14, <2>2
    <3> QED
      BY <3>1, <3>2
  <2>3. CASE i = n /\ j \in DOMAIN applied
    <3>1. applied'[i] = l /\ applied'[j] = applied[j] /\ applied[j] # l
      BY <1>5, <1>8, <1>10, <1>11, <2>3
    <3>2. Keyed(inbox[l]) /\ inbox[applied[j]].em = inbox[l].em => inbox[l].em \in unmarked
      BY <1>14, <2>3
    <3> QED
      BY <3>1, <3>2
  <2> QED
    BY <1>10, <2>1, <2>2, <2>3
<1>16. AppliedInv'
  <2>1. \A i \in DOMAIN applied' : applied'[i] \in 1 .. l
    <3>1. l \in 1 .. l
      BY <1>4, <1>5
    <3>2. \A i \in DOMAIN applied : applied'[i] \in 1 .. l
      <4>1. \A i \in DOMAIN applied :
              applied[i] \in Nat /\ 1 <= applied[i] /\ applied[i] < l
        BY <1>11
      <4> QED
        BY <1>5, <1>8, <4>1
    <3> QED
      BY <1>8, <1>10, <3>1, <3>2
  <2>2. \A i, j \in DOMAIN applied' : i < j => applied'[i] < applied'[j]
    <3>1. ASSUME NEW i \in DOMAIN applied', NEW j \in DOMAIN applied', i < j
          PROVE  applied'[i] < applied'[j]
      <4>1. i \in DOMAIN applied /\ (j = n \/ j \in DOMAIN applied)
        BY <1>8, <1>9, <1>10, <3>1
      <4> QED
        BY <1>1, <1>8, <1>10, <1>11, <3>1, <4>1 DEF AppliedInv
    <3> QED
      BY <3>1
  <2>3. \A i \in DOMAIN applied' : Marked(inbox[applied'[i]]) => inbox[applied'[i]].em <= Key
    <3>1. \A i \in DOMAIN applied : Marked(inbox[applied[i]]) => inbox[applied[i]].em <= Key
      BY <1>1 DEF AppliedInv
    <3>2. Marked(inbox[l]) => inbox[l].em <= Key
      BY <1>12, <1>13
    <3> QED
      BY <1>8, <1>10, <3>1, <3>2
  <2> QED
    BY <1>2, <1>6, <1>8, <1>15, <2>1, <2>2, <2>3 DEF AppliedInv, Marked, Keyed, IsBoundary
<1> QED
  BY <1>6, <1>7, <1>16 DEF KeyInv

LEMMA DaemonSteps ==
  ASSUME KeyInv, Daemon \/ Crash
  PROVE  KeyInv'
<1>1. CASE Boot \/ RecoverAppend \/ RecoverSkip \/ RecoverRemove
  BY <1>1, AtStart
  DEF Boot, RecoverAppend, RecoverSkip, RecoverRemove, Goto, BeforeScan, SameKeys,
      disk, env, hist
<1>2. CASE StartEpoch \/ Flush \/ Sync \/ FinalSync
  BY <1>2, InLoop
  DEF StartEpoch, Flush, Sync, FinalSync, Goto, BeforeScan, SameKeys, disk, hist, env
<1>3. CASE TickTurn \/ Stopping
  BY <1>3, InLoop
  DEF TickTurn, Stopping, Goto, BeforeScan, SameKeys, disk, env, hist
<1>4. CASE Candidate
  BY <1>4, InLoop DEF Candidate, Goto, BeforeScan, SameKeys, env
<1>5. CASE IngestLine \/ DropResend \/ DropMismatched
  <2>1. KeyInv => (pc = "ingest" \/ pc = "apply" => batch # << >>)
    BY DEF KeyInv, BatchInv
  <2> QED
    BY <1>5, <2>1, InLoop
    DEF IngestLine, DropResend, DropMismatched, Goto, BeforeScan, SameKeys, disk, env, hist
<1>6. CASE Persist \/ Persisted
  <2>1. pc = "persist" => after \in {"signals", "sync", "unmirror"}
    BY DEF KeyInv, BatchInv
  <2> QED
    BY <1>6, <2>1, InLoop DEF Persist, Persisted, Goto, BeforeScan, SameKeys, disk, env, hist
<1> QED
  BY <1>1, <1>2, <1>3, <1>4, <1>5, <1>6, ReadSteps, ReplaySteps, MarkSteps, ApplyStep, Ended
  DEF Daemon

(* What was applied is still in the inbox.                                 *)
LEMMA OnceStays ==
  ASSUME AppliedOnce, UNCHANGED <<applied, unmarked>>,
         \A i \in DOMAIN applied : inbox'[applied[i]] = inbox[applied[i]]
  PROVE  AppliedOnce'
<1>1. \A i, j \in DOMAIN applied : i # j =>
        /\ applied[i] # applied[j]
        /\ Keyed(inbox[applied[i]]) /\ inbox[applied[j]].em = inbox[applied[i]].em
             => inbox[applied[i]].em \in unmarked
  BY DEF AppliedOnce
<1>2. \A i, j \in DOMAIN applied : i # j =>
        /\ applied[i] # applied[j]
        /\ Keyed(inbox'[applied[i]]) /\ inbox'[applied[j]].em = inbox'[applied[i]].em
             => inbox'[applied[i]].em \in unmarked
  BY <1>1
<1>3. DOMAIN applied' = DOMAIN applied
  OBVIOUS
<1> QED
  BY <1>2, <1>3 DEF AppliedOnce, Keyed, IsBoundary

(* Hooks append: a line that is there already, or the next emission.       *)
LEMMA Emitted ==
  ASSUME KeyInv, NEW s \in Lines, inbox' = Append(inbox, s),
         s.em \in 1 .. LastEm \/ s.em = LastEm + 1,
         \A i \in DOMAIN inbox : inbox[i].em = s.em => inbox[i] = s,
         \A i \in DOMAIN inbox : Keyed(s) /\ Keyed(inbox[i]) => inbox[i].em <= s.em,
         UNCHANGED <<offset, lastKey, applied, unmarked, max, pc, after, batch, upto>>
  PROVE  KeyInv'
<1>1. InboxInv /\ BatchInv /\ MarkInv /\ AppliedInv
  BY DEF KeyInv
<1>2. /\ Len(inbox) \in Nat /\ DOMAIN inbox = 1 .. Len(inbox) /\ inbox \in Seq(Lines)
      /\ Len(batch) \in Nat /\ DOMAIN batch = 1 .. Len(batch) /\ Len(batch) <= upto
      /\ upto \in Nat /\ upto <= Len(inbox) /\ Passed \in Nat /\ Passed <= Len(inbox)
  BY <1>1, Indices DEF InboxInv, BatchInv
<1>3. PICK n : n = Len(inbox) + 1
  OBVIOUS
<1>4. /\ inbox' \in Seq(Lines) /\ Len(inbox') = n /\ DOMAIN inbox' = 1 .. n /\ n \in Nat
      /\ \A i \in DOMAIN inbox : inbox'[i] = inbox[i] /\ i \in DOMAIN inbox'
      /\ inbox'[n] = s /\ \A i \in DOMAIN inbox' : i \in DOMAIN inbox \/ i = n
  BY <1>2, <1>3
<1>5. s.em \in Nat /\ s.em >= 1 /\ LastEm \in Nat /\ Emissions = 1 .. LastEm
  BY <1>1 DEF InboxInv
<1>6. LastEm' \in Nat /\ Emissions' = 1 .. LastEm'
  <2>1. Range(inbox') = Range(inbox) \cup {s}
    BY <1>3, <1>4 DEF Range
  <2>2. Emissions' = Emissions \cup {s.em}
    BY <2>1 DEF Emissions
  <2>3. PICK m \in Nat : Emissions' = 1 .. m
    <3>1. CASE s.em \in 1 .. LastEm
      BY <1>5, <2>2, <3>1
    <3>2. CASE s.em = LastEm + 1
      <4>1. Emissions' = 1 .. LastEm + 1
        BY <1>5, <2>2, <3>2
      <4> QED
        BY <1>5, <4>1
    <3> QED
      BY <3>1, <3>2
  <2>4. Cardinality(1 .. m) = m
    <3>1. m \in Nat
      BY <2>3
    <3>2. Cardinality(1 .. m) = IF 1 > m THEN 0 ELSE m - 1 + 1
      BY <3>1, FS_Interval
    <3> QED
      BY <3>1, <3>2
  <2> QED
    BY <2>3, <2>4 DEF LastEm
<1>7. InboxInv'
  <2>1. \A i, j \in DOMAIN inbox' : inbox'[i].em = inbox'[j].em => inbox'[i] = inbox'[j]
    BY <1>1, <1>4 DEF InboxInv
  <2>2. \A i, j \in DOMAIN inbox' :
          i <= j /\ Keyed(inbox'[i]) /\ Keyed(inbox'[j]) => inbox'[i].em <= inbox'[j].em
    <3> SUFFICES ASSUME NEW i \in DOMAIN inbox', NEW j \in DOMAIN inbox',
                        i <= j, Keyed(inbox'[i]), Keyed(inbox'[j])
                 PROVE  inbox'[i].em <= inbox'[j].em
      OBVIOUS
    <3>1. CASE j \in DOMAIN inbox
      <4>1. i \in DOMAIN inbox
        BY <1>2, <1>3, <1>4, <3>1
      <4> QED
        BY <1>1, <1>4, <3>1, <4>1 DEF InboxInv
    <3>2. CASE j = n /\ i \in DOMAIN inbox
      BY <1>4, <3>2
    <3>3. CASE j = n /\ i = n
      BY <1>4, <1>5, <3>3
    <3> QED
      BY <1>4, <3>1, <3>2, <3>3
  <2> QED
    BY <1>1, <1>4, <1>6, <2>1, <2>2 DEF InboxInv, Keyed, IsBoundary
<1>8. BatchInv'
  <2>1. \A i \in DOMAIN batch : (upto - Len(batch)) + i \in DOMAIN inbox
    BY <1>2
  <2>2. upto' \in 0 .. Len(inbox') /\ offset' \in 0 .. Len(inbox')
    BY <1>1, <1>2, <1>3, <1>4 DEF BatchInv
  <2> QED
    BY <1>1, <1>4, <2>1, <2>2 DEF BatchInv
<1>9. Passed' \in Nat /\ Passed <= Passed' /\ Key' = Key
  <2>1. Passed' = IF pc \in BeforeScan THEN n ELSE Passed
    BY <1>4 DEF Passed
  <2> QED
    BY <1>2, <1>3, <1>4, <2>1 DEF Key
<1>10. MarkInv'
  <2>1. Keyed(s) => Key <= s.em
    <3>1. CASE lastKey = None
      BY <1>5, <3>1 DEF Key
    <3>2. CASE lastKey # None
      <4>1. PICK j \in DOMAIN inbox : Keyed(inbox[j]) /\ inbox[j].em = lastKey
        BY <1>1, <3>2 DEF MarkInv
      <4> QED
        BY <3>2, <4>1 DEF Key
    <3> QED
      BY <3>1, <3>2
  <2>2. \A j \in DOMAIN inbox : j > Passed' => j > Passed
    BY <1>2, <1>9
  <2>3. \A j \in DOMAIN inbox' : j > Passed' /\ Keyed(inbox'[j]) => Key <= inbox'[j].em
    BY <1>1, <1>4, <2>1, <2>2 DEF MarkInv
  <2>4. lastKey = None \/ \E j \in DOMAIN inbox' : Keyed(inbox'[j]) /\ inbox'[j].em = lastKey
    BY <1>1, <1>4 DEF MarkInv
  <2> QED
    BY <1>9, <2>3, <2>4 DEF MarkInv, Keyed, IsBoundary
<1>11. AppliedInv'
  <2>1. \A i \in DOMAIN applied : /\ applied[i] \in 1 .. Passed'
                                  /\ inbox'[applied[i]] = inbox[applied[i]]
    <3>1. \A i \in DOMAIN applied : applied[i] \in 1 .. Passed
      BY <1>1 DEF AppliedInv
    <3> QED
      BY <1>2, <1>4, <1>9, <3>1
  <2>2. AppliedOnce'
    <3>1. AppliedOnce /\ UNCHANGED <<applied, unmarked>>
      BY <1>1 DEF AppliedInv
    <3> QED
      BY <2>1, <3>1, OnceStays
  <2> QED
    BY <1>1, <1>9, <2>1, <2>2 DEF AppliedInv, Marked, Keyed, IsBoundary
<1> QED
  BY <1>7, <1>8, <1>10, <1>11 DEF KeyInv

LEMMA EmitSteps ==
  ASSUME KeyInv, Emit \/ Resend
  PROVE  KeyInv'
<1>1. /\ inbox \in Seq(Lines) /\ LastEm \in Nat /\ Emissions = 1 .. LastEm /\ max \in Bounds
      /\ \A i \in DOMAIN inbox : inbox[i].em \in 1 .. LastEm
  BY EmissionsUpTo DEF KeyInv, InboxInv
<1>2. UNCHANGED <<offset, lastKey, applied, unmarked, max, pc, after, batch, upto>>
  BY DEF Emit, Resend, mem, env, hist
<1>3. CASE Emit
  <2>1. PICK kind \in {"start", "stop", "candidate"}, turn \in Nat \cup {None},
             event \in BOOLEAN :
          inbox' = Append(inbox, Signal(kind, Cardinality(Emissions) + 1, turn, event))
    <3>1. max.stamps \subseteq (Nat \cup {None}) \X BOOLEAN
      BY <1>1, BoundsAssumption
    <3>2. \A stamp \in max.stamps : stamp[1] \in Nat \cup {None} /\ stamp[2] \in BOOLEAN
      BY <3>1
    <3> QED
      BY <1>3, <3>2 DEF Emit
  <2> DEFINE s == Signal(kind, LastEm + 1, turn, event)
  <2>2. s \in Lines /\ s.em = LastEm + 1
    BY <1>1 DEF Signal, Lines
  <2>3. inbox' = Append(inbox, s)
    BY <2>1 DEF LastEm
  <2> HIDE DEF s
  <2>4. \A i \in DOMAIN inbox : inbox[i].em # s.em /\ inbox[i].em <= s.em
    BY <1>1, <2>2
  <2> QED
    BY <1>2, <2>2, <2>3, <2>4, Emitted
<1>4. CASE Resend
  <2>1. PICK i \in DOMAIN inbox : /\ \A j \in DOMAIN inbox : j > i => ~Keyed(inbox[j])
                                  /\ inbox' = Append(inbox, inbox[i])
    BY <1>4 DEF Resend
  <2>2. PICK s \in Lines : s = inbox[i]
    BY <1>1
  <2>3. \A j \in DOMAIN inbox : inbox[j].em = s.em => inbox[j] = s
    BY <2>2 DEF KeyInv, InboxInv
  <2>4. \A j \in DOMAIN inbox : Keyed(s) /\ Keyed(inbox[j]) => inbox[j].em <= s.em
    <3>1. \A j \in DOMAIN inbox : j <= i \/ j > i
      BY <1>1
    <3> QED
      BY <2>1, <2>2, <3>1 DEF KeyInv, InboxInv
  <2> QED
    BY <1>1, <1>2, <2>1, <2>2, <2>3, <2>4, Emitted
<1> QED
  BY <1>3, <1>4

-----------------------------------------------------------------------------

LEMMA Begins == Init => KeyInv
<1> SUFFICES ASSUME Init PROVE KeyInv
  OBVIOUS
<1>1. /\ inbox = << >> /\ batch = << >> /\ applied = << >> /\ offset = 0 /\ upto = 0
      /\ lastKey = None /\ pc = "down" /\ max \in Bounds
  BY DEF Init
<1>2. Len(inbox) = 0 /\ DOMAIN inbox = {} /\ DOMAIN batch = {} /\ DOMAIN applied = {}
      /\ Len(batch) = 0 /\ inbox \in Seq(Lines) /\ batch \in Seq(Lines) /\ applied \in Seq(Nat)
  BY <1>1
<1>3. Emissions = {} /\ LastEm = 0
  <2>1. Emissions = {}
    BY <1>2 DEF Emissions, Range
  <2> QED
    BY <2>1, FS_EmptySet DEF LastEm
<1>4. InboxInv
  BY <1>1, <1>2, <1>3 DEF InboxInv
<1>5. BatchInv
  BY <1>1, <1>2 DEF BatchInv
<1>6. MarkInv /\ AppliedInv
  BY <1>1, <1>2 DEF MarkInv, AppliedInv, AppliedOnce
<1> QED
  BY <1>4, <1>5, <1>6 DEF KeyInv

LEMMA Continues == KeyInv /\ [Next]_vars => KeyInv'
<1> SUFFICES ASSUME KeyInv, [Next]_vars PROVE KeyInv'
  OBVIOUS
<1>1. CASE Next
  BY <1>1, EmitSteps, DaemonSteps DEF Next, Environment
<1>2. CASE UNCHANGED vars
  <2>1. SameKeys /\ UNCHANGED <<upto, offset, batch, pc, after>>
    BY <1>2 DEF vars, disk, mem, env, hist, SameKeys
  <2>2. InboxInv /\ BatchInv
    BY DEF KeyInv
  <2>3. BatchInv'
    BY <2>1, <2>2 DEF BatchInv, SameKeys
  <2>4. Passed' = Passed /\ Passed \in Nat
    BY <2>1, <2>2, Indices DEF Passed, SameKeys
  <2> QED
    BY <2>1, <2>3, <2>4, Handled
<1> QED
  BY <1>1, <1>2

(* The order of the emissions that have a key, and of the lines that were  *)
(* applied, kept by every step of the daemon, the hooks and a crash.       *)
THEOREM EmissionsInOrder == Spec => []KeyInv
  BY Begins, Continues, PTL DEF Spec

(* C1: no line is applied twice, and a signal with an emitter turn and an  *)
(* event whose mark was written has one effect with its resends, also when *)
(* the daemon is killed between marking and applying it                    *)
(* (handle_emitter_turn_signal).                                           *)
THEOREM AppliedAtMostOnce == Spec => []AppliedOnce
<1>1. KeyInv => AppliedOnce
  BY DEF KeyInv, AppliedInv
<1> QED
  BY <1>1, EmissionsInOrder, PTL

-----------------------------------------------------------------------------
(* Ids.  Those that are in the log, those of turns that are closed and yet *)
(* to be appended, and those that the engine holds are apart.              *)

Sequence(s) == s \in Seq(Range(s))
IdsOf(s) == {s[i].id : i \in DOMAIN s}
Injective(s) == \A i, j \in DOMAIN s : s[i].id = s[j].id => i = j

OpenIds(e) == IF e.open = None THEN {} ELSE {e.open.id}
Held(e) == OpenIds(e) \cup IdsOf(e.pending)
JournalIds == IF journal = None THEN {} ELSE {journal.id}

IsEngine(e) ==
  e = [ open |-> e.open, lastChange |-> e.lastChange, gitUntil |-> e.gitUntil,
        recentBare |-> e.recentBare, lastRich |-> e.lastRich, pending |-> e.pending ]

(* At most one turn is set aside: the engine is told of one ref transition *)
(* between two ticks.                                                      *)
EngineOK(e) ==
  /\ IsEngine(e)
  /\ e.open # None => e.open \in OpenTurns /\ e.open.id \notin IdsOf(e.pending)
  /\ e.pending = << >> \/ e.pending = <<e.pending[1]>>

IdsInv ==
  /\ nextId \in Nat /\ now \in Nat
  /\ EngineOK(eng)
  /\ Sequence(queue) /\ Injective(queue)
  /\ Sequence(logf) /\ Sequence(memory)
  /\ IdsOf(queue) \cap Held(eng) = {}
  /\ LoggedIds \cap (IdsOf(queue) \cup Held(eng)) = {}
  /\ \A i \in LoggedIds \cup IdsOf(queue) \cup Held(eng) \cup JournalIds :
       i \in Nat /\ i < nextId

(* What is there at the places of the loop.                                *)
Starting == {"down", "recover", "unjournal", "scan", "replay", "epoch"}
HandlingSignals ==
  pc \in {"signals", "ingest", "apply"} \/ (pc = "persist" /\ after = "signals")
Closing ==
  pc \in {"unmirror", "stopped"} \/ (pc = "persist" /\ after = "unmirror")

StageInv ==
  /\ pc \in Starting => eng = NewEngine
  /\ pc # "persist" => queue = << >>
  /\ pc = "persist" => after \in {"signals", "sync", "unmirror"}
  /\ pc # "poll" /\ ~ HandlingSignals => eng.pending = << >>
  /\ Closing => eng.open = None
  /\ pc \in {"scan", "replay", "epoch", "stopped"} => journal = None
  /\ pc \in {"flush", "poll", "stopping"} => JournalIds \subseteq Held(eng)

TurnsInv == IdsInv /\ StageInv

(* How many records may still be appended before the journal is written    *)
(* again: a signal closes two turns at most, the tick one more than was    *)
(* set aside.                                                              *)
ToClose == IF HandlingSignals THEN 2 * Len(batch) + (Len(eng.pending) + 1) ELSE 0
ToAppend == Len(queue) + ToClose

WindowInv ==
  /\ LoggedOnce
  /\ HandlingSignals \/ pc = "persist" => ToAppend <= TailWindow
  /\ \A i \in DOMAIN logf :
       logf[i].kind = "turn" /\ logf[i].id \in JournalIds =>
         Len(logf) - i + ToAppend < TailWindow

(* The journal is written anew only when the turn that it mirrors is       *)
(* logged, or is the one it will mirror.                                   *)
MirrorInv ==
  /\ JournaledSurvives
  /\ pc = "unjournal" => JournalIds \subseteq LoggedIds
  /\ pc \notin Starting => JournalIds \subseteq LoggedIds \cup IdsOf(queue) \cup Held(eng)
  /\ pc = "ingest" /\ eng.open # None => JournalIds = {eng.open.id}

(* A poll reads no more lines than the window has room for: two records    *)
(* for each, one for the tick, and one for a turn that was set aside.      *)
FewLines == pc = "signals" => 2 * Len(batch) + 2 <= TailWindow

(* No candidate is handled while a turn that a ref transition has closed   *)
(* waits for the tick.                                                     *)
CandidatesApart ==
  pc = "signals" /\ batch # << >> /\ ~ IsBoundary(Head(batch)) /\ eng.open # None
    => eng.pending = << >>

-----------------------------------------------------------------------------
(* Sequences.                                                              *)

LEMMA AnySequence ==
  ASSUME NEW T, NEW s \in Seq(T)
  PROVE  /\ Sequence(s) /\ Len(s) \in Nat /\ DOMAIN s = 1 .. Len(s)
         /\ \A i \in DOMAIN s : s[i] \in Range(s)
<1>1. Len(s) \in Nat /\ DOMAIN s = 1 .. Len(s) /\ s \in [1 .. Len(s) -> T]
  OBVIOUS
<1>2. \A i \in DOMAIN s : s[i] \in Range(s)
  BY DEF Range
<1>3. s \in [1 .. Len(s) -> Range(s)]
  BY <1>1, <1>2
<1> QED
  BY <1>1, <1>2, <1>3, SeqDef DEF Sequence

LEMMA NoneOf == Sequence(<< >>) /\ Injective(<< >>) /\ IdsOf(<< >>) = {} /\ Len(<< >>) = 0
<1>1. << >> \in Seq({}) /\ Len(<< >>) = 0 /\ DOMAIN << >> = {}
  OBVIOUS
<1>2. Sequence(<< >>)
  BY <1>1, AnySequence
<1> QED
  BY <1>1, <1>2 DEF Injective, IdsOf

LEMMA OneOf ==
  ASSUME NEW x
  PROVE  /\ Sequence(<<x>>) /\ Injective(<<x>>) /\ IdsOf(<<x>>) = {x.id} /\ Len(<<x>>) = 1
<1>1. <<x>> \in Seq({x}) /\ DOMAIN <<x>> = {1} /\ <<x>>[1] = x /\ Len(<<x>>) = 1
  OBVIOUS
<1>2. Sequence(<<x>>)
  BY <1>1, AnySequence
<1> QED
  BY <1>1, <1>2 DEF Injective, IdsOf

LEMMA OneMore ==
  ASSUME NEW s, NEW x, Sequence(s), NEW z, z = Append(s, x)
  PROVE  /\ Sequence(z) /\ Len(z) = Len(s) + 1 /\ Len(s) \in Nat
         /\ DOMAIN s = 1 .. Len(s) /\ DOMAIN z = 1 .. Len(s) + 1
         /\ z[Len(s) + 1] = x /\ \A i \in DOMAIN s : z[i] = s[i]
         /\ Range(z) = Range(s) \cup {x}
<1> DEFINE T == Range(s) \cup {x}
<1>1. /\ Len(s) \in Nat /\ DOMAIN s = 1 .. Len(s) /\ s \in [1 .. Len(s) -> Range(s)]
  BY AnySequence DEF Sequence
<1>2. s \in [1 .. Len(s) -> T]
  BY <1>1
<1>3. s \in Seq(T) /\ x \in T
  BY <1>1, <1>2, SeqDef
<1> HIDE DEF T
<1>4. /\ z \in Seq(T) /\ Len(z) = Len(s) + 1
      /\ DOMAIN z = 1 .. Len(s) + 1 /\ z[Len(s) + 1] = x
      /\ \A i \in 1 .. Len(s) : z[i] = s[i]
  BY <1>3
<1>5. Sequence(z)
  BY <1>4, AnySequence
<1>6. DOMAIN z = DOMAIN s \cup {Len(s) + 1}
  BY <1>1, <1>4
<1>7. Range(z) = Range(s) \cup {x}
  BY <1>1, <1>4, <1>6 DEF Range
<1> QED
  BY <1>1, <1>4, <1>5, <1>7

LEMMA IdsMore ==
  ASSUME NEW s, NEW x, Sequence(s), NEW z, z = Append(s, x)
  PROVE  IdsOf(z) = IdsOf(s) \cup {x.id}
<1>1. /\ DOMAIN s = 1 .. Len(s) /\ DOMAIN z = 1 .. Len(s) + 1 /\ Len(s) \in Nat
      /\ z[Len(s) + 1] = x /\ \A i \in DOMAIN s : z[i] = s[i]
  BY OneMore
<1>2. DOMAIN z = DOMAIN s \cup {Len(s) + 1}
  BY <1>1
<1> QED
  BY <1>1, <1>2 DEF IdsOf

LEMMA OneMoreId ==
  ASSUME NEW s, NEW x, Sequence(s), Injective(s), NEW z, z = Append(s, x)
  PROVE  x.id \notin IdsOf(s) => Injective(z)
<1>1. /\ DOMAIN s = 1 .. Len(s) /\ DOMAIN z = 1 .. Len(s) + 1 /\ Len(s) \in Nat
      /\ z[Len(s) + 1] = x /\ \A i \in DOMAIN s : z[i] = s[i]
  BY OneMore
<1>2. \A i \in DOMAIN z : i \in DOMAIN s \/ i = Len(s) + 1
  BY <1>1
<1>3. HAVE x.id \notin IdsOf(s)
<1>4. \A i \in DOMAIN s : s[i].id # x.id
  BY <1>3 DEF IdsOf
<1> QED
  BY <1>1, <1>2, <1>4 DEF Injective

LEMMA OneLess ==
  ASSUME NEW s, s # << >>, Sequence(s), Injective(s), NEW z, z = Tail(s)
  PROVE  /\ Sequence(z) /\ Injective(z) /\ Len(s) = Len(z) + 1 /\ Len(z) \in Nat
         /\ IdsOf(s) = IdsOf(z) \cup {Head(s).id} /\ Head(s).id \notin IdsOf(z)
<1>1. s \in Seq(Range(s)) /\ Len(s) \in Nat /\ DOMAIN s = 1 .. Len(s) /\ Len(s) # 0
  BY DEF Sequence
<1>2. /\ z \in Seq(Range(s)) /\ Len(z) = Len(s) - 1 /\ DOMAIN z = 1 .. (Len(s) - 1)
      /\ Head(s) = s[1]
  BY <1>1
<1>3. \A i \in 1 .. (Len(s) - 1) : z[i] = s[i + 1]
  BY <1>1
<1>4. Sequence(z)
  BY <1>2, AnySequence
<1>5. \A i \in DOMAIN s : i = 1 \/ \E k \in DOMAIN z : i = k + 1 /\ s[i] = z[k]
  <2>1. ASSUME NEW i \in DOMAIN s, i # 1
        PROVE  i - 1 \in DOMAIN z /\ i = (i - 1) + 1 /\ s[i] = z[i - 1]
    BY <1>1, <1>2, <1>3, <2>1
  <2> QED
    BY <2>1
<1>6. \A k \in DOMAIN z : k + 1 \in DOMAIN s /\ k + 1 # 1 /\ z[k] = s[k + 1] /\ k \in Nat
  BY <1>1, <1>2, <1>3
<1>7. 1 \in DOMAIN s
  BY <1>1
<1>8. Injective(z)
  <2>1. ASSUME NEW i \in DOMAIN z, NEW j \in DOMAIN z, z[i].id = z[j].id PROVE i = j
    <3>1. i + 1 = j + 1
      BY <1>6, <2>1 DEF Injective
    <3> QED
      BY <1>6, <3>1
  <2> QED
    BY <2>1 DEF Injective
<1>9. IdsOf(s) = IdsOf(z) \cup {Head(s).id}
  BY <1>2, <1>5, <1>6, <1>7 DEF IdsOf
<1>10. Head(s).id \notin IdsOf(z)
  BY <1>2, <1>6, <1>7 DEF IdsOf, Injective
<1> QED
  BY <1>1, <1>2, <1>4, <1>8, <1>9, <1>10

-----------------------------------------------------------------------------
(* The methods of the engine: which ids they hand over, and which the      *)
(* engine holds afterwards.                                                *)

HandsOver(e, id, r) ==
  /\ EngineOK(r.eng) /\ r.reserved \in BOOLEAN
  /\ Sequence(r.closed) /\ Injective(r.closed)
  /\ IdsOf(r.closed) \cap Held(r.eng) = {}
  /\ IdsOf(r.closed) \cup Held(r.eng) = Held(e) \cup (IF r.reserved THEN {id} ELSE {})

LEMMA OwnTerms ==
  ASSUME NEW o \in OpenTurns, NEW at
  PROVE  CloseOnOwnTerms(o, at).id = o.id
<1>1. CASE o.source = "quiet"
  BY <1>1 DEF CloseOnOwnTerms, Finish
<1>2. CASE o.source = "git"
  BY <1>2 DEF CloseOnOwnTerms, Finish
<1>3. CASE o.source = "bracket"
  BY <1>3 DEF CloseOnOwnTerms, Finish
<1> QED
  BY <1>1, <1>2, <1>3 DEF OpenTurns, Sources

(* What closes when the open turn does. *)
LEMMA ClosedAlone ==
  ASSUME NEW e, EngineOK(e), NEW at,
         NEW C, C = IF e.open = None THEN << >> ELSE <<CloseOnOwnTerms(e.open, at)>>
  PROVE  /\ Sequence(C) /\ Injective(C) /\ IdsOf(C) = OpenIds(e) /\ Len(C) \in 0 .. 1
<1>1. CASE e.open = None
  BY <1>1, NoneOf DEF OpenIds
<1>2. CASE e.open # None
  <2>1. PICK c : c = CloseOnOwnTerms(e.open, at)
    OBVIOUS
  <2>2. c.id = e.open.id
    BY <1>2, <2>1, OwnTerms DEF EngineOK
  <2>3. C = <<c>>
    BY <1>2, <2>1
  <2> QED
    BY <1>2, <2>2, <2>3, OneOf DEF OpenIds
<1> QED
  BY <1>1, <1>2

LEMMA Apart ==
  ASSUME NEW e, EngineOK(e)
  PROVE  OpenIds(e) \cap IdsOf(e.pending) = {} /\ (e.open = None => OpenIds(e) = {})
  BY DEF EngineOK, OpenIds

LEMMA TakesOpen ==
  ASSUME NEW e, EngineOK(e), NEW w, w = TakeOpen(e)
  PROVE  /\ IsEngine(w) /\ w.open = None /\ w.pending = e.pending
         /\ EngineOK(w) /\ Held(w) = IdsOf(e.pending)
<1>1. IsEngine(w) /\ w.open = None /\ w.pending = e.pending
  BY DEF EngineOK, IsEngine, TakeOpen
<1> QED
  BY <1>1 DEF EngineOK, Held, OpenIds

(* Observed or converted, the open turn is the same turn. *)
WithFiles(o, obs) ==
  [o EXCEPT !.files =
     [ p \in DOMAIN o.files \cup DOMAIN obs |->
         IF p \notin DOMAIN o.files THEN obs[p]
         ELSE IF p \in DOMAIN obs
              THEN [o.files[p] EXCEPT !.status = obs[p].status]
              ELSE o.files[p] ]]

LEMMA Observed ==
  ASSUME NEW o \in OpenTurns, NEW obs \in {<< >>, OneFile}, NEW q,
         q = WithFiles(o, obs)
  PROVE  q \in OpenTurns /\ q.id = o.id
<1> DEFINE g == [ p \in DOMAIN o.files \cup DOMAIN obs |->
                    IF p \notin DOMAIN o.files THEN obs[p]
                    ELSE IF p \in DOMAIN obs
                         THEN [o.files[p] EXCEPT !.status = obs[p].status]
                         ELSE o.files[p] ]
<1>1. PICK x : x = [before |-> 0, status |-> "captured", reason |-> None]
  OBVIOUS
<1>2. OneFile = [p \in {Path} |-> x] /\ [x EXCEPT !.status = x.status] = x
  <2>1. OneFile = [p \in {Path} |-> x]
    BY <1>1 DEF OneFile
  <2>2. [x EXCEPT !.status = x.status] = x
    BY <1>1
  <2> QED
    BY <2>1, <2>2
<1>3. DOMAIN OneFile = {Path} /\ OneFile[Path] = x /\ DOMAIN << >> = {}
  BY <1>2
<1>4. o.files \in {<< >>, OneFile}
  BY DEF OpenTurns
<1>5. g \in {<< >>, OneFile}
  <2>1. CASE o.files = << >> /\ obs = << >>
    BY <1>3, <2>1
  <2>2. CASE o.files = << >> /\ obs = OneFile
    <3>1. DOMAIN g = {Path} /\ g[Path] = x
      BY <1>3, <2>2
    <3>2. g = [p \in {Path} |-> x]
      BY <3>1
    <3> QED
      BY <1>2, <3>2
  <2>3. CASE o.files = OneFile /\ obs = << >>
    <3>1. DOMAIN g = {Path} /\ g[Path] = x
      BY <1>3, <2>3
    <3>2. g = [p \in {Path} |-> x]
      BY <3>1
    <3> QED
      BY <1>2, <3>2
  <2>4. CASE o.files = OneFile /\ obs = OneFile
    <3>1. DOMAIN g = {Path} /\ g[Path] = x
      BY <1>2, <1>3, <2>4
    <3>2. g = [p \in {Path} |-> x]
      BY <3>1
    <3> QED
      BY <1>2, <3>2
  <2> QED
    BY <1>4, <2>1, <2>2, <2>3, <2>4
<1> HIDE DEF g
<1>6. q = [o EXCEPT !.files = g]
  BY DEF g, WithFiles
<1> QED
  BY <1>5, <1>6 DEF OpenTurns

LEMMA ObserveChangesIds ==
  ASSUME NEW e, EngineOK(e), NEW t \in Nat, NEW obs \in {<< >>, OneFile},
         NEW id \in Nat, id \notin Held(e), NEW r, r = ObserveChanges(e, t, obs, id)
  PROVE  /\ HandsOver(e, id, r) /\ r.closed = << >> /\ r.eng.pending = e.pending
<1>1. CASE obs = << >>
  <2>1. r.eng = e /\ r.closed = << >> /\ r.reserved = FALSE
    BY <1>1 DEF ObserveChanges, Result
  <2> QED
    BY <2>1, NoneOf DEF HandsOver
<1>2. CASE obs # << >>
  <2>1. PICK o : o = TurnOfChange(e, t, id)
    OBVIOUS
  <2>2. o \in OpenTurns /\ o.id = (IF e.open = None THEN id ELSE e.open.id)
    <3>1. CASE e.open # None
      BY <2>1, <3>1 DEF TurnOfChange, EngineOK
    <3>2. CASE e.open = None
      <4>1. CASE InGitWindow(e, t)
        <5>1. o = OpenTurn("git", Git, t, id, None)
          BY <2>1, <3>2, <4>1 DEF TurnOfChange
        <5>2. o \in OpenTurns /\ o.id = id
          BY <5>1 DEF OpenTurn, OpenTurns, Sources
        <5> QED
          BY <3>2, <5>2
      <4>2. CASE ~ InGitWindow(e, t)
        <5>1. o = OpenTurn("quiet", None, t, id, None)
          BY <2>1, <3>2, <4>2 DEF TurnOfChange
        <5>2. o \in OpenTurns /\ o.id = id
          BY <5>1 DEF OpenTurn, OpenTurns, Sources
        <5> QED
          BY <3>2, <5>2
      <4> QED
        BY <4>1, <4>2
    <3> QED
      BY <3>1, <3>2
  <2>3. PICK q : q = WithFiles(o, obs)
    OBVIOUS
  <2>4. q \in OpenTurns /\ q.id = o.id /\ q # None
    <3>1. q \in OpenTurns /\ q.id = o.id
      BY <2>2, <2>3, Observed
    <3> QED
      BY <3>1, NoneAssumption
  <2>5. r = Result([e EXCEPT !.open = q, !.lastChange = t], << >>, e.open = None)
    BY <1>2, <2>1, <2>3 DEF ObserveChanges, WithFiles
  <2>6. /\ r.eng = [e EXCEPT !.open = q, !.lastChange = t] /\ r.closed = << >>
        /\ r.reserved \in BOOLEAN /\ (r.reserved <=> e.open = None)
    <3>1. /\ r.eng = [e EXCEPT !.open = q, !.lastChange = t] /\ r.closed = << >>
          /\ r.reserved = (e.open = None)
      BY <2>5 DEF Result
    <3> QED
      BY <3>1
  <2>7. IsEngine(r.eng) /\ r.eng.open = q /\ r.eng.pending = e.pending
    BY <2>6 DEF EngineOK, IsEngine
  <2>8. q.id \notin IdsOf(e.pending)
    BY <2>2, <2>4 DEF EngineOK, Held
  <2>9. EngineOK(r.eng)
    BY <2>4, <2>7, <2>8 DEF EngineOK
  <2>10. OpenIds(r.eng) = {q.id}
    BY <2>4, <2>7 DEF OpenIds
  <2>11. Held(r.eng) = Held(e) \cup (IF r.reserved THEN {id} ELSE {})
    <3>1. CASE e.open = None
      BY <2>2, <2>4, <2>6, <2>7, <2>10, <3>1 DEF Held, OpenIds
    <3>2. CASE e.open # None
      BY <2>2, <2>4, <2>6, <2>7, <2>10, <3>2 DEF Held, OpenIds
    <3> QED
      BY <3>1, <3>2
  <2> QED
    BY <2>6, <2>7, <2>9, <2>11, NoneOf DEF HandsOver
<1> QED
  BY <1>1, <1>2

(* A ref transition: a quiet turn is converted, or set aside as the only   *)
(* one. *)
LEMMA ObserveGitChangeIds ==
  ASSUME NEW e, EngineOK(e), e.pending = << >>, NEW t \in Nat, NEW f, f = ObserveGitChange(e, t)
  PROVE  EngineOK(f) /\ Held(f) = Held(e)
<1> DEFINE w == [e EXCEPT !.gitUntil = t + GIT_SETTLE_MS]
<1>1. /\ IsEngine(w) /\ w.open = e.open /\ w.pending = e.pending
  BY DEF EngineOK, IsEngine
<1> HIDE DEF w
<1>2. EngineOK(w) /\ Held(w) = Held(e)
  BY <1>1 DEF EngineOK, Held, OpenIds
<1>3. CASE ~ HasOpen(e, "quiet")
  BY <1>2, <1>3 DEF ObserveGitChange, w
<1>4. CASE HasOpen(e, "quiet") /\ Monus(t, e.open.openedAt) <= GIT_SETTLE_MS + QUIET_MS
  <2>1. f = [w EXCEPT !.open.source = "git", !.open.tool = Git]
    BY <1>4 DEF ObserveGitChange, w
  <2>2. e.open \in OpenTurns /\ e.open # None
    BY <1>4 DEF EngineOK, HasOpen
  <2>3. PICK o : o = [ source |-> "git", tool |-> Git, openedAt |-> e.open.openedAt,
                       files |-> e.open.files, id |-> e.open.id,
                       emitterTurn |-> e.open.emitterTurn ]
    OBVIOUS
  <2>4. PICK a, b, c, d, i, k :
          e.open = [ source |-> a, tool |-> b, openedAt |-> c, files |-> d, id |-> i,
                     emitterTurn |-> k ]
    BY <2>2 DEF OpenTurns
  <2>5. [[e.open EXCEPT !.source = "git"] EXCEPT !.tool = Git] = o
    <3>1. o = [ source |-> "git", tool |-> Git, openedAt |-> c, files |-> d, id |-> i,
                emitterTurn |-> k ]
      BY <2>3, <2>4
    <3>2. [e.open EXCEPT !.source = "git"] =
            [ source |-> "git", tool |-> b, openedAt |-> c, files |-> d, id |-> i,
              emitterTurn |-> k ]
      BY <2>4
    <3>3. [[ source |-> "git", tool |-> b, openedAt |-> c, files |-> d, id |-> i,
             emitterTurn |-> k ] EXCEPT !.tool = Git] = o
      BY <3>1
    <3> QED
      BY <3>2, <3>3, Zenon
  <2>6. IsEngine(f) /\ f.open = o /\ f.pending = e.pending
    BY <1>1, <2>1, <2>5 DEF IsEngine
  <2>7. o \in OpenTurns /\ o.id = e.open.id
    BY <2>2, <2>3 DEF OpenTurns, Sources
  <2>8. o # None
    BY <2>7, NoneAssumption
  <2> QED
    BY <2>2, <2>6, <2>7, <2>8 DEF EngineOK, Held, OpenIds
<1>5. CASE HasOpen(e, "quiet") /\ ~ (Monus(t, e.open.openedAt) <= GIT_SETTLE_MS + QUIET_MS)
  <2>1. PICK c : c = CloseOnOwnTerms(e.open, LastActivity(e))
    OBVIOUS
  <2>2. f = SetAside(w, c)
    BY <1>5, <2>1 DEF ObserveGitChange, w
  <2>3. e.open \in OpenTurns /\ e.open # None /\ c.id = e.open.id
    BY <1>5, <2>1, OwnTerms DEF EngineOK, HasOpen
  <2>4. IsEngine(f) /\ f.open = None /\ f.pending = Append(e.pending, c)
    BY <1>1, <2>2 DEF SetAside, TakeOpen, IsEngine
  <2>5. f.pending = <<c>>
    BY <2>4
  <2> QED
    BY <2>3, <2>4, <2>5, OneOf, NoneOf DEF EngineOK, Held, OpenIds
<1> QED
  BY <1>3, <1>4, <1>5

LEMMA ObserveStartIds ==
  ASSUME NEW e, EngineOK(e), NEW t \in Nat, NEW k \in Nat \cup {None}, NEW id \in Nat,
         id \notin Held(e), NEW r, r = ObserveStart(e, t, Tool, k, id)
  PROVE  HandsOver(e, id, r) /\ Len(r.closed) \in 0 .. 2 /\ r.eng.pending = e.pending
<1>1. PICK o : o = OpenTurn("bracket", Tool, t, id, k)
  OBVIOUS
<1>2. o \in OpenTurns /\ o.id = id /\ o # None
  <2>1. o \in OpenTurns /\ o.id = id
    BY <1>1 DEF OpenTurn, OpenTurns, Sources
  <2> QED
    BY <2>1, NoneAssumption
<1>3. PICK C : C = IF e.open = None THEN << >> ELSE <<CloseOnOwnTerms(e.open, t)>>
  OBVIOUS
<1>4. r.eng = [TakeOpen(e) EXCEPT !.open = o] /\ r.closed = C /\ r.reserved = TRUE
  BY <1>1, <1>3 DEF ObserveStart, Result
<1>5. IsEngine(r.eng) /\ r.eng.open = o /\ r.eng.pending = e.pending
  <2>1. PICK w : w = TakeOpen(e)
    OBVIOUS
  <2>2. IsEngine(w) /\ w.pending = e.pending
    BY <2>1, TakesOpen
  <2>3. r.eng = [w EXCEPT !.open = o]
    BY <1>4, <2>1
  <2> QED
    BY <2>2, <2>3 DEF IsEngine
<1>6. Sequence(C) /\ Injective(C) /\ IdsOf(C) = OpenIds(e) /\ (Len(C) = 0 \/ Len(C) = 1)
  BY <1>3, ClosedAlone
<1>7. EngineOK(r.eng)
  BY <1>2, <1>5 DEF EngineOK, Held
<1>8. Held(r.eng) = {id} \cup IdsOf(e.pending)
  BY <1>2, <1>5 DEF Held, OpenIds
<1>9. OpenIds(e) \cap IdsOf(e.pending) = {} /\ Held(e) = OpenIds(e) \cup IdsOf(e.pending)
  BY Apart DEF Held
<1>10. id \notin OpenIds(e)
  BY <1>9
<1>11. r.closed = C /\ r.reserved = TRUE /\ r.eng.pending = e.pending
  BY <1>4, <1>5
<1>12. IdsOf(C) \cap Held(r.eng) = {} /\ IdsOf(C) \cup Held(r.eng) = Held(e) \cup {id}
  BY <1>6, <1>8, <1>9, <1>10
<1>13. HandsOver(e, id, r)
  BY <1>6, <1>7, <1>11, <1>12 DEF HandsOver
<1>14. Len(C) \in 0 .. 2
  BY <1>6
<1> QED
  BY <1>11, <1>13, <1>14

ClosedTurn(c, i) ==
  c = [ id |-> i, grade |-> c.grade, boundary |-> c.boundary, truncated |-> c.truncated,
        tool |-> c.tool, openedAt |-> c.openedAt, closedAt |-> c.closedAt, files |-> c.files,
        merges |-> c.merges ]

LEMMA Folded ==
  ASSUME NEW i, NEW turn, ClosedTurn(turn, i), NEW recent, NEW lastRich, NEW c,
         c = FoldRecentBares(turn, recent, lastRich)
  PROVE  c.id = i
<1>1. PICK M, F, O : c = [turn EXCEPT !.merges = M, !.openedAt = O, !.files = F]
  BY DEF FoldRecentBares
<1>2. PICK b, d, e, f, g, h, k, j :
        turn = [ id |-> i, grade |-> b, boundary |-> d, truncated |-> e, tool |-> f,
                 openedAt |-> g, closedAt |-> h, files |-> k, merges |-> j ]
  BY DEF ClosedTurn
<1>3. c = [ id |-> i, grade |-> b, boundary |-> d, truncated |-> e, tool |-> f,
            openedAt |-> O, closedAt |-> h, files |-> F, merges |-> M ]
  BY <1>1, <1>2
<1> QED
  BY <1>3

(* A stop that closes `turn`, after what is in `before`. *)
Stopped(e, i, before, reserved, r) ==
  /\ EngineOK(r.eng) /\ r.eng.pending = e.pending /\ Held(r.eng) = IdsOf(e.pending)
  /\ Sequence(r.closed) /\ Injective(r.closed) /\ IdsOf(r.closed) = IdsOf(before) \cup {i}
  /\ Len(r.closed) = Len(before) + 1 /\ r.reserved = reserved

LEMMA CloseOnStopIds ==
  ASSUME NEW e, EngineOK(e), NEW turn, NEW i, ClosedTurn(turn, i), NEW before,
         Sequence(before), Injective(before), i \notin IdsOf(before), NEW reserved, NEW t,
         NEW r, r = CloseOnStop(e, turn, before, t, reserved)
  PROVE  Stopped(e, i, before, reserved, r)
<1>1. PICK c : c = FoldRecentBares(turn, e.recentBare, e.lastRich)
  OBVIOUS
<1>2. PICK z : z = Append(before, c)
  OBVIOUS
<1>3. /\ r.eng = [TakeOpen(e) EXCEPT !.recentBare = {}, !.lastRich = t]
      /\ r.closed = z /\ r.reserved = reserved
  BY <1>1, <1>2 DEF CloseOnStop, Result
<1>4. IsEngine(r.eng) /\ r.eng.open = None /\ r.eng.pending = e.pending
  <2>1. PICK w : w = TakeOpen(e)
    OBVIOUS
  <2>2. IsEngine(w) /\ w.open = None /\ w.pending = e.pending
    BY <2>1, TakesOpen
  <2>3. r.eng = [w EXCEPT !.recentBare = {}, !.lastRich = t]
    BY <1>3, <2>1
  <2> QED
    BY <2>2, <2>3 DEF IsEngine
<1>5. EngineOK(r.eng) /\ Held(r.eng) = IdsOf(e.pending)
  BY <1>4 DEF EngineOK, Held, OpenIds
<1>6. c.id = i
  BY <1>1, Folded
<1>7. /\ Sequence(z) /\ Injective(z) /\ Len(z) = Len(before) + 1
      /\ IdsOf(z) = IdsOf(before) \cup {i}
  <2>1. Sequence(z) /\ Len(z) = Len(before) + 1
    BY <1>2, OneMore
  <2>2. IdsOf(z) = IdsOf(before) \cup {c.id}
    BY <1>2, IdsMore
  <2>3. c.id \notin IdsOf(before) => Injective(z)
    BY <1>2, OneMoreId
  <2> QED
    BY <1>6, <2>1, <2>2, <2>3
<1> QED
  BY <1>3, <1>4, <1>5, <1>7 DEF Stopped

LEMMA ObserveStopIds ==
  ASSUME NEW e, EngineOK(e), NEW t \in Nat, NEW id \in Nat, id \notin Held(e),
         NEW r, r = ObserveStop(e, t, Tool, id)
  PROVE  HandsOver(e, id, r) /\ Len(r.closed) \in 0 .. 2 /\ r.eng.pending = e.pending
<1> DEFINE ownBracket == HasOpen(e, "bracket") /\ e.open.tool = Tool
           convertible == HasOpen(e, "quiet") /\ Monus(t, e.open.openedAt) <= FOLD_WINDOW_MS
<1>0. OpenIds(e) \cap IdsOf(e.pending) = {}
  BY Apart
<1>1. CASE ownBracket
  <2>1. PICK c : c = Finish(e.open, t, "bracket", "rich", FALSE)
    OBVIOUS
  <2>2. r = CloseOnStop(e, c, << >>, t, FALSE)
    BY <1>1, <2>1 DEF ObserveStop
  <2>3. ClosedTurn(c, e.open.id)
    BY <2>1 DEF Finish, ClosedTurn
  <2>4. OpenIds(e) = {e.open.id}
    BY <1>1 DEF OpenIds, HasOpen
  <2>5. e.open.id \notin IdsOf(<< >>) /\ IdsOf(<< >>) = {}
    BY NoneOf
  <2>6. Stopped(e, e.open.id, << >>, FALSE, r)
    BY <2>2, <2>3, <2>5, NoneOf, CloseOnStopIds
  <2>7. HandsOver(e, id, r)
    BY <1>0, <2>4, <2>5, <2>6 DEF Stopped, HandsOver, Held
  <2>8. Len(r.closed) = 1 /\ r.eng.pending = e.pending
    BY <2>6, NoneOf DEF Stopped
  <2> QED
    BY <2>7, <2>8
<1>2. CASE ~ ownBracket /\ convertible
  <2>0. PICK d : d = Finish(e.open, t, "stop-only", "rich", FALSE)
    OBVIOUS
  <2>1. PICK c : c = [d EXCEPT !.tool = Tool]
    OBVIOUS
  <2>2. r = CloseOnStop(e, c, << >>, t, FALSE)
    BY <1>2, <2>0, <2>1 DEF ObserveStop
  <2>3. ClosedTurn(c, e.open.id)
    <3>1. ClosedTurn(d, e.open.id)
      BY <2>0 DEF Finish, ClosedTurn
    <3> QED
      BY <2>1, <3>1 DEF ClosedTurn
  <2>4. OpenIds(e) = {e.open.id}
    BY <1>2 DEF OpenIds, HasOpen
  <2>5. e.open.id \notin IdsOf(<< >>) /\ IdsOf(<< >>) = {}
    BY NoneOf
  <2>6. Stopped(e, e.open.id, << >>, FALSE, r)
    BY <2>2, <2>3, <2>5, NoneOf, CloseOnStopIds
  <2>7. HandsOver(e, id, r)
    BY <1>0, <2>4, <2>5, <2>6 DEF Stopped, HandsOver, Held
  <2>8. Len(r.closed) = 1 /\ r.eng.pending = e.pending
    BY <2>6, NoneOf DEF Stopped
  <2> QED
    BY <2>7, <2>8
<1>3. CASE ~ ownBracket /\ ~ convertible
  <2>1. PICK o : o = OpenTurn("quiet", Tool, t, id, None)
    OBVIOUS
  <2>2. PICK c : c = Finish(o, t, "stop-only", "rich", FALSE)
    OBVIOUS
  <2>3. PICK C : C = IF e.open = None THEN << >> ELSE <<CloseOnOwnTerms(e.open, t)>>
    OBVIOUS
  <2>4. r = CloseOnStop(e, c, C, t, TRUE)
    BY <1>3, <2>1, <2>2, <2>3 DEF ObserveStop
  <2>5. o.id = id
    BY <2>1 DEF OpenTurn
  <2>6. ClosedTurn(c, id)
    BY <2>2, <2>5 DEF Finish, ClosedTurn
  <2>7. Sequence(C) /\ Injective(C) /\ IdsOf(C) = OpenIds(e) /\ (Len(C) = 0 \/ Len(C) = 1)
    BY <2>3, ClosedAlone
  <2>8. id \notin IdsOf(C) /\ id \notin IdsOf(e.pending)
    BY <2>7 DEF Held
  <2>9. Stopped(e, id, C, TRUE, r)
    BY <2>4, <2>6, <2>7, <2>8, CloseOnStopIds
  <2>10. Len(C) + 1 \in 0 .. 2
    <3>1. \A n : n = 0 \/ n = 1 => n + 1 \in 0 .. 2
      OBVIOUS
    <3> QED
      BY <2>7, <3>1
  <2>11. IdsOf(C) \cup {id} = OpenIds(e) \cup {id} /\ (OpenIds(e) \cup {id}) \cap IdsOf(e.pending) = {}
    BY <1>0, <2>7, <2>8
  <2> QED
    BY <2>9, <2>10, <2>11 DEF Stopped, HandsOver, Held
<1> QED
  BY <1>1, <1>2, <1>3

LEMMA TickIds ==
  ASSUME NEW e, EngineOK(e), NEW t, NEW id, NEW r, r = Tick(e, t)
  PROVE  /\ HandsOver(e, id, r) /\ r.eng.pending = << >> /\ r.reserved = FALSE
         /\ Len(r.closed) \in {Len(e.pending), Len(e.pending) + 1}
<1>1. PICK p : p = Prune(e, t)
  OBVIOUS
<1>2. IsEngine(p) /\ p.open = e.open /\ p.pending = << >>
  BY <1>1 DEF Prune, EngineOK, IsEngine
<1>3. EngineOK(p) /\ Held(p) = OpenIds(e)
  BY <1>2, NoneOf DEF EngineOK, Held, OpenIds
<1>4. /\ Sequence(e.pending) /\ Injective(e.pending)
      /\ OpenIds(e) \cap IdsOf(e.pending) = {}
  BY NoneOf, OneOf, Apart DEF EngineOK
<1>5. CASE ~ (e.open # None /\ Elapsed(e, t))
  <2>1. r.eng = p /\ r.closed = e.pending /\ r.reserved = FALSE
    BY <1>1, <1>5 DEF Tick, Result
  <2> QED
    BY <1>2, <1>3, <1>4, <2>1 DEF HandsOver, Held
<1>6. CASE e.open # None /\ Elapsed(e, t)
  <2>1. PICK at : at = IF e.open.source = "bracket" THEN LastActivity(e) ELSE t
    OBVIOUS
  <2>2. PICK c : c = CloseOnOwnTerms(e.open, at)
    OBVIOUS
  <2>3. PICK z : z = Append(e.pending, c)
    OBVIOUS
  <2>4. PICK B : B = p.recentBare \cup (IF c.grade = "bare" THEN {c} ELSE {})
    OBVIOUS
  <2>5. r.eng = [TakeOpen(p) EXCEPT !.recentBare = B] /\ r.closed = z /\ r.reserved = FALSE
    BY <1>1, <1>6, <2>1, <2>2, <2>3, <2>4 DEF Tick, Result
  <2>6. IsEngine(r.eng) /\ r.eng.open = None /\ r.eng.pending = << >>
    <3>1. PICK w : w = TakeOpen(p)
      OBVIOUS
    <3>2. IsEngine(w) /\ w.open = None /\ w.pending = << >>
      BY <1>2, <1>3, <3>1, TakesOpen
    <3> QED
      BY <2>5, <3>1, <3>2 DEF IsEngine
  <2>7. EngineOK(r.eng) /\ Held(r.eng) = {}
    BY <2>6, NoneOf DEF EngineOK, Held, OpenIds
  <2>8. c.id = e.open.id /\ OpenIds(e) = {c.id}
    BY <1>6, <2>2, OwnTerms DEF EngineOK, OpenIds
  <2>9. /\ Sequence(z) /\ Injective(z) /\ Len(z) = Len(e.pending) + 1
        /\ IdsOf(z) = IdsOf(e.pending) \cup {c.id}
    <3>1. Sequence(z) /\ Len(z) = Len(e.pending) + 1
      BY <1>4, <2>3, OneMore
    <3>2. IdsOf(z) = IdsOf(e.pending) \cup {c.id}
      BY <1>4, <2>3, IdsMore
    <3>3. c.id \notin IdsOf(e.pending) => Injective(z)
      BY <1>4, <2>3, OneMoreId
    <3>4. c.id \notin IdsOf(e.pending)
      BY <1>4, <2>8
    <3> QED
      BY <3>1, <3>2, <3>3, <3>4
  <2> QED
    BY <2>5, <2>6, <2>7, <2>8, <2>9 DEF HandsOver, Held
<1> QED
  BY <1>5, <1>6

LEMMA ForceCloseIds ==
  ASSUME NEW e, EngineOK(e), NEW t, NEW id, NEW r, r = ForceClose(e, t)
  PROVE  /\ HandsOver(e, id, r) /\ r.eng.open = None /\ r.eng.pending = e.pending
         /\ Len(r.closed) \in 0 .. 1 /\ r.reserved = FALSE
<1>1. PICK C : C = IF e.open = None THEN << >> ELSE <<CloseOnOwnTerms(e.open, t)>>
  OBVIOUS
<1>2. Sequence(C) /\ Injective(C) /\ IdsOf(C) = OpenIds(e) /\ (Len(C) = 0 \/ Len(C) = 1)
  BY <1>1, ClosedAlone
<1>3. r.closed = C /\ r.reserved = FALSE /\ r.eng = (IF e.open = None THEN e ELSE TakeOpen(e))
  BY <1>1 DEF ForceClose, Result
<1>4. EngineOK(r.eng) /\ r.eng.open = None /\ r.eng.pending = e.pending
  BY <1>3, TakesOpen
<1>5. Held(r.eng) = IdsOf(e.pending)
  BY <1>4 DEF Held, OpenIds
<1>6. OpenIds(e) \cap IdsOf(e.pending) = {} /\ Held(e) = OpenIds(e) \cup IdsOf(e.pending)
  BY Apart DEF Held
<1>7. r.closed = C /\ r.reserved = FALSE
  BY <1>3
<1>8. HandsOver(e, id, r)
  BY <1>2, <1>4, <1>5, <1>6, <1>7 DEF HandsOver
<1> QED
  BY <1>2, <1>4, <1>7, <1>8

-----------------------------------------------------------------------------
(* The log.                                                                *)

LEMMA TurnLogged ==
  ASSUME Sequence(logf), NEW t, logf' = Append(logf, TurnRecord(t))
  PROVE  Sequence(logf') /\ LoggedIds' = LoggedIds \cup {t.id}
<1>1. PICK x : x = TurnRecord(t)
  OBVIOUS
<1>2. x.kind = "turn" /\ x.id = t.id
  BY <1>1 DEF TurnRecord
<1>3. Sequence(logf') /\ Range(logf') = Range(logf) \cup {x}
  BY <1>1, OneMore
<1> QED
  BY <1>2, <1>3 DEF LoggedIds

LEMMA EpochLogged ==
  ASSUME Sequence(logf), NEW event \in {"start", "stop"}, NEW n,
         logf' = Append(logf, EpochRecord(event, n))
  PROVE  Sequence(logf') /\ LoggedIds' = LoggedIds
<1>1. PICK x : x = EpochRecord(event, n)
  OBVIOUS
<1>2. x.kind # "turn"
  BY <1>1 DEF EpochRecord
<1>3. Sequence(logf') /\ Range(logf') = Range(logf) \cup {x}
  BY <1>1, OneMore
<1> QED
  BY <1>2, <1>3 DEF LoggedIds

LEMMA Ingested ==
  ASSUME Sequence(memory), NEW s, NEW turn, Ingest(s, turn)
  PROVE  /\ Sequence(memory')
         /\ \A m \in Range(memory') : m \in Range(memory) \/ m.turn = turn
<1>1. CASE memory' = memory
  BY <1>1
<1>2. CASE memory' = Append(memory, [em |-> s.em, turn |-> turn])
  <2>1. PICK x : x = [em |-> s.em, turn |-> turn]
    OBVIOUS
  <2>2. Sequence(memory') /\ Range(memory') = Range(memory) \cup {x} /\ x.turn = turn
    BY <1>2, <2>1, OneMore
  <2> QED
    BY <2>2
<1> QED
  BY <1>1, <1>2 DEF Ingest

-----------------------------------------------------------------------------
(* What a step of the engine does to the ids.                              *)

EngineMoved ==
  /\ EngineOK(eng') /\ Sequence(queue') /\ Injective(queue')
  /\ IdsOf(queue') \cap Held(eng') = {}
  /\ Held(eng) \subseteq IdsOf(queue') \cup Held(eng')
  /\ IdsOf(queue') \cup Held(eng') \subseteq Held(eng) \cup {nextId}
  /\ nextId' \in {nextId, nextId + 1}
  /\ nextId' = nextId => nextId \notin IdsOf(queue') \cup Held(eng')
  /\ now' \in Nat /\ UNCHANGED <<logf, journal, memory>>

LEMMA Ids ==
  ASSUME IdsInv
  PROVE  /\ nextId \in Nat /\ nextId + 1 \in Nat /\ now \in Nat /\ EngineOK(eng)
         /\ nextId \notin Held(eng) /\ nextId \notin LoggedIds
  BY DEF IdsInv

LEMMA Moved ==
  ASSUME IdsInv, NEW r, HandsOver(eng, nextId, r), eng' = r.eng, queue' = r.closed,
         nextId' = IF r.reserved THEN nextId + 1 ELSE nextId,
         now' \in Nat, UNCHANGED <<logf, journal, memory>>
  PROVE  EngineMoved
<1>1. /\ EngineOK(eng') /\ Sequence(queue') /\ Injective(queue')
      /\ IdsOf(queue') \cap Held(eng') = {}
      /\ IdsOf(queue') \cup Held(eng') = Held(eng) \cup (IF r.reserved THEN {nextId} ELSE {})
      /\ r.reserved \in BOOLEAN
  BY DEF HandsOver
<1>2. nextId \notin Held(eng) /\ nextId \in Nat
  BY Ids
<1>3. nextId' \in {nextId, nextId + 1} /\ (nextId' = nextId => ~ r.reserved)
  BY <1>2
<1>4. nextId' = nextId => nextId \notin IdsOf(queue') \cup Held(eng')
  BY <1>1, <1>2, <1>3
<1> QED
  BY <1>1, <1>3, <1>4 DEF EngineMoved

LEMMA MovedIds ==
  ASSUME IdsInv, EngineMoved
  PROVE  IdsInv'
<1>1. LoggedIds' = LoggedIds /\ JournalIds' = JournalIds
  BY DEF EngineMoved, LoggedIds, JournalIds
<1>2. nextId \in Nat /\ nextId' \in Nat /\ nextId <= nextId' /\ nextId \notin LoggedIds
  BY Ids DEF EngineMoved
<1>3. LoggedIds \cap (IdsOf(queue') \cup Held(eng')) = {}
  BY <1>2 DEF IdsInv, EngineMoved
<1>4. ASSUME NEW i \in LoggedIds \cup IdsOf(queue') \cup Held(eng') \cup JournalIds
      PROVE  i \in Nat /\ i < nextId'
  <2>1. CASE i \in LoggedIds \cup Held(eng) \cup JournalIds
    <3>1. i \in Nat /\ i < nextId
      BY <2>1 DEF IdsInv
    <3> QED
      BY <1>2, <3>1
  <2>2. CASE i = nextId /\ i \in IdsOf(queue') \cup Held(eng')
    <3>1. nextId' = nextId + 1
      BY <2>2 DEF EngineMoved
    <3> QED
      BY <1>2, <2>2, <3>1
  <2> QED
    BY <1>4, <2>1, <2>2 DEF EngineMoved
<1>5. Sequence(logf') /\ Sequence(memory')
  BY DEF IdsInv, EngineMoved
<1> QED
  BY <1>1, <1>2, <1>3, <1>4, <1>5 DEF IdsInv, EngineMoved

LEMMA FlushMoves ==
  ASSUME TurnsInv, Flush
  PROVE  EngineMoved /\ queue' = << >>
<1>1. PICK t \in now .. now + 1, git \in BOOLEAN, burst \in BOOLEAN :
        LET g == IF git THEN ObserveGitChange(eng, t) ELSE eng
            r == ObserveChanges(g, t, IF burst THEN OneFile ELSE << >>, nextId)
        IN /\ now' = t
           /\ eng' = r.eng
           /\ nextId' = IF r.reserved THEN nextId + 1 ELSE nextId
  BY DEF Flush
<1>2. PICK g : g = IF git THEN ObserveGitChange(eng, t) ELSE eng
  OBVIOUS
<1>3. PICK obs \in {<< >>, OneFile} : obs = IF burst THEN OneFile ELSE << >>
  OBVIOUS
<1>4. PICK r : r = ObserveChanges(g, t, obs, nextId)
  OBVIOUS
<1>5. now' = t /\ eng' = r.eng /\ nextId' = IF r.reserved THEN nextId + 1 ELSE nextId
  BY <1>1, <1>2, <1>3, <1>4
<1>6. queue = << >> /\ eng.pending = << >> /\ IdsInv
  BY DEF TurnsInv, StageInv, Flush, HandlingSignals
<1>7. nextId \in Nat /\ now \in Nat /\ EngineOK(eng) /\ nextId \notin Held(eng)
  BY <1>6, Ids
<1>8. t \in Nat
  BY <1>7
<1>9. EngineOK(g) /\ Held(g) = Held(eng)
  BY <1>2, <1>6, <1>7, <1>8, ObserveGitChangeIds
<1>10. HandsOver(g, nextId, r) /\ r.closed = << >>
  BY <1>4, <1>7, <1>8, <1>9, ObserveChangesIds
<1>11. HandsOver(eng, nextId, r)
  BY <1>9, <1>10 DEF HandsOver
<1>12. queue' = << >> /\ UNCHANGED <<logf, journal, memory>>
  BY <1>6 DEF Flush, disk
<1> QED
  BY <1>5, <1>6, <1>8, <1>10, <1>11, <1>12, Moved

LEMMA ApplyMoves ==
  ASSUME KeyInv, TurnsInv, ApplySignal
  PROVE  EngineMoved /\ Len(queue') \in 0 .. 2 /\ eng'.pending = eng.pending
<1>1. PICK s : s = Head(batch)
  OBVIOUS
<1>2. PICK r : r = IF s.kind = "start"
                   THEN ObserveStart(eng, now, Tool, s.turn, nextId)
                   ELSE ObserveStop(eng, now, Tool, nextId)
  OBVIOUS
<1>3. /\ eng' = r.eng /\ queue' = r.closed
      /\ nextId' = IF r.reserved THEN nextId + 1 ELSE nextId
      /\ now' = now /\ UNCHANGED <<logf, journal, memory>>
  BY <1>1, <1>2 DEF ApplySignal, disk
<1>4. s.turn \in Nat \cup {None}
  <2>1. batch # << >> /\ batch \in Seq(Lines)
    BY DEF ApplySignal, KeyInv, BatchInv
  <2>2. s \in Lines
    BY <1>1, <2>1
  <2> QED
    BY <2>2 DEF Lines
<1>5. /\ IdsInv /\ nextId \in Nat /\ now \in Nat /\ EngineOK(eng) /\ nextId \notin Held(eng)
  BY Ids DEF TurnsInv
<1>6. HandsOver(eng, nextId, r) /\ Len(r.closed) \in 0 .. 2 /\ r.eng.pending = eng.pending
  <2>1. CASE s.kind = "start"
    <3>1. r = ObserveStart(eng, now, Tool, s.turn, nextId)
      BY <1>2, <2>1
    <3>2. PICK k : k = s.turn
      OBVIOUS
    <3>3. k \in Nat \cup {None} /\ r = ObserveStart(eng, now, Tool, k, nextId)
      BY <1>4, <3>1, <3>2
    <3>4. /\ EngineOK(eng) /\ now \in Nat /\ k \in Nat \cup {None} /\ nextId \in Nat
          /\ nextId \notin Held(eng)
      BY <1>5, <3>3
    <3>5. r = ObserveStart(eng, now, Tool, k, nextId)
      BY <3>3
    <3> QED
      BY <3>4, <3>5, ObserveStartIds, SMTT(60)
  <2>2. CASE s.kind # "start"
    <3>1. r = ObserveStop(eng, now, Tool, nextId)
      BY <1>2, <2>2
    <3> QED
      BY <1>5, <3>1, ObserveStopIds
  <2> QED
    BY <2>1, <2>2
<1> QED
  BY <1>3, <1>5, <1>6, Moved

LEMMA TickMoves ==
  ASSUME TurnsInv, TickTurn
  PROVE  /\ EngineMoved /\ eng'.pending = << >>
         /\ Len(queue') \in {Len(eng.pending), Len(eng.pending) + 1}
<1>1. PICK r : r = Tick(eng, now)
  OBVIOUS
<1>2. /\ eng' = r.eng /\ queue' = r.closed /\ nextId' = nextId /\ now' = now
      /\ UNCHANGED <<logf, journal, memory>>
  BY <1>1 DEF TickTurn, disk, env
<1>3. /\ IdsInv /\ now \in Nat /\ EngineOK(eng)
  BY Ids DEF TurnsInv
<1>4. /\ HandsOver(eng, nextId, r) /\ r.eng.pending = << >> /\ r.reserved = FALSE
      /\ Len(r.closed) \in {Len(eng.pending), Len(eng.pending) + 1}
  BY <1>1, <1>3, TickIds
<1>5. EngineMoved
  <2>1. nextId' = IF r.reserved THEN nextId + 1 ELSE nextId
    BY <1>2, <1>4
  <2> QED
    BY <1>2, <1>3, <1>4, <2>1, Moved
<1> QED
  BY <1>2, <1>4, <1>5

LEMMA StoppingMoves ==
  ASSUME TurnsInv, Stopping
  PROVE  EngineMoved /\ Len(queue') \in 0 .. 1 /\ eng'.open = None /\ eng'.pending = << >>
<1>1. PICK burst \in BOOLEAN :
        LET r == ObserveChanges(eng, now, IF burst THEN OneFile ELSE << >>, nextId)
            c == ForceClose(r.eng, now)
        IN /\ eng' = c.eng /\ queue' = c.closed
           /\ nextId' = IF r.reserved THEN nextId + 1 ELSE nextId
  BY DEF Stopping
<1>2. PICK obs \in {<< >>, OneFile} : obs = IF burst THEN OneFile ELSE << >>
  OBVIOUS
<1>3. PICK r : r = ObserveChanges(eng, now, obs, nextId)
  OBVIOUS
<1>4. PICK c : c = ForceClose(r.eng, now)
  OBVIOUS
<1>5. /\ eng' = c.eng /\ queue' = c.closed
      /\ nextId' = IF r.reserved THEN nextId + 1 ELSE nextId
      /\ now' = now /\ UNCHANGED <<logf, journal, memory>>
  BY <1>1, <1>2, <1>3, <1>4 DEF Stopping, disk
<1>6. eng.pending = << >> /\ IdsInv
  BY DEF TurnsInv, StageInv, Stopping, HandlingSignals
<1>7. nextId \in Nat /\ now \in Nat /\ EngineOK(eng) /\ nextId \notin Held(eng)
  BY <1>6, Ids
<1>8. HandsOver(eng, nextId, r) /\ r.closed = << >> /\ r.eng.pending = << >>
  BY <1>3, <1>6, <1>7, ObserveChangesIds
<1>9. /\ EngineOK(r.eng) /\ r.reserved \in BOOLEAN
      /\ Held(r.eng) = Held(eng) \cup (IF r.reserved THEN {nextId} ELSE {})
  BY <1>8, NoneOf DEF HandsOver
<1>10. /\ HandsOver(r.eng, nextId, c) /\ c.eng.open = None /\ c.eng.pending = << >>
       /\ Len(c.closed) \in 0 .. 1 /\ c.reserved = FALSE
  <2>1. PICK e : e = r.eng
    OBVIOUS
  <2>2. c = ForceClose(e, now) /\ EngineOK(e)
    BY <1>4, <1>9, <2>1
  <2>3. /\ HandsOver(e, nextId, c) /\ c.eng.open = None /\ c.eng.pending = e.pending
        /\ Len(c.closed) \in 0 .. 1 /\ c.reserved = FALSE
    BY <2>2, ForceCloseIds
  <2> QED
    BY <1>8, <2>1, <2>3
<1>11. /\ EngineOK(eng') /\ Sequence(queue') /\ Injective(queue')
       /\ IdsOf(queue') \cap Held(eng') = {}
       /\ IdsOf(queue') \cup Held(eng') = Held(eng) \cup (IF r.reserved THEN {nextId} ELSE {})
  BY <1>5, <1>9, <1>10 DEF HandsOver
<1>12. nextId' \in {nextId, nextId + 1} /\ (nextId' = nextId => ~ r.reserved)
  BY <1>5, <1>7, <1>9
<1>13. nextId' = nextId => nextId \notin IdsOf(queue') \cup Held(eng')
  BY <1>7, <1>11, <1>12
<1>14. EngineMoved
  BY <1>5, <1>7, <1>11, <1>12, <1>13 DEF EngineMoved
<1> QED
  BY <1>5, <1>10, <1>14

-----------------------------------------------------------------------------
(* The steps, and where the daemon is after them.                          *)

LEMMA SameIds ==
  ASSUME IdsInv, UNCHANGED <<logf, queue, eng, now, nextId>>, Sequence(memory'),
         JournalIds' \subseteq JournalIds \cup Held(eng)
  PROVE  IdsInv'
<1>1. LoggedIds' = LoggedIds
  BY DEF LoggedIds
<1> QED
  BY <1>1 DEF IdsInv

LEMMA SameJournal == UNCHANGED journal => JournalIds' = JournalIds
  BY DEF JournalIds

(* The daemon goes on without a change of what TurnsInv speaks of. *)
LEMMA OutsideSteps ==
  ASSUME TurnsInv, Emit \/ Resend
  PROVE  TurnsInv'
<1>1. UNCHANGED <<logf, journal, memory, mem, nextId>>
  BY DEF Emit, Resend, env
<1>2. IdsInv'
  BY <1>1, SameIds, SameJournal DEF TurnsInv, IdsInv, mem
<1>3. StageInv'
  BY <1>1, SameJournal DEF TurnsInv, StageInv, mem, Starting, HandlingSignals, Closing
<1> QED
  BY <1>2, <1>3 DEF TurnsInv

LEMMA DeadIds ==
  /\ EngineOK(NewEngine) /\ NewEngine.open = None /\ NewEngine.pending = << >>
  /\ Held(NewEngine) = {} /\ OpenIds(NewEngine) = {}
<1>1. IsEngine(NewEngine) /\ NewEngine.open = None /\ NewEngine.pending = << >>
  BY DEF IsEngine, NewEngine
<1> QED
  BY <1>1, NoneOf DEF EngineOK, Held, OpenIds

(* Nothing is held by a daemon that does not run. *)
LEMMA DieStep ==
  ASSUME IdsInv, Die, Sequence(logf'), LoggedIds' = LoggedIds,
         UNCHANGED <<journal, memory, nextId>>
  PROVE  TurnsInv'
<1>1. /\ pc' = "down" /\ eng' = NewEngine /\ queue' = << >> /\ now' = 0
  BY DEF Die
<1>2. JournalIds' = JournalIds
  BY SameJournal
<1>3. IdsInv'
  BY <1>1, <1>2, DeadIds, NoneOf DEF IdsInv
<1>4. StageInv'
  BY <1>1, <1>2, DeadIds DEF StageInv, Starting, HandlingSignals, Closing
<1> QED
  BY <1>3, <1>4 DEF TurnsInv

LEMMA DieSteps ==
  ASSUME TurnsInv, Crash \/ StopEpoch
  PROVE  TurnsInv'
<1>1. IdsInv
  BY DEF TurnsInv
<1>2. CASE Crash
  <2>1. Sequence(logf') /\ LoggedIds' = LoggedIds
    BY <1>1, <1>2 DEF Crash, disk, IdsInv, LoggedIds
  <2> QED
    BY <1>1, <1>2, <2>1, DieStep DEF Crash, disk
<1>3. CASE StopEpoch
  <2>1. Sequence(logf') /\ LoggedIds' = LoggedIds
    BY <1>1, <1>3, EpochLogged DEF StopEpoch, IdsInv
  <2> QED
    BY <1>1, <1>3, <2>1, DieStep DEF StopEpoch, env
<1> QED
  BY <1>2, <1>3

LEMMA StartingSteps ==
  ASSUME TurnsInv, Boot \/ RecoverSkip \/ RecoverRemove \/ Scan \/ ReplayLine \/ ReplayDone
  PROVE  TurnsInv'
<1> USE DEF Goto
<1>1. /\ UNCHANGED <<logf, queue, eng, now, nextId>> /\ Sequence(memory)
      /\ pc \in Starting /\ pc' \in Starting
      /\ pc' \in {"scan", "replay", "epoch"} => journal' = None
      /\ memory' = memory \/ ReplayLine
  BY DEF TurnsInv, IdsInv, StageInv, Boot, RecoverSkip, RecoverRemove, Scan, ReplayLine,
         ReplayDone, disk, env, Starting
<1>2. JournalIds' \subseteq JournalIds
  BY DEF Boot, RecoverSkip, RecoverRemove, Scan, ReplayLine, ReplayDone, disk, JournalIds
<1>3. Sequence(memory')
  <2>1. CASE memory' = memory
    BY <1>1, <2>1
  <2>2. CASE ReplayLine /\ memory' # memory
    <3>1. Ingest(Head(batch), None)
      BY <2>2 DEF ReplayLine
    <3> QED
      BY <1>1, <3>1, Ingested
  <2> QED
    BY <1>1, <2>1, <2>2
<1>4. IdsInv'
  BY <1>1, <1>2, <1>3, SameIds DEF TurnsInv
<1>5. StageInv'
  BY <1>1 DEF TurnsInv, StageInv, Starting, HandlingSignals, Closing
<1> QED
  BY <1>4, <1>5 DEF TurnsInv

LEMMA RecoverStep ==
  ASSUME TurnsInv, RecoverAppend
  PROVE  TurnsInv'
<1>1. PICK t : t = [ id |-> journal.id, merges |-> {},
                     grade |-> IF journal.source = "quiet" THEN "bare" ELSE "rich" ]
  OBVIOUS
<1>2. /\ pc = "recover" /\ pc' = "unjournal" /\ journal # None
      /\ logf' = Append(logf, TurnRecord(t)) /\ t.id = journal.id
      /\ UNCHANGED <<journal, memory, eng, now, queue, nextId>>
  BY <1>1 DEF RecoverAppend, Goto, env
<1>3. IdsInv /\ eng = NewEngine /\ queue = << >>
  BY <1>2 DEF TurnsInv, StageInv, Starting
<1>4. Sequence(logf') /\ LoggedIds' = LoggedIds \cup {journal.id}
  BY <1>2, <1>3, TurnLogged DEF IdsInv
<1>5. JournalIds = {journal.id} /\ JournalIds' = JournalIds
  BY <1>2, SameJournal DEF JournalIds
<1>6. IdsInv'
  BY <1>2, <1>3, <1>4, <1>5, DeadIds, NoneOf DEF IdsInv
<1>7. StageInv'
  BY <1>2, <1>3 DEF TurnsInv, StageInv, Starting, HandlingSignals, Closing
<1> QED
  BY <1>6, <1>7 DEF TurnsInv

LEMMA StartEpochStep ==
  ASSUME TurnsInv, StartEpoch
  PROVE  TurnsInv'
<1>1. /\ pc = "epoch" /\ pc' = "flush" /\ logf' = Append(logf, EpochRecord("start", dropped))
      /\ UNCHANGED <<journal, memory, eng, now, queue, nextId>>
  BY DEF StartEpoch, Goto, env
<1>2. IdsInv /\ eng = NewEngine /\ queue = << >> /\ journal = None
  BY <1>1 DEF TurnsInv, StageInv, Starting
<1>3. Sequence(logf') /\ LoggedIds' = LoggedIds
  BY <1>1, <1>2, EpochLogged DEF IdsInv
<1>4. JournalIds' = JournalIds /\ JournalIds = {}
  BY <1>1, <1>2, SameJournal DEF JournalIds
<1>5. IdsInv'
  BY <1>1, <1>2, <1>3, <1>4 DEF IdsInv
<1>6. StageInv'
  BY <1>1, <1>2, <1>4, DeadIds DEF TurnsInv, StageInv, Starting, HandlingSignals, Closing
<1> QED
  BY <1>5, <1>6 DEF TurnsInv

LEMMA EngineSteps ==
  ASSUME KeyInv, TurnsInv, Flush \/ ApplySignal \/ TickTurn \/ Stopping
  PROVE  TurnsInv'
<1> USE DEF Goto
<1>1. EngineMoved
  BY FlushMoves, ApplyMoves, TickMoves, StoppingMoves
<1>2. IdsInv'
  BY <1>1, MovedIds DEF TurnsInv
<1>3. JournalIds' = JournalIds
  BY <1>1, SameJournal DEF EngineMoved
<1>4. CASE Flush
  <2>1. pc' = "poll" /\ pc = "flush" /\ queue' = << >>
    BY <1>4, FlushMoves DEF Flush
  <2>2. JournalIds' \subseteq Held(eng')
    BY <1>1, <1>3, <2>1, NoneOf DEF TurnsInv, StageInv, EngineMoved
  <2> QED
    BY <1>2, <2>1, <2>2 DEF TurnsInv, StageInv, Starting, HandlingSignals, Closing
<1>5. CASE ApplySignal
  <2>1. pc' = "persist" /\ after' = "signals"
    BY <1>5 DEF ApplySignal
  <2> QED
    BY <1>2, <2>1 DEF TurnsInv, StageInv, Starting, HandlingSignals, Closing
<1>6. CASE TickTurn
  <2>1. pc' = "persist" /\ after' = "sync" /\ eng'.pending = << >>
    BY <1>6, TickMoves DEF TickTurn
  <2> QED
    BY <1>2, <2>1 DEF TurnsInv, StageInv, Starting, HandlingSignals, Closing
<1>7. CASE Stopping
  <2>1. pc' = "persist" /\ after' = "unmirror" /\ eng'.open = None /\ eng'.pending = << >>
    BY <1>7, StoppingMoves DEF Stopping
  <2> QED
    BY <1>2, <2>1 DEF TurnsInv, StageInv, Starting, HandlingSignals, Closing
<1> QED
  BY <1>4, <1>5, <1>6, <1>7

LEMMA SignalSteps ==
  ASSUME TurnsInv,
         \/ Poll \/ IngestLine \/ DropResend \/ Mark \/ MarkFails
         \/ Unkeyed \/ DropMismatched \/ Persisted
  PROVE  TurnsInv'
<1> USE DEF Goto
<1>1. /\ UNCHANGED <<logf, journal, queue, eng, now, nextId>> /\ Sequence(memory)
      /\ memory' = memory \/ IngestLine
  BY DEF TurnsInv, IdsInv, Poll, IngestLine, DropResend, Mark, MarkFails, Unkeyed,
         DropMismatched, Persisted, disk, env
<1>2. Sequence(memory')
  <2>1. CASE IngestLine
    <3>1. Ingest(Head(batch), IF eng.open = None THEN None ELSE eng.open.id)
      BY <2>1 DEF IngestLine
    <3> QED
      BY <1>1, <3>1, Ingested
  <2> QED
    BY <1>1, <2>1
<1>3. IdsInv' /\ JournalIds' = JournalIds
  BY <1>1, <1>2, SameIds, SameJournal DEF TurnsInv
<1>4. CASE Persisted
  <2>1. pc = "persist" /\ queue = << >> /\ pc' = after /\ after' = after
    BY <1>4 DEF Persisted
  <2> QED
    BY <1>1, <1>3, <2>1 DEF TurnsInv, StageInv, Starting, HandlingSignals, Closing
<1>5. CASE ~ Persisted
  <2>1. pc \notin {"persist"} /\ pc' \in {"signals", "apply"}
    BY <1>5 DEF Poll, IngestLine, DropResend, Mark, MarkFails, Unkeyed, DropMismatched
  <2> QED
    BY <1>1, <1>3, <2>1 DEF TurnsInv, StageInv, Starting, HandlingSignals, Closing
<1> QED
  BY <1>4, <1>5

(* The journal mirrors the open turn: its id, or none. *)
LEMMA Mirrored ==
  ASSUME EngineOK(eng), SyncJournal(eng)
  PROVE  /\ JournalIds' = OpenIds(eng) /\ durable' = durable \cup OpenIds(eng)
         /\ eng.open = None => journal' = None
<1>1. CASE eng.open = None
  BY <1>1 DEF SyncJournal, Snapshot, JournalIds, OpenIds
<1>2. CASE eng.open # None
  <2>1. PICK j : j = [id |-> eng.open.id, source |-> eng.open.source]
    OBVIOUS
  <2>2. j \in Journals /\ j.id = eng.open.id
    BY <1>2, <2>1 DEF EngineOK, OpenTurns, Journals
  <2>3. j # None
    BY <2>2, NoneAssumption
  <2>4. journal' = j
    BY <1>2, <2>1 DEF SyncJournal, Snapshot
  <2> QED
    BY <1>2, <2>2, <2>3, <2>4 DEF SyncJournal, JournalIds, OpenIds
<1> QED
  BY <1>1, <1>2

LEMMA JournalSteps ==
  ASSUME TurnsInv, Candidate \/ Sync \/ FinalSync
  PROVE  TurnsInv'
<1> USE DEF Goto
<1>1. /\ UNCHANGED <<logf, memory, queue, eng, now, nextId>> /\ Sequence(memory) /\ EngineOK(eng)
  BY DEF TurnsInv, IdsInv, Candidate, Sync, FinalSync, env
<1>2. CASE Candidate
  <2>1. JournalIds' = JournalIds \/ JournalIds' = OpenIds(eng)
    BY <1>1, <1>2, Mirrored, SameJournal DEF Candidate
  <2>2. IdsInv'
    BY <1>1, <2>1, SameIds DEF TurnsInv, Held
  <2>3. pc = "signals" /\ pc' = "ingest"
    BY <1>2 DEF Candidate
  <2> QED
    BY <1>1, <2>2, <2>3 DEF TurnsInv, StageInv, Starting, HandlingSignals, Closing
<1>3. CASE Sync \/ FinalSync
  <2>1. JournalIds' = OpenIds(eng) /\ (eng.open = None => journal' = None)
    BY <1>1, <1>3, Mirrored DEF Sync, FinalSync
  <2>2. IdsInv'
    BY <1>1, <2>1, SameIds DEF TurnsInv, Held
  <2>3. \/ pc = "sync" /\ pc' \in {"flush", "stopping"}
        \/ pc = "unmirror" /\ pc' = "stopped"
    BY <1>3 DEF Sync, FinalSync
  <2>4. JournalIds' \subseteq Held(eng')
    BY <1>1, <2>1 DEF Held
  <2> QED
    BY <1>1, <2>1, <2>2, <2>3, <2>4 DEF TurnsInv, StageInv, Starting, HandlingSignals, Closing
<1> QED
  BY <1>2, <1>3

(* One closed turn goes from the queue to the log. *)
LEMMA PersistDoes ==
  ASSUME TurnsInv, Persist
  PROVE  /\ Sequence(queue') /\ Injective(queue') /\ Len(queue) = Len(queue') + 1
         /\ Len(queue') \in Nat /\ Sequence(logf') /\ LoggedIds' = LoggedIds \cup {Head(queue).id}
         /\ IdsOf(queue) = IdsOf(queue') \cup {Head(queue).id}
         /\ Head(queue).id \notin IdsOf(queue')
         /\ logf' = Append(logf, TurnRecord(Head(queue)))
         /\ UNCHANGED <<journal, memory, eng, now, nextId, pc, after, batch>>
         /\ pc = "persist" /\ JournalIds' = JournalIds
<1>1. /\ queue # << >> /\ queue' = Tail(queue)
      /\ logf' = Append(logf, TurnRecord(Head(queue)))
      /\ UNCHANGED <<journal, memory, eng, now, nextId, pc, after, batch>>
      /\ pc = "persist" /\ JournalIds' = JournalIds
  BY SameJournal DEF Persist, env
<1>2. Sequence(queue) /\ Injective(queue) /\ Sequence(logf)
  BY DEF TurnsInv, IdsInv
<1>3. PICK z : z = Tail(queue)
  OBVIOUS
<1>4. /\ Sequence(z) /\ Injective(z) /\ Len(queue) = Len(z) + 1 /\ Len(z) \in Nat
      /\ IdsOf(queue) = IdsOf(z) \cup {Head(queue).id} /\ Head(queue).id \notin IdsOf(z)
  BY <1>1, <1>2, <1>3, OneLess
<1>5. queue' = z
  BY <1>1, <1>3
<1>6. Sequence(logf') /\ LoggedIds' = LoggedIds \cup {Head(queue).id}
  BY <1>1, <1>2, TurnLogged
<1> QED
  BY <1>1, <1>4, <1>5, <1>6

LEMMA PersistStep ==
  ASSUME TurnsInv, Persist
  PROVE  TurnsInv'
<1>1. PICK i : i = Head(queue).id
  OBVIOUS
<1>2. /\ Sequence(queue') /\ Injective(queue') /\ Sequence(logf')
      /\ LoggedIds' = LoggedIds \cup {i}
      /\ IdsOf(queue) = IdsOf(queue') \cup {i} /\ i \notin IdsOf(queue')
      /\ UNCHANGED <<journal, memory, eng, now, nextId, pc, after>>
      /\ pc = "persist" /\ JournalIds' = JournalIds
  BY <1>1, PersistDoes
<1>3. IdsInv'
  BY <1>2 DEF TurnsInv, IdsInv
<1>4. StageInv'
  BY <1>2 DEF TurnsInv, StageInv, Starting, HandlingSignals, Closing
<1> QED
  BY <1>3, <1>4 DEF TurnsInv

LEMMA TurnsBegin == Init => TurnsInv
<1> SUFFICES ASSUME Init PROVE TurnsInv
  OBVIOUS
<1>1. /\ logf = << >> /\ journal = None /\ memory = << >> /\ pc = "down"
      /\ eng = NewEngine /\ queue = << >> /\ now = 0 /\ nextId = 1
  BY DEF Init
<1>2. LoggedIds = {} /\ JournalIds = {}
  BY <1>1 DEF LoggedIds, JournalIds, Range
<1>3. IdsInv
  BY <1>1, <1>2, DeadIds, NoneOf DEF IdsInv
<1>4. StageInv
  BY <1>1, DeadIds DEF StageInv, Starting, HandlingSignals, Closing
<1> QED
  BY <1>3, <1>4 DEF TurnsInv

LEMMA TurnsContinue == KeyInv /\ TurnsInv /\ [Next]_vars => TurnsInv'
<1> SUFFICES ASSUME KeyInv, TurnsInv, [Next]_vars PROVE TurnsInv'
  OBVIOUS
<1>1. CASE Next
  BY <1>1, OutsideSteps, DieSteps, StartingSteps, RecoverStep, StartEpochStep, EngineSteps,
     SignalSteps, JournalSteps, PersistStep
  DEF Next, Daemon, Environment
<1>2. CASE UNCHANGED vars
  <2>1. UNCHANGED <<logf, journal, memory, queue, eng, now, nextId, pc, after, batch>>
    BY <1>2 DEF vars, disk, mem, env
  <2>2. IdsInv'
    BY <2>1, SameIds, SameJournal DEF TurnsInv, IdsInv
  <2>3. StageInv'
    BY <2>1, SameJournal DEF TurnsInv, StageInv, Starting, HandlingSignals, Closing
  <2> QED
    BY <2>2, <2>3 DEF TurnsInv
<1> QED
  BY <1>1, <1>2

(* Ids are apart, wherever the daemon is. *)
THEOREM TurnsApart == Spec => []TurnsInv
<1>1. Init => KeyInv /\ TurnsInv
  BY Begins, TurnsBegin
<1>2. KeyInv /\ TurnsInv /\ [Next]_vars => (KeyInv /\ TurnsInv)'
  BY Continues, TurnsContinue
<1> QED
  BY <1>1, <1>2, PTL DEF Spec

-----------------------------------------------------------------------------
(* One record for every turn.                                              *)

LEMMA LoggedPlaces ==
  \A k \in DOMAIN logf : logf[k].kind = "turn" => logf[k].id \in LoggedIds
  BY DEF LoggedIds, Range

LEMMA Kept ==
  ASSUME WindowInv, UNCHANGED logf, JournalIds' \cap LoggedIds \subseteq JournalIds,
         ToAppend' \in Nat, ToAppend \in Nat, ToAppend' <= ToAppend, Sequence(logf),
         (HandlingSignals \/ pc = "persist" \/ ToAppend' = 0)
  PROVE  WindowInv'
<1>1. \A i \in DOMAIN logf : Len(logf) \in Nat /\ i \in Nat
  BY AnySequence DEF Sequence
<1>2. ToAppend' <= TailWindow
  BY TailWindowAssumption DEF WindowInv
<1>3. LoggedOnce'
  BY DEF WindowInv, LoggedOnce
<1>4. ASSUME NEW i \in DOMAIN logf, logf[i].kind = "turn", logf[i].id \in JournalIds'
      PROVE  Len(logf) - i + ToAppend' < TailWindow
  <2>1. logf[i].id \in JournalIds
    BY <1>4, LoggedPlaces
  <2>2. Len(logf) - i + ToAppend < TailWindow
    BY <1>4, <2>1 DEF WindowInv
  <2> QED
    BY <1>1, <2>2, TailWindowAssumption
<1> QED
  BY <1>2, <1>3, <1>4 DEF WindowInv

(* A record of a turn that is not in the log. *)
LEMMA Recorded ==
  ASSUME LoggedOnce, Sequence(logf), NEW t, t.id \notin LoggedIds,
         logf' = Append(logf, TurnRecord(t))
  PROVE  /\ LoggedOnce' /\ Len(logf') = Len(logf) + 1 /\ Len(logf) \in Nat
         /\ \A i \in DOMAIN logf' : \/ i \in DOMAIN logf /\ logf'[i] = logf[i]
                                    \/ i = Len(logf')
         /\ DOMAIN logf = 1 .. Len(logf)
<1>1. PICK x : x = TurnRecord(t)
  OBVIOUS
<1>2. x.kind = "turn" /\ x.id = t.id
  BY <1>1 DEF TurnRecord
<1>3. /\ Len(logf') = Len(logf) + 1 /\ Len(logf) \in Nat
      /\ DOMAIN logf = 1 .. Len(logf) /\ DOMAIN logf' = 1 .. Len(logf) + 1
      /\ logf'[Len(logf) + 1] = x /\ \A i \in DOMAIN logf : logf'[i] = logf[i]
  BY <1>1, OneMore
<1>4. \A i \in DOMAIN logf' : \/ i \in DOMAIN logf /\ logf'[i] = logf[i]
                              \/ i = Len(logf) + 1 /\ logf'[i] = x
  BY <1>3
<1>5. \A i \in DOMAIN logf : logf[i].kind = "turn" => logf[i].id # t.id
  BY LoggedPlaces
<1>6. LoggedOnce'
  <2>1. ASSUME NEW i \in DOMAIN logf', NEW j \in DOMAIN logf', logf'[i].kind = "turn",
               logf'[j].kind = "turn", logf'[i].id = logf'[j].id
        PROVE  i = j
    BY <1>2, <1>4, <1>5, <2>1 DEF LoggedOnce
  <2> QED
    BY <2>1 DEF LoggedOnce
<1> QED
  BY <1>3, <1>4, <1>6

LEMMA EpochRecorded ==
  ASSUME LoggedOnce, Sequence(logf), NEW event \in {"start", "stop"}, NEW n,
         logf' = Append(logf, EpochRecord(event, n))
  PROVE  LoggedOnce'
<1>1. PICK x : x = EpochRecord(event, n)
  OBVIOUS
<1>2. x.kind # "turn"
  BY <1>1 DEF EpochRecord
<1>3. /\ Len(logf) \in Nat
      /\ DOMAIN logf = 1 .. Len(logf) /\ DOMAIN logf' = 1 .. Len(logf) + 1
      /\ logf'[Len(logf) + 1] = x /\ \A i \in DOMAIN logf : logf'[i] = logf[i]
  BY <1>1, OneMore
<1>4. \A i \in DOMAIN logf' : logf'[i].kind = "turn" => i \in DOMAIN logf /\ logf'[i] = logf[i]
  BY <1>2, <1>3
<1> QED
  BY <1>4 DEF LoggedOnce

(* What the queue, the batch and the turns set aside come to. *)
Counted ==
  /\ Len(queue) \in Nat /\ Len(batch) \in Nat /\ Len(eng.pending) \in 0 .. 1
  /\ ToAppend \in Nat /\ (pc # "persist" => Len(queue) = 0)
  /\ ~ HandlingSignals => ToAppend = Len(queue)
  /\ HandlingSignals =>
       ToAppend = Len(queue) + (2 * Len(batch) + (Len(eng.pending) + 1))

LEMMA Counts == KeyInv /\ TurnsInv => Counted
<1> SUFFICES ASSUME KeyInv, TurnsInv PROVE Counted
  OBVIOUS
<1>1. Len(queue) \in Nat /\ Len(batch) \in Nat
  BY AnySequence DEF TurnsInv, IdsInv, KeyInv, BatchInv, Sequence
<1>2. Len(eng.pending) \in 0 .. 1
  <2>1. CASE eng.pending = << >>
    BY <2>1, NoneOf
  <2>2. CASE eng.pending # << >>
    <3>1. PICK x : x = eng.pending[1]
      OBVIOUS
    <3>2. eng.pending = <<x>>
      BY <2>2, <3>1 DEF TurnsInv, IdsInv, EngineOK
    <3>3. Len(<<x>>) = 1
      BY OneOf
    <3> QED
      BY <3>2, <3>3
  <2> QED
    BY <2>1, <2>2
<1>3. pc # "persist" => Len(queue) = 0
  BY NoneOf DEF TurnsInv, StageInv
<1>4. HandlingSignals => ToClose = 2 * Len(batch) + (Len(eng.pending) + 1)
  BY DEF ToClose
<1>5. ~ HandlingSignals => ToClose = 0
  BY DEF ToClose
<1>6. \A a \in Nat, b \in 0 .. 1 : 2 * a + (b + 1) \in Nat
  OBVIOUS
<1>7. 2 * Len(batch) + (Len(eng.pending) + 1) \in Nat
  BY <1>1, <1>2, <1>6
<1>8. ToClose \in Nat
  <2>1. CASE HandlingSignals
    BY <1>4, <1>7, <2>1
  <2>2. CASE ~ HandlingSignals
    BY <1>5, <2>2
  <2> QED
    BY <2>1, <2>2
<1>9. ToAppend \in Nat
  BY <1>1, <1>8 DEF ToAppend
<1>10. ~ HandlingSignals => ToAppend = Len(queue)
  BY <1>1, <1>5 DEF ToAppend
<1>11. HandlingSignals => ToAppend = Len(queue) + (2 * Len(batch) + (Len(eng.pending) + 1))
  BY <1>4 DEF ToAppend
<1> QED
  BY <1>1, <1>2, <1>3, <1>9, <1>10, <1>11 DEF Counted

LEMMA Shorter ==
  ASSUME NEW s \in Seq(Lines), s # << >>
  PROVE  Len(s) = Len(Tail(s)) + 1 /\ Len(Tail(s)) \in Nat
  OBVIOUS

LEMMA WindowBegins == Init => WindowInv
<1> SUFFICES ASSUME Init PROVE WindowInv
  OBVIOUS
<1>1. logf = << >> /\ pc = "down"
  BY DEF Init
<1>2. DOMAIN logf = {}
  BY <1>1
<1> QED
  BY <1>1, <1>2 DEF WindowInv, LoggedOnce, HandlingSignals

(* No record of the journal's turn is in the log. *)
LEMMA Unrecorded ==
  ASSUME LoggedOnce', JournalIds' \cap LoggedIds' = {},
         HandlingSignals' \/ pc' = "persist" => ToAppend' <= TailWindow
  PROVE  WindowInv'
<1>1. \A k \in DOMAIN logf' : logf'[k].kind = "turn" => logf'[k].id \in LoggedIds'
  BY DEF LoggedIds, Range
<1> QED
  BY <1>1 DEF WindowInv

(* The log is as it was, and nothing is to be appended. *)
LEMMA NothingToAppend ==
  ASSUME WindowInv, Counted, Counted', Sequence(logf), UNCHANGED logf,
         JournalIds' \cap LoggedIds \subseteq JournalIds,
         ~ HandlingSignals', pc' # "persist"
  PROVE  WindowInv'
<1>1. ToAppend' = 0 /\ ToAppend \in Nat /\ ToAppend' <= ToAppend /\ ToAppend' \in Nat
  BY DEF Counted
<1> QED
  BY <1>1, Kept

(* ... or no more than before. *)
LEMMA NoMoreToAppend ==
  ASSUME WindowInv, Counted, Counted', Sequence(logf), UNCHANGED logf,
         JournalIds' \cap LoggedIds \subseteq JournalIds,
         HandlingSignals, HandlingSignals', eng'.pending = eng.pending,
         Len(queue') + 2 * Len(batch') <= Len(queue) + 2 * Len(batch)
  PROVE  WindowInv'
<1>1. /\ ToAppend \in Nat /\ ToAppend' \in Nat
      /\ ToAppend = Len(queue) + (2 * Len(batch) + (Len(eng.pending) + 1))
      /\ ToAppend' = Len(queue') + (2 * Len(batch') + (Len(eng.pending) + 1))
      /\ Len(queue) \in Nat /\ Len(batch) \in Nat /\ Len(eng.pending) \in 0 .. 1
      /\ Len(queue') \in Nat /\ Len(batch') \in Nat
  BY DEF Counted
<1>2. \A q, b, r, c \in Nat, p \in 0 .. 1 :
        r + 2 * c <= q + 2 * b => r + (2 * c + (p + 1)) <= q + (2 * b + (p + 1))
  OBVIOUS
<1>3. ToAppend' <= ToAppend
  BY <1>1, <1>2
<1> QED
  BY <1>1, <1>3, Kept

LEMMA Idle ==
  ASSUME WindowInv, Counted, Sequence(logf),
         UNCHANGED <<logf, journal, pc, after, queue, batch, eng>>
  PROVE  WindowInv'
<1>1. ToAppend' = ToAppend /\ JournalIds' = JournalIds /\ ToAppend \in Nat
  BY DEF ToAppend, ToClose, HandlingSignals, JournalIds, Counted
<1>2. HandlingSignals \/ pc = "persist" \/ ToAppend = 0
  BY DEF Counted
<1> QED
  BY <1>1, <1>2, Kept

(* Those steps that append nothing and handle no signals. *)
LEMMA WindowQuiet ==
  ASSUME TurnsInv, WindowInv, Counted, Counted',
         \/ Boot \/ RecoverSkip \/ RecoverRemove \/ Scan \/ ReplayLine \/ ReplayDone
         \/ Crash \/ Flush \/ Sync \/ FinalSync
  PROVE  WindowInv'
<1> USE DEF Goto
<1>1. /\ UNCHANGED logf
      /\ pc' \in {"recover", "unjournal", "scan", "replay", "epoch", "down", "poll",
                  "flush", "stopping", "stopped"}
  BY DEF Boot, RecoverSkip, RecoverRemove, Scan, ReplayLine, ReplayDone, Crash, Die, Flush,
         Sync, FinalSync, disk
<1>2. Sequence(logf) /\ EngineOK(eng) /\ LoggedIds \cap OpenIds(eng) = {}
  BY DEF TurnsInv, IdsInv, Held
<1>3. JournalIds' \cap LoggedIds \subseteq JournalIds
  <2>1. CASE Sync \/ FinalSync
    <3>1. JournalIds' = OpenIds(eng)
      BY <1>2, <2>1, Mirrored DEF Sync, FinalSync
    <3> QED
      BY <1>2, <3>1
  <2>2. CASE RecoverRemove
    BY <2>2 DEF RecoverRemove, JournalIds
  <2>3. CASE ~ (Sync \/ FinalSync \/ RecoverRemove)
    <3>1. UNCHANGED journal
      BY <2>3 DEF Boot, RecoverSkip, Scan, ReplayLine, ReplayDone, Crash, Flush, disk
    <3> QED
      BY <3>1, SameJournal
  <2> QED
    BY <2>1, <2>2, <2>3
<1>4. ~ HandlingSignals' /\ pc' # "persist"
  BY <1>1 DEF HandlingSignals
<1> QED
  BY <1>1, <1>2, <1>3, <1>4, NothingToAppend

LEMMA BatchShrinks ==
  ASSUME KeyInv
  PROVE  batch # << >> => Len(batch) = Len(Tail(batch)) + 1 /\ Len(Tail(batch)) \in Nat
<1>1. batch \in Seq(Lines)
  BY DEF KeyInv, BatchInv
<1> QED
  BY <1>1, Shorter

(* Those that handle a signal. *)
LEMMA WindowSignals ==
  ASSUME KeyInv, TurnsInv, WindowInv, Counted, Counted',
         \/ Candidate \/ IngestLine \/ DropResend \/ Mark \/ MarkFails \/ Unkeyed
         \/ DropMismatched \/ ApplySignal
  PROVE  WindowInv'
<1> USE DEF Goto
<1>1. UNCHANGED logf /\ pc \in {"signals", "ingest", "apply"} /\ batch # << >>
  BY DEF Candidate, IngestLine, DropResend, Mark, MarkFails, Unkeyed, DropMismatched,
         ApplySignal, disk, KeyInv, BatchInv
<1>2. /\ Sequence(logf) /\ EngineOK(eng) /\ LoggedIds \cap OpenIds(eng) = {}
      /\ Len(queue) = 0 /\ Len(batch) \in Nat
  BY <1>1 DEF TurnsInv, IdsInv, Held, Counted
<1>3. Len(batch) = Len(Tail(batch)) + 1 /\ Len(Tail(batch)) \in Nat
  BY <1>1, BatchShrinks
<1>4. JournalIds' \cap LoggedIds \subseteq JournalIds
  <2>1. CASE Candidate /\ eng.open # None
    <3>1. JournalIds' = OpenIds(eng)
      BY <1>2, <2>1, Mirrored DEF Candidate
    <3> QED
      BY <1>2, <3>1
  <2>2. CASE ~ (Candidate /\ eng.open # None)
    <3>1. UNCHANGED journal
      BY <2>2 DEF Candidate, IngestLine, DropResend, Mark, MarkFails, Unkeyed, DropMismatched,
                        ApplySignal, disk
    <3> QED
      BY <3>1, SameJournal
  <2> QED
    BY <2>1, <2>2
<1>5. HandlingSignals
  BY <1>1 DEF HandlingSignals
<1>6. CASE ApplySignal
  <2>1. Len(queue') \in 0 .. 2 /\ eng'.pending = eng.pending
    BY <1>6, ApplyMoves
  <2>2. batch' = Tail(batch) /\ HandlingSignals'
    BY <1>6 DEF ApplySignal, HandlingSignals
  <2>3. Len(queue') + 2 * Len(batch') <= Len(queue) + 2 * Len(batch)
    <3>1. \A b, c \in Nat, r \in 0 .. 2 : b = c + 1 => r + 2 * c <= 0 + 2 * b
      OBVIOUS
    <3> QED
      BY <1>2, <1>3, <2>1, <2>2, <3>1
  <2> QED
    BY <1>1, <1>2, <1>4, <1>5, <2>1, <2>2, <2>3, NoMoreToAppend
<1>7. CASE ~ ApplySignal
  <2>1. /\ batch' \in {batch, Tail(batch)} /\ UNCHANGED <<queue, eng>>
        /\ pc' \in {"signals", "ingest", "apply"}
    BY <1>7 DEF Candidate, IngestLine, DropResend, Mark, MarkFails, Unkeyed, DropMismatched
  <2>2. Len(batch') <= Len(batch) /\ Len(batch') \in Nat
    BY <1>2, <1>3, <2>1
  <2>3. Len(queue') + 2 * Len(batch') <= Len(queue) + 2 * Len(batch)
    BY <1>2, <2>1, <2>2
  <2>4. HandlingSignals'
    BY <2>1 DEF HandlingSignals
  <2> QED
    BY <1>1, <1>2, <1>4, <1>5, <2>1, <2>3, <2>4, NoMoreToAppend
<1> QED
  BY <1>6, <1>7

(* Those that fill the queue otherwise, or append an epoch record. *)
LEMMA WindowFills ==
  ASSUME TurnsInv, WindowInv, Counted, Counted', FewLines',
         Poll \/ TickTurn \/ Stopping
  PROVE  WindowInv'
<1> USE DEF Goto
<1>1. /\ Sequence(logf) /\ LoggedIds \cap Held(eng) = {} /\ LoggedOnce
      /\ Len(queue) \in Nat /\ Len(batch) \in Nat /\ Len(eng.pending) \in 0 .. 1
      /\ TailWindow \in Nat /\ TailWindow # 0
  BY TailWindowAssumption DEF TurnsInv, IdsInv, Counted, WindowInv
<1>2. UNCHANGED <<logf, journal>> /\ JournalIds' = JournalIds /\ LoggedIds' = LoggedIds
  BY SameJournal DEF Poll, TickTurn, Stopping, disk, LoggedIds
<1>3. LoggedOnce'
  BY <1>1, <1>2 DEF LoggedOnce
<1>4. CASE Poll
  <2>1. /\ pc = "poll" /\ pc' = "signals" /\ UNCHANGED <<queue, eng>>
    BY <1>4 DEF Poll
  <2>2. /\ JournalIds \cap LoggedIds = {} /\ Len(queue) = 0 /\ HandlingSignals'
    BY <1>1, <2>1 DEF TurnsInv, StageInv, Counted, HandlingSignals
  <2>3. 2 * Len(batch') + 2 <= TailWindow /\ Len(batch') \in Nat
    BY <2>1 DEF FewLines, Counted
  <2>4. ToAppend' = 0 + (2 * Len(batch') + (Len(eng.pending) + 1))
    BY <2>1, <2>2 DEF Counted
  <2>5. \A b \in Nat, p \in 0 .. 1 : 0 + (2 * b + (p + 1)) <= 2 * b + 2
    OBVIOUS
  <2>6. ToAppend' <= 2 * Len(batch') + 2
    BY <1>1, <2>3, <2>4, <2>5
  <2>7. ToAppend' <= TailWindow
    <3>1. ToAppend' \in Nat /\ 2 * Len(batch') + 2 \in Nat
      BY <2>3 DEF Counted
    <3> QED
      BY <1>1, <2>3, <2>6, <3>1
  <2> QED
    BY <1>2, <1>3, <2>2, <2>7, Unrecorded
<1>5. CASE TickTurn
  <2>1. /\ pc = "signals" /\ batch = << >> /\ pc' = "persist" /\ after' = "sync"
        /\ Len(queue') \in {Len(eng.pending), Len(eng.pending) + 1}
    BY <1>5, TickMoves DEF TickTurn
  <2>2. HandlingSignals /\ ~ HandlingSignals' /\ Len(batch) = 0 /\ Len(queue) = 0
    BY <2>1, NoneOf DEF HandlingSignals, Counted
  <2>3. ToAppend = Len(eng.pending) + 1 /\ ToAppend' = Len(queue') /\ ToAppend' \in Nat
    BY <1>1, <2>2 DEF Counted
  <2>4. ToAppend' <= ToAppend /\ ToAppend \in Nat
    BY <1>1, <2>1, <2>3
  <2> QED
    BY <1>1, <1>2, <2>2, <2>3, <2>4, Kept
<1>6. CASE Stopping
  <2>1. /\ pc = "stopping" /\ pc' = "persist" /\ after' = "unmirror" /\ Len(queue') \in 0 .. 1
    BY <1>6, StoppingMoves DEF Stopping
  <2>2. JournalIds \cap LoggedIds = {} /\ ~ HandlingSignals'
    BY <1>1, <2>1 DEF TurnsInv, StageInv, HandlingSignals
  <2>3. ToAppend' <= TailWindow
    BY <1>1, <2>1, <2>2 DEF Counted
  <2> QED
    BY <1>2, <1>3, <2>2, <2>3, Unrecorded
<1> QED
  BY <1>4, <1>5, <1>6

LEMMA WindowEpochs ==
  ASSUME TurnsInv, WindowInv, Counted', StartEpoch \/ StopEpoch
  PROVE  WindowInv'
<1> USE DEF Goto
<1>1. /\ pc \in {"epoch", "stopped"} /\ pc' \in {"flush", "down"} /\ UNCHANGED journal
      /\ \E event \in {"start", "stop"}, n \in {dropped, 0} :
           logf' = Append(logf, EpochRecord(event, n))
  BY DEF StartEpoch, StopEpoch, Die
<1>2. journal = None /\ JournalIds' = {} /\ Sequence(logf) /\ LoggedOnce
  BY <1>1 DEF TurnsInv, StageInv, IdsInv, WindowInv, JournalIds
<1>3. LoggedOnce'
  BY <1>1, <1>2, EpochRecorded
<1>4. ~ HandlingSignals' /\ pc' # "persist"
  BY <1>1 DEF HandlingSignals
<1> QED
  BY <1>2, <1>3, <1>4, Unrecorded

(* One record more: it counts against what was to be appended. *)
LEMMA WindowPersist ==
  ASSUME TurnsInv, WindowInv, Counted, Counted', Persist
  PROVE  WindowInv'
<1>1. PICK t : t = Head(queue)
  OBVIOUS
<1>2. /\ Len(queue) = Len(queue') + 1 /\ Len(queue') \in Nat
      /\ IdsOf(queue) = IdsOf(queue') \cup {t.id} /\ logf' = Append(logf, TurnRecord(t))
      /\ UNCHANGED <<eng, pc, after, batch>> /\ pc = "persist" /\ JournalIds' = JournalIds
  BY <1>1, PersistDoes
<1>3. t.id \notin LoggedIds /\ Sequence(logf) /\ LoggedOnce
  BY <1>2 DEF TurnsInv, IdsInv, WindowInv
<1>4. /\ LoggedOnce' /\ Len(logf') = Len(logf) + 1 /\ Len(logf) \in Nat
      /\ DOMAIN logf = 1 .. Len(logf)
  BY <1>2, <1>3, Recorded
<1>5. \A i \in DOMAIN logf' : (i \in DOMAIN logf /\ logf'[i] = logf[i]) \/ i = Len(logf')
  BY <1>2, <1>3, Recorded
<1>6. ToAppend = ToAppend' + 1 /\ ToAppend' \in Nat
  <2>1. ToClose' = ToClose
    BY <1>2 DEF ToClose, HandlingSignals
  <2>2. ToAppend = Len(queue) + ToClose /\ ToAppend' = Len(queue') + ToClose'
    BY DEF ToAppend
  <2>3. ToClose \in Int
    <3>1. HandlingSignals => ToClose = 2 * Len(batch) + (Len(eng.pending) + 1)
      BY DEF ToClose
    <3>2. ~ HandlingSignals => ToClose = 0
      BY DEF ToClose
    <3>3. Len(batch) \in Nat /\ Len(eng.pending) \in 0 .. 1
      BY DEF Counted
    <3>4. CASE HandlingSignals
      BY <3>1, <3>3, <3>4
    <3>5. CASE ~ HandlingSignals
      BY <3>2, <3>5
    <3> QED
      BY <3>4, <3>5
  <2>4. ToAppend' \in Nat
    BY DEF Counted
  <2> QED
    BY <1>2, <2>1, <2>2, <2>3, <2>4
<1>7. ToAppend <= TailWindow /\ ToAppend' < TailWindow /\ ToAppend' <= TailWindow
  <2>1. ToAppend <= TailWindow
    BY <1>2 DEF WindowInv
  <2>2. \A a, b, c \in Nat : a = b + 1 /\ a <= c => b < c /\ b <= c
    OBVIOUS
  <2>3. ToAppend \in Nat /\ TailWindow \in Nat
    BY TailWindowAssumption DEF Counted
  <2> QED
    BY <1>6, <2>1, <2>2, <2>3
<1>8. ASSUME NEW i \in DOMAIN logf', logf'[i].kind = "turn", logf'[i].id \in JournalIds'
      PROVE  Len(logf') - i + ToAppend' < TailWindow
  <2>1. CASE i \in DOMAIN logf /\ logf'[i] = logf[i]
    <3>1. Len(logf) - i + ToAppend < TailWindow
      BY <1>2, <1>8, <2>1 DEF WindowInv
    <3>2. i \in Nat
      BY <1>4, <2>1
    <3> QED
      BY <1>4, <1>6, <3>1, <3>2, TailWindowAssumption
  <2>2. CASE i = Len(logf')
    BY <1>4, <1>6, <1>7, <2>2
  <2> QED
    BY <1>5, <1>8, <2>1, <2>2
<1> QED
  BY <1>4, <1>7, <1>8 DEF WindowInv

(* A journal whose turn is in the log finds it among the last records; so  *)
(* the one that is recovered is not in the log.                            *)
LEMMA WindowRecover ==
  ASSUME TurnsInv, WindowInv, Counted, Counted', RecoverAppend
  PROVE  WindowInv'
<1>1. PICK t : t = [ id |-> journal.id, merges |-> {},
                     grade |-> IF journal.source = "quiet" THEN "bare" ELSE "rich" ]
  OBVIOUS
<1>2. /\ pc = "recover" /\ pc' = "unjournal" /\ journal # None /\ ~ AlreadyLogged(journal)
      /\ logf' = Append(logf, TurnRecord(t)) /\ t.id = journal.id /\ UNCHANGED journal
  BY <1>1 DEF RecoverAppend, Goto
<1>3. Sequence(logf) /\ LoggedOnce /\ ToAppend = 0 /\ ToAppend' = 0
  BY <1>2 DEF TurnsInv, IdsInv, WindowInv, Counted, HandlingSignals
<1>4. JournalIds = {journal.id} /\ JournalIds' = JournalIds
  BY <1>2, SameJournal DEF JournalIds
<1>5. Len(logf) \in Nat /\ DOMAIN logf = 1 .. Len(logf)
  BY <1>3, AnySequence DEF Sequence
<1>6. journal.id \notin LoggedIds
  <2>1. ASSUME NEW i \in DOMAIN logf, logf[i].kind = "turn", logf[i].id = journal.id
        PROVE  FALSE
    <3>1. Len(logf) - i + 0 < TailWindow
      BY <1>3, <1>4, <2>1 DEF WindowInv
    <3>2. i > Len(logf) - TailWindow
      BY <1>5, <3>1, TailWindowAssumption
    <3>3. logf[i] \in Tail50(logf)
      BY <3>2 DEF Tail50
    <3> QED
      BY <1>2, <2>1, <3>3 DEF AlreadyLogged
  <2> QED
    BY <2>1 DEF LoggedIds, Range
<1>7. LoggedOnce' /\ Len(logf') = Len(logf) + 1
  BY <1>2, <1>3, <1>6, Recorded
<1>8. \A i \in DOMAIN logf' : (i \in DOMAIN logf /\ logf'[i] = logf[i]) \/ i = Len(logf')
  BY <1>2, <1>3, <1>6, Recorded
<1>9. ASSUME NEW i \in DOMAIN logf', logf'[i].kind = "turn", logf'[i].id \in JournalIds'
      PROVE  Len(logf') - i + ToAppend' < TailWindow
  <2>1. CASE i \in DOMAIN logf /\ logf'[i] = logf[i]
    BY <1>4, <1>6, <1>9, <2>1, LoggedPlaces
  <2>2. CASE i = Len(logf')
    BY <1>3, <1>5, <1>7, <2>2, TailWindowAssumption
  <2> QED
    BY <1>8, <1>9, <2>1, <2>2
<1>10. ~ HandlingSignals' /\ pc' # "persist"
  BY <1>2 DEF HandlingSignals
<1> QED
  BY <1>7, <1>9, <1>10 DEF WindowInv

LEMMA WindowPersisted ==
  ASSUME TurnsInv, WindowInv, Counted, Counted', Persisted
  PROVE  WindowInv'
<1>1. /\ pc = "persist" /\ pc' = after /\ UNCHANGED <<logf, journal, after, queue, batch, eng>>
      /\ after \in {"signals", "sync", "unmirror"} /\ Sequence(logf) /\ Len(batch) \in Nat
      /\ Len(queue) \in Nat
  BY DEF Persisted, Goto, disk, TurnsInv, StageInv, IdsInv, Counted
<1>2. JournalIds' = JournalIds
  BY <1>1, SameJournal
<1>3. CASE after = "signals"
  <2>1. HandlingSignals /\ HandlingSignals'
    BY <1>1, <1>3 DEF HandlingSignals
  <2>2. Len(queue') + 2 * Len(batch') <= Len(queue) + 2 * Len(batch)
    BY <1>1
  <2> QED
    BY <1>1, <1>2, <2>1, <2>2, NoMoreToAppend
<1>4. CASE after # "signals"
  <2>1. ~ HandlingSignals' /\ pc' # "persist"
    BY <1>1, <1>4 DEF HandlingSignals
  <2> QED
    BY <1>1, <1>2, <2>1, NothingToAppend
<1> QED
  BY <1>3, <1>4

LEMMA WindowContinues ==
  KeyInv /\ TurnsInv /\ WindowInv /\ FewLines' /\ [Next]_vars => WindowInv'
<1> SUFFICES ASSUME KeyInv, TurnsInv, WindowInv, FewLines', [Next]_vars PROVE WindowInv'
  OBVIOUS
<1>1. Counted
  BY Counts
<1>2. Counted'
  <2>1. KeyInv' /\ TurnsInv'
    BY Continues, TurnsContinue
  <2>2. KeyInv' /\ TurnsInv' => Counted'
    BY Counts, PTL
  <2> QED
    BY <2>1, <2>2
<1>3. Sequence(logf)
  BY DEF TurnsInv, IdsInv
<1>4. CASE Emit \/ Resend \/ UNCHANGED vars
  <2>1. UNCHANGED <<logf, journal, pc, after, queue, batch, eng>>
    BY <1>4 DEF Emit, Resend, vars, disk, mem
  <2> QED
    BY <1>1, <1>3, <2>1, Idle
<1>5. CASE ~ (Emit \/ Resend \/ UNCHANGED vars)
  BY <1>1, <1>2, <1>5, WindowQuiet, WindowSignals, WindowFills, WindowEpochs, WindowPersist,
     WindowRecover, WindowPersisted
  DEF Next, Daemon, Environment
<1> QED
  BY <1>4, <1>5

(* D8: no turn is logged twice, wherever the daemon is killed, as long as  *)
(* already_logged looks at enough records: with its 50, as long as no poll *)
(* finds more than 24 lines in the inbox (daemon.rs, already_logged).      *)
THEOREM OneRecordPerTurn == Spec /\ []FewLines => []LoggedOnce
<1>1. Init => KeyInv /\ TurnsInv /\ WindowInv
  BY Begins, TurnsBegin, WindowBegins
<1>2. KeyInv /\ TurnsInv /\ WindowInv /\ FewLines' /\ [Next]_vars
        => (KeyInv /\ TurnsInv /\ WindowInv)'
  BY Continues, TurnsContinue, WindowContinues
<1>3. WindowInv => LoggedOnce
  BY DEF WindowInv
<1> QED
  BY <1>1, <1>2, <1>3, PTL DEF Spec

-----------------------------------------------------------------------------
(* What was journaled stays on disk.                                       *)

LEMMA StaysOnDisk ==
  ASSUME JournaledSurvives, LoggedIds \cup JournalIds \subseteq LoggedIds' \cup JournalIds',
         durable' \subseteq durable \cup JournalIds',
         \A m \in Range(memory') :
           m \in Range(memory) \/ m.turn = None \/ m.turn \in JournalIds'
  PROVE  JournaledSurvives'
<1>1. OnDisk = LoggedIds \cup JournalIds /\ OnDisk' = LoggedIds' \cup JournalIds'
  BY DEF OnDisk, JournalIds
<1> QED
  BY <1>1 DEF JournaledSurvives

LEMMA SameMemory ==
  ASSUME JournaledSurvives, LoggedIds \cup JournalIds \subseteq LoggedIds' \cup JournalIds',
         UNCHANGED <<durable, memory>>
  PROVE  JournaledSurvives'
  BY StaysOnDisk

LEMMA SameLog == UNCHANGED logf => LoggedIds' = LoggedIds
  BY DEF LoggedIds

(* The turns of the queue and the engine, when nothing is queued or set aside *)
LEMMA OnlyOpen ==
  ASSUME queue = << >>, eng.pending = << >>
  PROVE  IdsOf(queue) \cup Held(eng) = OpenIds(eng)
  BY NoneOf DEF Held

(* Steps that neither log a turn nor write the journal. *)
LEMMA MirrorSame ==
  ASSUME TurnsInv, MirrorInv, UNCHANGED <<logf, journal, durable, memory, queue, eng>>,
         \/ Emit \/ Resend \/ Boot \/ Scan \/ ReplayDone \/ Poll \/ DropResend \/ Mark
         \/ MarkFails \/ Unkeyed \/ DropMismatched \/ Persisted \/ UNCHANGED vars
  PROVE  MirrorInv'
<1> USE DEF Goto
<1>1. LoggedIds' = LoggedIds /\ JournalIds' = JournalIds
  BY SameLog, SameJournal
<1>2. JournaledSurvives'
  BY <1>1, SameMemory DEF MirrorInv
<1>3. CASE UNCHANGED pc
  BY <1>1, <1>2, <1>3 DEF MirrorInv, Starting
<1>4. CASE ~ UNCHANGED pc
  <2>1. \/ pc' \in {"recover", "replay", "epoch"}
        \/ pc \notin Starting /\ pc' \in {"signals", "apply", "sync", "unmirror"}
    BY <1>4 DEF Emit, Resend, Boot, Scan, ReplayDone, Poll, DropResend, Mark, MarkFails,
       Unkeyed, DropMismatched,
       Persisted, vars, mem, Starting, TurnsInv, StageInv
  <2> QED
    BY <1>1, <1>2, <2>1 DEF MirrorInv, Starting
<1> QED
  BY <1>3, <1>4

(* The start: the journal is removed when its turn is in the log. *)
LEMMA MirrorStarting ==
  ASSUME TurnsInv, MirrorInv, RecoverAppend \/ RecoverSkip \/ RecoverRemove \/ StartEpoch
  PROVE  MirrorInv'
<1> USE DEF Goto
<1>1. UNCHANGED <<durable, memory>> /\ Sequence(logf)
  BY DEF RecoverAppend, RecoverSkip, RecoverRemove, StartEpoch, disk, hist, TurnsInv, IdsInv
<1>2. CASE RecoverAppend
  <2>1. PICK t : t = [ id |-> journal.id, merges |-> {},
                       grade |-> IF journal.source = "quiet" THEN "bare" ELSE "rich" ]
    OBVIOUS
  <2>2. /\ pc' = "unjournal" /\ journal # None /\ UNCHANGED journal
        /\ logf' = Append(logf, TurnRecord(t)) /\ t.id = journal.id
    BY <1>2, <2>1 DEF RecoverAppend
  <2>3. LoggedIds' = LoggedIds \cup {journal.id}
    BY <1>1, <2>2, TurnLogged
  <2>4. JournalIds = {journal.id} /\ JournalIds' = JournalIds
    BY <2>2, SameJournal DEF JournalIds
  <2>5. JournaledSurvives'
    BY <1>1, <2>3, <2>4, SameMemory DEF MirrorInv
  <2> QED
    BY <2>2, <2>3, <2>4, <2>5 DEF MirrorInv, Starting
<1>3. CASE RecoverSkip
  <2>1. /\ pc' = "unjournal" /\ UNCHANGED <<logf, journal>>
        /\ (journal # None => AlreadyLogged(journal))
    BY <1>3 DEF RecoverSkip, disk
  <2>2. LoggedIds' = LoggedIds /\ JournalIds' = JournalIds
    BY <2>1, SameLog, SameJournal
  <2>3. JournalIds \subseteq LoggedIds
    BY <2>1 DEF AlreadyLogged, Tail50, LoggedIds, Range, JournalIds
  <2>4. JournaledSurvives'
    BY <1>1, <2>2, SameMemory DEF MirrorInv
  <2> QED
    BY <2>1, <2>2, <2>3, <2>4 DEF MirrorInv, Starting
<1>4. CASE RecoverRemove
  <2>1. pc = "unjournal" /\ pc' = "scan" /\ journal' = None /\ UNCHANGED logf
    BY <1>4 DEF RecoverRemove
  <2>2. LoggedIds' = LoggedIds /\ JournalIds \subseteq LoggedIds
    BY <2>1, SameLog DEF MirrorInv
  <2>3. JournaledSurvives'
    BY <1>1, <2>2, SameMemory DEF MirrorInv
  <2> QED
    BY <2>1, <2>3 DEF MirrorInv, Starting
<1>5. CASE StartEpoch
  <2>1. /\ pc = "epoch" /\ pc' = "flush" /\ UNCHANGED journal
        /\ logf' = Append(logf, EpochRecord("start", dropped))
    BY <1>5 DEF StartEpoch
  <2>2. LoggedIds' = LoggedIds
    BY <1>1, <2>1, EpochLogged
  <2>3. JournalIds' = JournalIds /\ JournalIds = {}
    BY <2>1, SameJournal DEF TurnsInv, StageInv, JournalIds
  <2>4. JournaledSurvives'
    BY <1>1, <2>2, <2>3, SameMemory DEF MirrorInv
  <2> QED
    BY <2>1, <2>3, <2>4 DEF MirrorInv, Starting
<1> QED
  BY <1>2, <1>3, <1>4, <1>5

(* A process that ends leaves what is on disk. *)
LEMMA MirrorDies ==
  ASSUME TurnsInv, MirrorInv, Crash \/ StopEpoch
  PROVE  MirrorInv'
<1>1. pc' = "down" /\ UNCHANGED <<journal, durable, memory>> /\ Sequence(logf)
  BY DEF Crash, StopEpoch, Die, disk, hist, TurnsInv, IdsInv
<1>2. LoggedIds' = LoggedIds
  <2>1. CASE Crash
    BY <2>1, SameLog DEF Crash, disk
  <2>2. CASE StopEpoch
    BY <1>1, <2>2, EpochLogged DEF StopEpoch
  <2> QED
    BY <2>1, <2>2
<1>3. JournaledSurvives'
  BY <1>1, <1>2, SameJournal, SameMemory DEF MirrorInv
<1> QED
  BY <1>1, <1>3 DEF MirrorInv, Starting

(* A memory: of the turn that the journal holds, or of none. *)
LEMMA MirrorIngests ==
  ASSUME TurnsInv, MirrorInv, ReplayLine \/ IngestLine
  PROVE  MirrorInv'
<1> USE DEF Goto
<1>1. /\ UNCHANGED <<logf, journal, durable, queue, eng>> /\ Sequence(memory)
      /\ \/ pc' = "replay"
         \/ pc \notin Starting /\ pc' = "signals"
  BY DEF ReplayLine, IngestLine, TurnsInv, IdsInv, Starting, hist
<1>2. LoggedIds' = LoggedIds /\ JournalIds' = JournalIds
  BY <1>1, SameLog, SameJournal
<1>3. \A m \in Range(memory') :
        m \in Range(memory) \/ m.turn = None \/ m.turn \in JournalIds'
  <2>1. CASE memory' = memory
    BY <2>1
  <2>2. CASE ReplayLine /\ memory' # memory
    <3>1. Ingest(Head(batch), None)
      BY <2>2 DEF ReplayLine
    <3> QED
      BY <1>1, <3>1, Ingested
  <2>3. CASE IngestLine
    <3>1. PICK turn : turn = IF eng.open = None THEN None ELSE eng.open.id
      OBVIOUS
    <3>2. Ingest(Head(batch), turn) /\ pc = "ingest"
      BY <2>3, <3>1 DEF IngestLine
    <3>3. turn = None \/ turn \in JournalIds
      BY <3>1, <3>2 DEF MirrorInv
    <3> QED
      BY <1>1, <1>2, <3>2, <3>3, Ingested
  <2> QED
    BY <2>1, <2>2, <2>3
<1>4. JournaledSurvives'
  BY <1>1, <1>2, <1>3, StaysOnDisk DEF MirrorInv
<1> QED
  BY <1>1, <1>2, <1>4 DEF MirrorInv, Starting

(* A step of the engine hands over what it held. *)
LEMMA MirrorMoves ==
  ASSUME KeyInv, TurnsInv, MirrorInv, Flush \/ ApplySignal \/ TickTurn \/ Stopping
  PROVE  MirrorInv'
<1> USE DEF Goto
<1>1. EngineMoved
  BY FlushMoves, ApplyMoves, TickMoves, StoppingMoves
<1>2. /\ pc \in {"flush", "apply", "signals", "stopping"} /\ pc' \in {"poll", "persist"}
      /\ UNCHANGED durable
  BY DEF Flush, ApplySignal, TickTurn, Stopping, hist
<1>3. UNCHANGED <<logf, journal, memory>> /\ Held(eng) \subseteq IdsOf(queue') \cup Held(eng')
  BY <1>1 DEF EngineMoved
<1>4. LoggedIds' = LoggedIds /\ JournalIds' = JournalIds
  BY <1>3, SameLog, SameJournal
<1>5. IdsOf(queue) = {}
  BY <1>2, NoneOf DEF TurnsInv, StageInv
<1>6. JournalIds \subseteq LoggedIds \cup Held(eng)
  BY <1>2, <1>5 DEF MirrorInv, Starting
<1>7. JournaledSurvives'
  BY <1>2, <1>3, <1>4, SameMemory DEF MirrorInv
<1> QED
  BY <1>2, <1>3, <1>4, <1>6, <1>7 DEF MirrorInv

LEMMA MirrorPersists ==
  ASSUME TurnsInv, MirrorInv, Persist
  PROVE  MirrorInv'
<1>1. PICK i : i = Head(queue).id
  OBVIOUS
<1>2. /\ LoggedIds' = LoggedIds \cup {i} /\ IdsOf(queue) = IdsOf(queue') \cup {i}
      /\ UNCHANGED <<memory, eng, pc>> /\ pc = "persist" /\ JournalIds' = JournalIds
  BY <1>1, PersistDoes
<1>3. UNCHANGED durable
  BY DEF Persist, hist
<1>4. JournaledSurvives'
  BY <1>2, <1>3, SameMemory DEF MirrorInv
<1> QED
  BY <1>2, <1>4 DEF MirrorInv, Starting

(* The journal is written when it names no other turn that is not logged. *)
LEMMA MirrorWrites ==
  ASSUME TurnsInv, MirrorInv, CandidatesApart, Candidate \/ Sync \/ FinalSync
  PROVE  MirrorInv'
<1> USE DEF Goto
<1>1. /\ UNCHANGED <<logf, memory, queue, eng>> /\ EngineOK(eng)
      /\ pc \in {"signals", "sync", "unmirror"}
      /\ pc' \in {"ingest", "flush", "stopping", "stopped"}
      /\ pc' = "ingest" => Candidate
  BY DEF Candidate, Sync, FinalSync, TurnsInv, IdsInv
<1>2. LoggedIds' = LoggedIds /\ queue = << >>
      /\ JournalIds \subseteq LoggedIds \cup (IdsOf(queue) \cup Held(eng))
  BY <1>1, SameLog DEF TurnsInv, StageInv, MirrorInv, Starting
<1>3. CASE SyncJournal(eng) /\ (Candidate => eng.open # None)
  <2>1. JournalIds' = OpenIds(eng) /\ durable' = durable \cup OpenIds(eng)
    BY <1>1, <1>3, Mirrored
  <2>2. eng.pending = << >>
    BY <1>1, <1>3 DEF TurnsInv, StageInv, HandlingSignals, CandidatesApart, Candidate, Sync, FinalSync
  <2>3. JournalIds \subseteq LoggedIds' \cup JournalIds'
    BY <1>2, <2>1, <2>2, OnlyOpen
  <2>4. JournaledSurvives'
    BY <1>1, <1>2, <2>1, <2>3, StaysOnDisk DEF MirrorInv
  <2>5. JournalIds' \subseteq Held(eng')
    BY <1>1, <2>1 DEF Held
  <2> QED
    BY <1>1, <2>1, <2>4, <2>5 DEF MirrorInv, OpenIds
<1>4. CASE Candidate /\ eng.open = None
  <2>1. UNCHANGED <<journal, durable>> /\ pc' = "ingest"
    BY <1>4 DEF Candidate
  <2>2. JournalIds' = JournalIds
    BY <2>1, SameJournal
  <2>3. JournaledSurvives'
    BY <1>1, <1>2, <2>1, <2>2, SameMemory DEF MirrorInv
  <2> QED
    BY <1>1, <1>2, <1>4, <2>1, <2>2, <2>3 DEF MirrorInv
<1> QED
  BY <1>3, <1>4 DEF Candidate, Sync, FinalSync

LEMMA MirrorContinues ==
  KeyInv /\ TurnsInv /\ MirrorInv /\ CandidatesApart /\ [Next]_vars => MirrorInv'
<1> SUFFICES ASSUME KeyInv, TurnsInv, MirrorInv, CandidatesApart, [Next]_vars PROVE MirrorInv'
  OBVIOUS
<1>1. CASE \/ Emit \/ Resend \/ Boot \/ Scan \/ ReplayDone \/ Poll \/ DropResend \/ Mark
           \/ MarkFails \/ Unkeyed \/ DropMismatched \/ Persisted \/ UNCHANGED vars
  <2>1. UNCHANGED <<logf, journal, durable, memory, queue, eng>>
    BY <1>1 DEF Emit, Resend, Boot, Scan, ReplayDone, Poll, DropResend, Mark, MarkFails,
       Unkeyed, DropMismatched,
       Persisted, vars, disk, mem, hist
  <2> QED
    BY <1>1, <2>1, MirrorSame
<1>2. CASE RecoverAppend \/ RecoverSkip \/ RecoverRemove \/ StartEpoch
  BY <1>2, MirrorStarting
<1>3. CASE Crash \/ StopEpoch
  BY <1>3, MirrorDies
<1>4. CASE ReplayLine \/ IngestLine
  BY <1>4, MirrorIngests
<1>5. CASE Flush \/ ApplySignal \/ TickTurn \/ Stopping
  BY <1>5, MirrorMoves
<1>6. CASE Persist
  BY <1>6, MirrorPersists
<1>7. CASE Candidate \/ Sync \/ FinalSync
  BY <1>7, MirrorWrites
<1> QED
  BY <1>1, <1>2, <1>3, <1>4, <1>5, <1>6, <1>7 DEF Next, Daemon, Environment

LEMMA MirrorBegins == Init => MirrorInv
<1> SUFFICES ASSUME Init PROVE MirrorInv
  OBVIOUS
<1>1. durable = {} /\ memory = << >> /\ pc = "down"
  BY DEF Init
<1>2. Range(memory) = {}
  BY <1>1 DEF Range
<1> QED
  BY <1>1, <1>2 DEF MirrorInv, JournaledSurvives, Starting

(* AC B2, D-M6: a turn that was journaled once stays on disk, in the log   *)
(* or in the journal, wherever the daemon is killed, and with it the turn  *)
(* that a memory names -- as long as no candidate is handled while a turn  *)
(* that a git transition has closed waits for the tick (daemon.rs, run).   *)
THEOREM JournaledStays == Spec /\ []CandidatesApart => []JournaledSurvives
<1>1. Init => KeyInv /\ TurnsInv /\ MirrorInv
  BY Begins, TurnsBegin, MirrorBegins
<1>2. KeyInv /\ TurnsInv /\ MirrorInv /\ CandidatesApart /\ [Next]_vars
        => (KeyInv /\ TurnsInv /\ MirrorInv)'
  BY Continues, TurnsContinue, MirrorContinues
<1>3. MirrorInv => JournaledSurvives
  BY DEF MirrorInv
<1> QED
  BY <1>1, <1>2, <1>3, PTL DEF Spec
=============================================================================
