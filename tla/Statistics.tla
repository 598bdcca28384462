----------------------------- MODULE Statistics -----------------------------
(* agentrec stats (stats.rs): the turns of a window, how much of each file *)
(* they moved, whose the changes were, and how much of what an agent wrote *)
(* was done again.  The position of a record stands for its time; turns    *)
(* that are imported, or of git or of an undo, have counters of their own  *)
(* and are not in this history.                                            *)
EXTENDS Blame

(* in_window. *)
Windowed(since) == {i \in Turns : i >= since}

-----------------------------------------------------------------------------
(* FileChurn: an entry that cannot be measured moves nothing and is        *)
(* counted.                                                                *)

Size(c) == Cardinality(Text(c))

WindowedEntries(since, p) == {i \in Windowed(since) : p \in Touched(i)}
SkippedIn(I, p)  == {i \in I : EntryOf(i, p).skipped}
WithheldIn(I, p) == {i \in I : ~ EntryOf(i, p).skipped /\ EntryOf(i, p).withheld}
DanglingIn(I, p) ==
  {i \in I : ~ EntryOf(i, p).skipped /\ ~ EntryOf(i, p).withheld /\ Unresolvable(EntryOf(i, p))}

Moved(e) == AbsDiff(Size(e.after), Size(e.before))

ChurnOfReadable(I, p) ==  \* mutant: what is left of a dangling entry is measured
  LET size(c) == IF Readable(c) THEN Size(c) ELSE 0
      counted == I \ (SkippedIn(I, p) \cup WithheldIn(I, p))
  IN  MapThenSumSet(LAMBDA i : AbsDiff(size(EntryOf(i, p).after), size(EntryOf(i, p).before)), counted)

ChurnBytes(I, p) ==
  LET counted == I \ (SkippedIn(I, p) \cup WithheldIn(I, p) \cup DanglingIn(I, p))
  IN  MapThenSumSet(LAMBDA i : Moved(EntryOf(i, p)), counted)

FileChurn(since, p) ==
  LET I == WindowedEntries(since, p) IN
    [ bytes    |-> ChurnBytes(I, p),            skipped  |-> Cardinality(SkippedIn(I, p)),
      withheld |-> Cardinality(WithheldIn(I, p)), dangling |-> Cardinality(DanglingIn(I, p)) ]

-----------------------------------------------------------------------------
(* ChangeShare: entries of the window by the grade of their turn, and the  *)
(* files that are not as the last turn on them, of the whole log, left     *)
(* them: "human", unless nobody watched for a while since.                 *)

Entries(since, grade) ==
  {e \in Windowed(since) \X Files : records[e[1]].grade = grade /\ e[2] \in Touched(e[1])}

Divergent(p) ==
  LET i == Max(Touching(p)) IN EntryOf(i, p).after # None /\ ModifiedSince(i, p)

Side(p) == IF HasGapAfter(Max(Touching(p))) THEN "unattributable" ELSE "human"

ChangeShare(since) ==
  LET files(side) == {p \in Files : WindowedEntries(since, p) # {} /\ Divergent(p) /\ Side(p) = side}
  IN  [ agent          |-> Cardinality(Entries(since, "rich")),
        human          |-> files("human"),
        unattributable |-> Cardinality(Entries(since, "bare")) + Cardinality(files("unattributable")) ]

-----------------------------------------------------------------------------
(* ReworkRate: every write event of a rich turn is in one of its counters. *)

(* gap_overlaps. *)
GapOverlaps(g, i, n) == g.since <= i + n /\ (g.kind = "trailingStop" \/ g.since >= i)

WriteEvents(since) == {e \in Entries(since, "rich") : EntryOf(e[1], e[2]).op # "delete"}

(* The file is not as the event left it, no later turn touches it and no   *)
(* gap can date the change.                                                *)
UnknownMtime(i, p) ==
  /\ \A j \in Touching(p) : j <= i
  /\ EntryOf(i, p).after # None /\ ModifiedSince(i, p)
  /\ ~ \E g \in Gaps : g.since >= i

ReworkedWithin(i, p, n) ==
  \E j \in Touching(p) : i < j /\ j <= i + n /\ records[j].grade = "bare"

Judgement(i, p, n, now) ==
  CASE i > now - n -> "censored"
    [] i <= now - n /\ UnknownMtime(i, p) -> "unknownMtime"
    [] i <= now - n /\ ~ UnknownMtime(i, p) ->
         IF ReworkedWithin(i, p, n) THEN "reworked" ELSE "kept"

ReworkRate(since, n) ==
  LET now    == Len(records) + 1
      with(V) == {e \in WriteEvents(since) : Judgement(e[1], e[2], n, now) \in V}
      judged == with({"reworked", "kept"})
  IN  [ measurable    |-> judged,
        reworked      |-> with({"reworked"}),
        censored      |-> Cardinality(with({"censored"})),
        unknownMtime  |-> Cardinality(with({"unknownMtime"})),
        gapOverlapped |-> Cardinality({e \in judged : \E g \in Gaps : GapOverlaps(g, e[1], n)}) ]

-----------------------------------------------------------------------------

Merging(p) == {i \in Touching(p) : records[i].merges # {}}
Guessed(p) == {i \in Touching(p) : EntryOf(i, p).unknown}

(* What stats says is not more than what happened: the churn of a file is  *)
(* a lower bound of what its changes really moved, but for turns that did  *)
(* not know what the file held before (they count all of it) and turns     *)
(* that took over another one (both count); and an edit made while nobody  *)
(* recorded is not put down to a human once the log shows that gap.        *)
StatsHonest ==
  /\ \A p \in Files : Merging(p) = {} /\ Guessed(p) = {} => FileChurn(1, p).bytes <= moved[p]
  /\ up \/ LastEpoch(Len(records) + 1) = "stop" =>
       \A p \in ChangeShare(1).human :
         \A line \in Lines(p) \ Text(EntryOf(Max(Touching(p)), p).after) : Origin(p, line) # Unrecorded

-----------------------------------------------------------------------------
(* What the code and the design of stats say, which is not so.             *)

(* A write is done again only when a change that no rich turn covers       *)
(* touches the file (phase-3 design, 3.0.1).                               *)
ReworkUncovered ==
  LET covered == UNION {records[i].merges : i \in Turns} IN
  \A n \in 1 .. 3 : \A e \in ReworkRate(1, n).reworked :
    \E j \in Touching(e[2]) \ covered : j > e[1] /\ records[j].grade = "bare"

(* The churn of a file is a lower bound (FileChurn). *)
ChurnIsLowerBound == \A p \in Files : FileChurn(1, p).bytes <= moved[p]

(* Every write judged whose window overlaps a time without a recorder is   *)
(* counted as such (ReworkRate): a stop up to the start after it is one.   *)
GapsDisclosed ==
  \A n \in 1 .. 3 :
    LET judged == ReworkRate(1, n).measurable
        Down(i) == \E j \in i .. Len(records) - 1 :
                     records[j] = Epoch("stop") /\ records[j + 1] = Epoch("start") /\ j <= i + n
    IN  Cardinality({e \in judged : Down(e[1])}) <= ReworkRate(1, n).gapOverlapped
=============================================================================
