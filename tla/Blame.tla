------------------------------- MODULE Blame --------------------------------
(* Which turn a file, or a line of it, is blamed on, and when blame says   *)
(* that it cannot know (view.rs: recording gaps, blame, diff).             *)
EXTENDS RecordedHistory

(* recording_gaps: a start while one is open, a start after a stop, and a  *)
(* stop that nothing follows.                                              *)
EpochsBefore(i) == {j \in DOMAIN records : j < i /\ records[j].type = "epoch"}
LastEpoch(i) == IF EpochsBefore(i) = {} THEN None ELSE records[Max(EpochsBefore(i))].event

Gap(since, kind) == [since |-> since, kind |-> kind]

Gaps ==
  {Gap(i, IF LastEpoch(i) = "start" THEN "crash" ELSE "restart") :
     i \in {j \in DOMAIN records : records[j] = Epoch("start") /\ LastEpoch(j) # None}}
  \cup {Gap(i, "trailingStop") :
     i \in {j \in DOMAIN records : records[j] = Epoch("stop")
                                    /\ LastEpoch(Len(records) + 1) = "stop"
                                    /\ j = Max(EpochsBefore(Len(records) + 1))}}

HasCrashGap == \E g \in Gaps : g.kind = "crash"
HasGapAfter(i) == \E g \in Gaps : g.since > i

-----------------------------------------------------------------------------
(* Turns and blobs.                                                        *)

(* load_blob, load_text: a null is an empty content.                       *)
Readable(c) == c = None \/ c \in blobs
Text(c) == IF c = None THEN {} ELSE c

Unresolvable(e) == ~ (Readable(e.before) /\ Readable(e.after))
Introduced(e) == Text(e.after) \ Text(e.before)

(* resolve_file_diff_state. *)
DiffState(e) ==
  CASE e.withheld -> "withheld"
    [] ~ e.withheld /\ e.skipped -> "skipped"
    [] ~ e.withheld /\ ~ e.skipped /\ Unresolvable(e) -> "unresolvable"
    [] ~ e.withheld /\ ~ e.skipped /\ ~ Unresolvable(e) ->
         IF e.unknown /\ e.op = "modify" /\ e.before = None THEN "baselineUnknown" ELSE "text"

ModifiedSince(i, p) ==
  EntryOf(i, p).after # IF Exists(p) THEN tree[p] ELSE None
DeletedBy(i, p) == EntryOf(i, p).op = "delete"

-----------------------------------------------------------------------------
(* blame.                                                                  *)

Answer(state, turn) == [state |-> state, turn |-> turn]

(* blame_file_state. *)
BlameFile(p) ==
  IF Touching(p) = {}
  THEN [state |-> IF HasCrashGap THEN "noTurnRecordingGap" ELSE "noTurnTouches"]
  ELSE LET i == Max(Touching(p)) IN
    [ state    |-> "file", turn |-> i, deleted |-> DeletedBy(i, p), modified |-> ModifiedSince(i, p),
      gapStale |-> HasGapAfter(i) /\ ModifiedSince(i, p) ]

(* Turns whose recorded change introduces the text of the line.            *)
Introducers(p, line) ==
  {i \in Touching(p) : ~ Unresolvable(EntryOf(i, p)) /\ line \in Introduced(EntryOf(i, p))}
Unreadable(p) == {i \in Touching(p) : Unresolvable(EntryOf(i, p))}

CreditSkipping(p, line) ==  \* mutant: turns that cannot be read are passed over
  LET by == Introducers(p, line) IN
    IF by # {} THEN Answer("attributed", Max(by))
    ELSE Answer(IF HasGapAfter(0) THEN "originGap" ELSE "beforeRecording", None)

(* What the touching turns say: the newest introducer, unless a newer turn *)
(* cannot be read.                                                         *)
Credit(p, line) ==
  LET by == Introducers(p, line) IN
  CASE by # {} /\ (\A u \in Unreadable(p) : u < Max(by)) -> Answer("attributed", Max(by))
    [] ~ (by # {} /\ \A u \in Unreadable(p) : u < Max(by)) /\ Unreadable(p) # {} ->
         Answer("snapshotUnavailable", None)
    [] by = {} /\ Unreadable(p) = {} ->
         Answer(IF HasGapAfter(0) THEN "originGap" ELSE "beforeRecording", None)

(* blame_line_state, for a line of the file as it is.                      *)
BlameLine(p, line) ==
  LET file == BlameFile(p) IN
  CASE file.state = "noTurnRecordingGap" -> Answer("recordingGap", None)
    [] file.state = "noTurnTouches" -> Credit(p, line)
    [] file.state = "file" ->
         IF file.gapStale THEN Answer("recordingGap", None)
         ELSE IF file.deleted THEN Answer("deletedOrAbsent", file.turn)
         ELSE Credit(p, line)

-----------------------------------------------------------------------------
(* Blame does not say that a line came in with a turn, or before recording *)
(* began, when it did not.  What can mislead it: a daemon that died and    *)
(* was not started again, which leaves no gap in the log; a turn that does *)
(* not know what the file held before; an entry without a content, because *)
(* the path is withheld; and a change that no turn tells of yet. The diff  *)
(* of a turn shows as its before what the file held when it began.         *)
BlameHonest ==
  /\ \A i \in Turns \cap {Len(records)} : \A p \in Touched(i) :
       LET e == EntryOf(i, p) IN
         DiffState(e) = "text" /\ ~ (e.unknown /\ e.op = "delete") => Text(e.before) = DOMAIN prior[p]
  /\ \A p \in Files : Exists(p) /\ (up \/ LastEpoch(Len(records) + 1) = "stop") =>
      \A line \in tree[p] :
        LET answer == BlameLine(p, line) IN
        /\ answer.state = "attributed" =>
             \/ Origin(p, line) \in {InTurn(answer.turn), Pending}
             \/ EntryOf(answer.turn, p).unknown
        /\ answer.state = "beforeRecording" =>
             \/ Origin(p, line) \in {Initially, Pending}
             \/ Secret(p)
=============================================================================
