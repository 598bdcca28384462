------------------------------- MODULE Bisect -------------------------------
(* `agentrec bisect`: which turn is the first after which a test fails     *)
(* (bisect.rs, bisectcmd.rs). The ledger is read once, at the start; each  *)
(* probe reads blobs and copies the working tree, which others change      *)
(* meanwhile: the files that no turn after the point touches are as they   *)
(* are then. The test fails when one line is in one file; its runs may     *)
(* disagree.                                                               *)
EXTENDS Statistics

VARIABLE search  \* the search in progress, or the last one; or None

(* sequence: rich turns, and bare ones when asked, that no turn merges.    *)
Sequence(bare) ==
  SelectSeq([i \in DOMAIN records |-> i],
            LAMBDA i : /\ i \in Turns \ UNION {records[j].merges : j \in Turns}
                       /\ records[i].grade = "rich" \/ (bare /\ records[i].grade = "bare"))

(* subtracted: the turns after a place in the sequence, 0 for all of them. *)
Subtracted(seq, after) == SubSeq(seq, after + 1, Len(seq))

(* action_for. *)
Refused(e) ==
  \/ e.skipped \/ e.withheld
  \/ e.op # "create" /\ ~ (e.before # None /\ e.before \in blobs)

SubtractLast(seq, after, p) ==  \* mutant: the last of the turns decides
  LET on == SelectSeq(Subtracted(seq, after), LAMBDA i : p \in Touched(i)) IN
    IF on = << >> THEN tree[p] ELSE LET e == EntryOf(Last(on), p) IN
      IF e.op = "create" THEN Absent ELSE e.before

(* probe_state and materialize: what a file holds in the scratch copy. The *)
(* walk is latest first, so that the earliest of the turns decides.        *)
Subtract(seq, after, p) ==
  LET on == SelectSeq(Subtracted(seq, after), LAMBDA i : p \in Touched(i)) IN
    IF on = << >> THEN tree[p] ELSE LET e == EntryOf(Head(on), p) IN
      IF e.op = "create" THEN Absent ELSE e.before

Blocking(seq, after) ==
  {i \in Range(Subtracted(seq, after)) : \E p \in Touched(i) : Refused(EntryOf(i, p))}

Fails(content) == content # Absent /\ left.fault.line \in content

-----------------------------------------------------------------------------

GapWindows(from, to) ==
  {g \in Gaps : IF g.kind = "trailingStop" THEN g.since <= to ELSE g.since >= from}

(* "read" and "drifted" are history: how much of the ledger it has read,   *)
(* and whether it has judged a working tree that does not follow from that.*)
Search(bare, lo, hi) ==
  LET seq == Sequence(bare) IN
    [ seq |-> seq, from |-> lo, to |-> hi, lo |-> lo, hi |-> hi, tried |-> {}, done |-> FALSE,
      windows |-> GapWindows(IF lo = 0 THEN 0 ELSE seq[lo], seq[hi]),
      read |-> Len(records), drifted |-> FALSE ]

(* lo and hi are places in the sequence: the user vouches for them.        *)
StartBisect(bare, lo, hi) ==
  /\ search # None => search.done
  /\ Spend("bisects")
  /\ lo < hi /\ hi <= Len(Sequence(bare))
  /\ search' = Search(bare, lo, hi)

(* pick_candidate: outward from the middle, the later one first.           *)
Candidates == (search.lo + 1 .. search.hi - 1) \ search.tried
Distance(c) ==
  LET middle == search.lo + 1 + (search.hi - search.lo - 2) \div 2 IN
    IF c >= middle THEN 2 * (c - middle) ELSE 2 * (middle - c) + 1
Candidate == CHOOSE c \in Candidates : \A d \in Candidates : Distance(c) <= Distance(d)

Narrow(outcome) ==
  CASE outcome = "good" -> [search EXCEPT !.tried = @ \cup {Candidate}, !.lo = Candidate]
    [] outcome = "bad" -> [search EXCEPT !.tried = @ \cup {Candidate}, !.hi = Candidate]
    [] OTHER -> [search EXCEPT !.tried = @ \cup {Candidate}]

(* What the file held after a turn, by the log. *)
Upto(i) == {j \in Touching(left.fault.path) : j <= i}
After(i) == IF Upto(i) = {} THEN None ELSE EntryOf(Max(Upto(i)), left.fault.path).after
Has(c) == c # None /\ left.fault.line \in c

(* History: the file is the working tree's, and someone has put the line   *)
(* into it, or taken it out, and the ledger as read does not tell.         *)
Drifts(seq, after) ==
  /\ \A i \in Range(Subtracted(seq, after)) : left.fault.path \notin Touched(i)
  /\ Fails(tree[left.fault.path]) # Has(After(search.read))

Probe ==
  /\ search # None /\ ~ search.done /\ Candidates # {}
  /\ LET verdict == IF Fails(Subtract(search.seq, Candidate, left.fault.path)) THEN "bad" ELSE "good" IN
       \E outcome \in IF Blocking(search.seq, Candidate) # {} THEN {"unanswerable"}
                      ELSE {verdict} \cup (IF left.flaky THEN {"flaky"} ELSE {}) :
         search' = [Narrow(outcome) EXCEPT
           !.drifted = @ \/ (outcome \in {"good", "bad"} /\ Drifts(search.seq, Candidate))]

Conclude ==
  /\ search # None /\ ~ search.done /\ Candidates = {}
  /\ search' = [search EXCEPT !.done = TRUE]

BisectStep ==
  \/ \E bare \in BOOLEAN, lo \in {0, 1} : \E hi \in {Len(Sequence(bare))} : StartBisect(bare, lo, hi)
  \/ (Probe \/ Conclude) /\ UNCHANGED left

Suspects == {search.seq[i] : i \in search.lo + 1 .. search.hi}

-----------------------------------------------------------------------------

Brought(i) == <<i, left.fault.path, left.fault.line>> \in brought
Took(i)    == LET e == EntryOf(i, left.fault.path) IN Has(e.before) /\ ~ Has(e.after)

(* The turn that bisect names as the first bad one brought the line, or    *)
(* the suspects it names hold one that did -- if the user was right about  *)
(* the two ends, unless a gap of the recording is listed, a turn that the  *)
(* sequence leaves out has changed the line too, or a probe has copied the *)
(* file from a working tree in which the line was changed and no turn that *)
(* was read tells of it: edits that wait for their turn, or for the next   *)
(* start, or that came during the search.                                  *)
BisectHonest ==
  search # None /\ search.done =>
    LET from == IF search.from = 0 THEN 0 ELSE search.seq[search.from]
        to   == search.seq[search.to]
    IN  \/ Has(After(to)) = FALSE \/ Has(After(from))
        \/ search.windows # {} \/ search.drifted
        \/ \E i \in Upto(search.read) : (Brought(i) \/ Took(i)) /\ i \notin Range(search.seq)
        \/ \E i \in Suspects \cap Touching(left.fault.path) : Brought(i)
=============================================================================
