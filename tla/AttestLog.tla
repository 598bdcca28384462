----------------------------- MODULE AttestLog -----------------------------
(* attest.jsonl and its fold (attest/events.rs, attest/fold.rs). Readers   *)
(* never use more of the file than fold_claims makes of it, so the state   *)
(* is the fold of the events that are in the file, and appending an event  *)
(* is the arm of the fold for it.                                          *)
(*                                                                         *)
(* The counters of ClaimHistory, time stamps, texts and notes are left     *)
(* out, and so is renamed_from, which no reader uses.                      *)
EXTENDS Naturals, FiniteSets

CONSTANTS
  MaxClaims,   \* bound on the claims that are ever minted
  Tests,       \* TestIdentity: a target and the path of a function in it
  Hashes,      \* body hashes
  None

ASSUME AttestLogAssumption ==
  /\ MaxClaims \in Nat /\ IsFiniteSet(Tests)
  /\ None \notin 1 .. MaxClaims /\ None \notin Tests /\ None \notin Hashes

VARIABLES
  claims,   \* FoldResult.claims
  index,    \* FoldResult.by_identity
  minted    \* how many claim ids were ever minted

attestLog == <<claims, index, minted>>

Claims == 1 .. MaxClaims
Answers == {"yes", "no", "skip"}
Severities == {"blocking", "fyi"}
Verdicts == {"confirmed", "claim-false", "recipe-invalid", "flaky"}
Statuses == {"unseen", "derived", "declared", "evidenced"} \cup Verdicts \cup Answers

ClaimState ==
  [ status   : Statuses,
    test     : Tests \cup {None},
    hash     : Hashes \cup {None},
    stale    : BOOLEAN,
    severity : Severities \cup {None} ]

Unseen == [ status |-> "unseen", test |-> None, hash |-> None, stale |-> FALSE, severity |-> None ]

Seen == {c \in Claims : claims[c].status # "unseen"}
Refuted(c) == claims[c].status = "claim-false"
Stale(c) == claims[c].stale

(* The claims of a set in the order of their ids. *)
InOrder(S) ==
  CHOOSE s \in [1 .. Cardinality(S) -> S] : \A i, j \in DOMAIN s : i < j => s[i] < s[j]

EmptyLog ==
  /\ claims = [c \in Claims |-> Unseen]
  /\ index = [t \in Tests |-> None]
  /\ minted = 0

-----------------------------------------------------------------------------
(* What each kind of event makes of the claim it names. A claim is born    *)
(* "derived" by whatever event is the first to name it; a refuted one      *)
(* keeps its status whatever comes.                                        *)

Born(s) == IF s.status = "unseen" THEN [s EXCEPT !.status = "derived"] ELSE s

MovedOver(s, status) == [s EXCEPT !.status = status]  \* mutant: moves a refuted claim

Moved(s, status) == IF s.status = "claim-false" THEN s ELSE [s EXCEPT !.status = status]

Derived(s, e) ==
  [Born(s) EXCEPT !.test = e.test, !.hash = IF e.hash = None THEN @ ELSE e.hash]

Evidenced(s, e) ==
  LET named == [Born(s) EXCEPT !.test = IF @ = None THEN e.test ELSE @] IN
    IF named.status = "derived" THEN Moved(named, "evidenced") ELSE named

JudgedAny(s, e) ==  \* mutant: every verdict drops the overlay
  LET t == Moved(Born(s), e.verdict) IN
    IF s.status = "claim-false" THEN t ELSE [t EXCEPT !.stale = FALSE]

(* Only a verdict that establishes a state drops the overlay. *)
Judged(s, e) ==
  LET t == Moved(Born(s), e.verdict) IN
    IF s.status # "claim-false" /\ e.verdict \in {"confirmed", "claim-false"}
    THEN [t EXCEPT !.stale = FALSE] ELSE t

Staled(s) == [Born(s) EXCEPT !.stale = (s.status # "claim-false") \/ @]

Answered(s, e) == Moved(Born(s), e.answer)

Declared(s, e) ==
  [s EXCEPT !.severity = e.severity, !.status = IF @ = "unseen" THEN "declared" ELSE @]

Applied(s, e) ==
  CASE e.kind = "derive"   -> Derived(s, e)
    [] e.kind = "evidence" -> Evidenced(s, e)
    [] e.kind = "verdict"  -> Judged(s, e)
    [] e.kind = "stale"    -> Staled(s)
    [] e.kind = "human"    -> Answered(s, e)
    [] e.kind = "declare"  -> Declared(s, e)

IndexKeepingOld(c, e) ==  \* mutant: a rename leaves the old identity behind
  IF e.kind = "derive" \/ (e.kind = "evidence" /\ claims[c].test = None)
  THEN [index EXCEPT ![e.test] = c] ELSE index

(* A derive retires the identity that its claim had, and no other.         *)
Indexed(c, e) ==
  IF e.kind = "derive"
  THEN [t \in Tests |-> IF t = e.test THEN c
                        ELSE IF t = claims[c].test THEN None ELSE index[t]]
  ELSE IF e.kind = "evidence" /\ claims[c].test = None
  THEN [index EXCEPT ![e.test] = c]
  ELSE index

(* One line of the file. An event without a claim carries a fresh id.      *)
ClaimOf(e) == IF e.claim = None THEN minted + 1 ELSE e.claim

AppendEvent(e) ==
  LET c == ClaimOf(e) IN
    /\ c \in Claims
    /\ claims' = [claims EXCEPT ![c] = Applied(@, e)]
    /\ index' = Indexed(c, e)
    /\ minted' = IF e.claim = None THEN c ELSE minted

-----------------------------------------------------------------------------
(* gatecmd.rs, statuscmd.rs: what keeps a release back.                    *)

Blocking(s) ==
  \/ s.status = "claim-false"
  \/ s.severity = "blocking" /\ s.status # "yes"

GatePasses == \A c \in Seen : ~ Blocking(claims[c])

(* reviewcmd.rs: the claims of which review makes a card. *)
NeedsAHuman(s) == s.severity = "blocking" /\ s.status \in {"declared", "skip"}
=============================================================================
