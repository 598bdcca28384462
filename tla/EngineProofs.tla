---------------------------- MODULE EngineProofs ----------------------------
(***************************************************************************)
(* Proofs about EngineMachine, for every value of its constants: its types *)
(* (TypeCorrect), the ids it returns, what it attributes to git, and, in   *)
(* the second half, that what was observed is accounted for (NothingLost,  *)
(* FilesMatchObservations and NoFabricatedAttribution).                    *)
(***************************************************************************)
EXTENDS EngineMachine, TLAPS, WellFoundedInduction, SequenceTheorems, FiniteSetTheorems

(* A non-empty set of times has an earliest one, and Earliest returns it.  *)
LEMMA EarliestExists ==
  ASSUME NEW T \in SUBSET Nat, T # {}
  PROVE  /\ Earliest(T) \in T
         /\ \A u \in T : Earliest(T) <= u
<1>1. PICK t \in T : \A u \in T : ~ (<<u, t>> \in OpToRel(<, Nat))
  BY NatLessThanWellFounded, WFMin
<1>2. \A u \in T : t <= u
  <2>1. ASSUME NEW u \in T, u < t
        PROVE  FALSE
    <3>1. <<u, t>> \in Nat \X Nat /\ <<u, t>>[1] < <<u, t>>[2]
      BY <2>1
    <3>2. <<u, t>> \in OpToRel(<, Nat)
      BY <3>1, Zenon DEF OpToRel
    <3> QED
      BY <1>1, <3>2
  <2> QED
    BY <2>1
<1> QED
  BY <1>2 DEF Earliest

(* The fragment that fixes the `before` of a folded path is one of the     *)
(* fragments that touched the path, and none of them opened earlier.       *)
LEMMA OldestFragmentIsOne ==
  ASSUME NEW frags \in SUBSET ClosedTurns, NEW p,
         \E b \in frags : p \in DOMAIN b.files
  PROVE  /\ OldestFragment(frags, p) \in frags
         /\ p \in DOMAIN OldestFragment(frags, p).files
         /\ \A c \in frags :
              p \in DOMAIN c.files => OldestFragment(frags, p).openedAt <= c.openedAt
<1> DEFINE touching == {b \in frags : p \in DOMAIN b.files}
           times == {b.openedAt : b \in touching}
<1>1. times \in SUBSET Nat /\ times # {}
  BY DEF ClosedTurns
<1>2. PICK b \in touching : b.openedAt = Earliest(times)
  BY <1>1, EarliestExists
<1>3. \A c \in touching : b.openedAt <= c.openedAt
  BY <1>1, <1>2, EarliestExists
<1>4. /\ b \in frags /\ p \in DOMAIN b.files
      /\ \A c \in frags : p \in DOMAIN c.files => b.openedAt <= c.openedAt
  BY <1>2, <1>3
<1> QED
  BY <1>4 DEF OldestFragment

(* The file maps are the functions from some paths to file records.        *)
LEMMA FileMapsAre ==
  ASSUME NEW f, DOMAIN f \subseteq Paths, f \in [DOMAIN f -> FileRecords]
  PROVE  f \in FileMaps
  BY DEF FileMaps

LEMMA FileMapsHave ==
  ASSUME NEW f \in FileMaps
  PROVE  /\ DOMAIN f \subseteq Paths
         /\ f \in [DOMAIN f -> FileRecords]
         /\ \A p \in DOMAIN f : f[p] \in FileRecords
<1>1. PICK P \in SUBSET Paths : f \in [P -> FileRecords]
  BY DEF FileMaps
<1>2. DOMAIN f = P
  BY <1>1
<1> QED
  BY <1>1, <1>2

LEMMA NoFiles == << >> \in FileMaps
<1>1. DOMAIN << >> = {}
  OBVIOUS
<1>2. << >> \in [{} -> FileRecords]
  OBVIOUS
<1> QED
  BY <1>1, <1>2, FileMapsAre

-----------------------------------------------------------------------------
(* Types of what the helpers return. *)

Boundaries == {"quiet", "git", "timeout", "bracket", "stop-only"}

LEMMA FinishType ==
  ASSUME NEW o \in OpenTurns, NEW at \in Nat, NEW boundary \in Boundaries,
         NEW grade \in {"rich", "bare"}, NEW truncated \in BOOLEAN
  PROVE  Finish(o, at, boundary, grade, truncated) \in ClosedTurns
<1>1. Later(at, o.openedAt) \in Nat
  BY DEF Later, OpenTurns
<1> QED
  BY <1>1 DEF Finish, OpenTurns, ClosedTurns, Boundaries

LEMMA CloseOnOwnTermsType ==
  ASSUME NEW o \in OpenTurns, NEW at \in Nat
  PROVE  CloseOnOwnTerms(o, at) \in ClosedTurns
<1>1. CASE o.source = "quiet"
  BY <1>1, FinishType DEF CloseOnOwnTerms, Boundaries
<1>2. CASE o.source = "git"
  BY <1>2, FinishType DEF CloseOnOwnTerms, Boundaries
<1>3. CASE o.source = "bracket"
  BY <1>3, FinishType DEF CloseOnOwnTerms, Boundaries
<1> QED
  BY <1>1, <1>2, <1>3 DEF OpenTurns

LEMMA OpenTurnType ==
  ASSUME NEW source \in {"quiet", "git", "bracket"},
         NEW tool \in Tools \cup {Git, None}, NEW at \in Nat, NEW id \in Ids,
         NEW k \in EmitterTurns \cup {None}
  PROVE  OpenTurn(source, tool, at, id, k) \in OpenTurns
  BY NoFiles DEF OpenTurn, OpenTurns

LEMMA FoldedFilesType ==
  ASSUME NEW turn \in ClosedTurns, NEW frags \in SUBSET ClosedTurns
  PROVE  FoldedFiles(turn, frags) \in FileMaps
<1> DEFINE touched == UNION {DOMAIN b.files : b \in frags}
           F == FoldedFiles(turn, frags)
<1>1. /\ turn.files \in FileMaps
      /\ \A b \in frags : b.files \in FileMaps
  BY DEF ClosedTurns
<1>2. \A p \in touched :
        OldestFragment(frags, p).files[p] \in FileRecords
  <2>1. ASSUME NEW p \in touched
        PROVE  /\ OldestFragment(frags, p) \in frags
               /\ p \in DOMAIN OldestFragment(frags, p).files
    BY OldestFragmentIsOne
  <2> QED
    BY <1>1, <2>1, FileMapsHave
<1>3. \A p \in DOMAIN turn.files : turn.files[p] \in FileRecords
  BY <1>1, FileMapsHave
<1>4. DOMAIN F = DOMAIN turn.files \cup touched
  BY DEF FoldedFiles
<1>5. DOMAIN F \subseteq Paths
  BY <1>1, <1>4, FileMapsHave
<1>6. ASSUME NEW p \in DOMAIN F
      PROVE  F[p] \in FileRecords
  <2>1. CASE p \notin touched
    BY <1>3, <1>4, <2>1 DEF FoldedFiles
  <2>2. CASE p \in touched /\ p \notin DOMAIN turn.files
    BY <1>2, <1>4, <2>2 DEF FoldedFiles
  <2>3. CASE p \in touched /\ p \in DOMAIN turn.files
    <3>1. F[p] = [turn.files[p] EXCEPT
                    !.before = OldestFragment(frags, p).files[p].before]
      BY <1>4, <2>3 DEF FoldedFiles
    <3> QED
      BY <1>2, <1>3, <2>3, <3>1 DEF FileRecords
  <2> QED
    BY <2>1, <2>2, <2>3
<1>7. F \in [DOMAIN F -> FileRecords]
  BY <1>6 DEF FoldedFiles
<1> QED
  BY <1>5, <1>7, FileMapsAre

LEMMA FoldType ==
  ASSUME NEW turn \in ClosedTurns, NEW recent \in SUBSET ClosedTurns,
         NEW lastRich
  PROVE  FoldRecentBares(turn, recent, lastRich) \in ClosedTurns
<1> DEFINE frags == {b \in recent : Eligible(turn, b, lastRich)}
           times == {turn.openedAt} \cup {b.openedAt : b \in frags}
<1>1. frags \in SUBSET ClosedTurns
  OBVIOUS
<1>2. times \in SUBSET Nat /\ times # {}
  BY DEF ClosedTurns
<1>3. Earliest(times) \in Nat
  BY <1>2, EarliestExists
<1>4. FoldedFiles(turn, frags) \in FileMaps
  BY <1>1, FoldedFilesType
<1>5. {b.id : b \in frags} \in SUBSET Ids
  BY <1>1 DEF ClosedTurns
<1>6. FoldRecentBares(turn, recent, lastRich) =
        [turn EXCEPT !.merges = {b.id : b \in frags},
                     !.openedAt = Earliest(times),
                     !.files = FoldedFiles(turn, frags)]
  BY DEF FoldRecentBares
<1> HIDE DEF frags, times
<1> QED
  BY <1>3, <1>4, <1>5, <1>6 DEF ClosedTurns

-----------------------------------------------------------------------------
(* Types of what the methods return. *)

ResultOK(r) == r.eng \in Engines /\ r.closed \in Seq(ClosedTurns)

LEMMA CloseOnStopType ==
  ASSUME NEW e \in Engines, NEW turn \in ClosedTurns,
         NEW before \in Seq(ClosedTurns), NEW t \in Nat,
         NEW reserved \in BOOLEAN
  PROVE  ResultOK(CloseOnStop(e, turn, before, t, reserved))
<1> DEFINE folded == FoldRecentBares(turn, e.recentBare, e.lastRich)
<1>1. folded \in ClosedTurns
  BY FoldType DEF Engines
<1>2. Append(before, folded) \in Seq(ClosedTurns)
  BY <1>1
<1>3. [TakeOpen(e) EXCEPT !.recentBare = {}, !.lastRich = t] \in Engines
  BY DEF TakeOpen, Engines
<1> HIDE DEF folded
<1> QED
  BY <1>2, <1>3 DEF ResultOK, CloseOnStop, Result, folded

LEMMA TurnOfChangeType ==
  ASSUME NEW e \in Engines, NEW t \in Nat, NEW id \in Ids
  PROVE  TurnOfChange(e, t, id) \in OpenTurns
<1>1. OpenTurn("git", Git, t, id, None) \in OpenTurns
  BY OpenTurnType
<1>2. OpenTurn("quiet", None, t, id, None) \in OpenTurns
  BY OpenTurnType
<1> QED
  BY <1>1, <1>2 DEF TurnOfChange, Engines

LEMMA ObserveChangesType ==
  ASSUME NEW e \in Engines, NEW t \in Nat, NEW id \in Ids,
         NEW obs \in FileMaps
  PROVE  ResultOK(ObserveChanges(e, t, obs, id))
<1>1. << >> \in Seq(ClosedTurns)
  OBVIOUS
<1>2. CASE obs = << >>
  BY <1>1, <1>2 DEF ObserveChanges, Result, ResultOK
<1>3. CASE obs # << >>
  <2> DEFINE o == TurnOfChange(e, t, id)
             files == [ p \in DOMAIN o.files \cup DOMAIN obs |->
                          IF p \notin DOMAIN o.files THEN obs[p]
                          ELSE IF p \in DOMAIN obs
                               THEN [o.files[p] EXCEPT !.status = obs[p].status]
                               ELSE o.files[p] ]
  <2>1. o \in OpenTurns /\ o.files \in FileMaps
    BY TurnOfChangeType DEF OpenTurns
  <2>2. ASSUME NEW p \in DOMAIN o.files \cup DOMAIN obs
        PROVE  files[p] \in FileRecords
    <3>1. p \in DOMAIN o.files => o.files[p] \in FileRecords
      BY <2>1, FileMapsHave
    <3>2. p \in DOMAIN obs => obs[p] \in FileRecords
      BY FileMapsHave
    <3> HIDE DEF o
    <3> QED
      BY <3>1, <3>2 DEF FileRecords
  <2>3. DOMAIN files \subseteq Paths
    BY <2>1, FileMapsHave
  <2>4. files \in FileMaps
    <3> HIDE DEF o
    <3>1. files \in [DOMAIN files -> FileRecords]
      BY <2>2
    <3> HIDE DEF files
    <3> QED
      BY <2>3, <3>1, FileMapsAre
  <2>5. [o EXCEPT !.files = files] \in OpenTurns
    <3> HIDE DEF o, files
    <3> QED
      BY <2>1, <2>4 DEF OpenTurns
  <2>6. [e EXCEPT !.open = [o EXCEPT !.files = files], !.lastChange = t]
          \in Engines
    <3> HIDE DEF o, files
    <3> QED
      BY <2>5 DEF Engines
  <2>7. ObserveChanges(e, t, obs, id) =
          Result([e EXCEPT !.open = [o EXCEPT !.files = files],
                           !.lastChange = t], << >>, e.open = None)
    BY <1>3 DEF ObserveChanges
  <2> HIDE DEF o, files
  <2> QED
    BY <1>1, <2>6, <2>7 DEF Result, ResultOK
<1> QED
  BY <1>2, <1>3

LEMMA LastActivityType ==
  ASSUME NEW e \in Engines, e.open # None
  PROVE  LastActivity(e) \in Nat
  BY DEF LastActivity, Engines, OpenTurns

LEMMA ObserveGitChangeType ==
  ASSUME NEW e \in Engines, NEW t \in Nat
  PROVE  ObserveGitChange(e, t) \in Engines
<1> DEFINE w == [e EXCEPT !.gitUntil = t + GIT_SETTLE_MS]
<1>1. w \in Engines
  <2>1. t + GIT_SETTLE_MS \in Nat
    BY WindowsAssumption
  <2> QED
    BY <2>1 DEF Engines
<1>2. CASE ~HasOpen(e, "quiet")
  BY <1>1, <1>2 DEF ObserveGitChange
<1>3. CASE HasOpen(e, "quiet")
  <2>1. e.open \in OpenTurns
    BY <1>3 DEF HasOpen, Engines
  <2>2. [w EXCEPT !.open.source = "git", !.open.tool = Git] \in Engines
    BY <1>1, <2>1 DEF Engines, OpenTurns
  <2> DEFINE turn == CloseOnOwnTerms(e.open, LastActivity(e))
  <2>3. turn \in ClosedTurns
    BY <1>3, <2>1, LastActivityType, CloseOnOwnTermsType DEF HasOpen
  <2>4. SetAside(w, turn) \in Engines
    <3> HIDE DEF turn, w
    <3>1. TakeOpen(w) \in Engines
      BY <1>1 DEF TakeOpen, Engines
    <3>2. /\ TakeOpen(w).recentBare \cup {turn} \in SUBSET ClosedTurns
          /\ Append(TakeOpen(w).pending, turn) \in Seq(ClosedTurns)
      BY <2>3, <3>1 DEF Engines
    <3> QED
      BY <3>1, <3>2 DEF SetAside, Engines
  <2> HIDE DEF turn
  <2> QED
    BY <1>3, <2>2, <2>4 DEF ObserveGitChange, turn
<1> QED
  BY <1>2, <1>3

LEMMA ObserveStartType ==
  ASSUME NEW e \in Engines, NEW t \in Nat, NEW tool \in Tools,
         NEW k \in EmitterTurns \cup {None}, NEW id \in Ids
  PROVE  ResultOK(ObserveStart(e, t, tool, k, id))
<1>1. OpenTurn("bracket", tool, t, id, k) \in OpenTurns
  BY OpenTurnType
<1>2. [TakeOpen(e) EXCEPT !.open = OpenTurn("bracket", tool, t, id, k)]
        \in Engines
  BY <1>1 DEF TakeOpen, Engines
<1>3. e.open # None => CloseOnOwnTerms(e.open, t) \in ClosedTurns
  BY CloseOnOwnTermsType DEF Engines
<1>4. (IF e.open = None THEN << >> ELSE <<CloseOnOwnTerms(e.open, t)>>)
        \in Seq(ClosedTurns)
  BY <1>3
<1> QED
  BY <1>2, <1>4 DEF ObserveStart, Result, ResultOK

LEMMA ObserveStopType ==
  ASSUME NEW e \in Engines, NEW t \in Nat, NEW tool \in Tools, NEW id \in Ids
  PROVE  ResultOK(ObserveStop(e, t, tool, id))
<1> DEFINE ownBracket == HasOpen(e, "bracket") /\ e.open.tool = tool
           convertible == /\ HasOpen(e, "quiet")
                          /\ Monus(t, e.open.openedAt) <= FOLD_WINDOW_MS
<1>1. << >> \in Seq(ClosedTurns)
  OBVIOUS
<1>2. e.open # None => e.open \in OpenTurns
  BY DEF Engines
<1>3. CASE ownBracket
  <2>1. Finish(e.open, t, "bracket", "rich", FALSE) \in ClosedTurns
    BY <1>2, <1>3, FinishType DEF Boundaries, HasOpen
  <2> QED
    BY <1>1, <1>3, <2>1, CloseOnStopType DEF ObserveStop
<1>4. CASE ~ownBracket /\ convertible
  <2>1. Finish(e.open, t, "stop-only", "rich", FALSE) \in ClosedTurns
    BY <1>2, <1>4, FinishType DEF Boundaries, HasOpen
  <2>2. [Finish(e.open, t, "stop-only", "rich", FALSE) EXCEPT !.tool = tool]
          \in ClosedTurns
    BY <2>1 DEF ClosedTurns
  <2> QED
    BY <1>1, <1>4, <2>2, CloseOnStopType DEF ObserveStop
<1>5. CASE ~ownBracket /\ ~convertible
  <2>1. Finish(OpenTurn("quiet", tool, t, id, None), t, "stop-only", "rich",
               FALSE) \in ClosedTurns
    BY OpenTurnType, FinishType DEF Boundaries
  <2>2. e.open # None => CloseOnOwnTerms(e.open, t) \in ClosedTurns
    BY <1>2, CloseOnOwnTermsType
  <2>3. (IF e.open = None THEN << >> ELSE <<CloseOnOwnTerms(e.open, t)>>)
          \in Seq(ClosedTurns)
    BY <2>2
  <2> QED
    BY <1>5, <2>1, <2>3, CloseOnStopType DEF ObserveStop
<1> QED
  BY <1>3, <1>4, <1>5

LEMMA TickType ==
  ASSUME NEW e \in Engines, NEW t \in Nat
  PROVE  ResultOK(Tick(e, t))
<1> DEFINE p == Prune(e, t)
           at == IF e.open.source = "bracket" THEN LastActivity(e) ELSE t
           turn == CloseOnOwnTerms(e.open, at)
           bares == p.recentBare
                      \cup (IF turn.grade = "bare" THEN {turn} ELSE {})
<1>1. p \in Engines
  <2>1. StillRecent(e.recentBare, t) \in SUBSET ClosedTurns
    BY DEF StillRecent, Engines
  <2>2. << >> \in Seq(ClosedTurns)
    OBVIOUS
  <2> QED
    BY <2>1, <2>2 DEF Prune, Engines
<1>2. e.pending \in Seq(ClosedTurns)
  BY DEF Engines
<1>3. CASE e.open # None /\ Elapsed(e, t)
  <2>1. e.open \in OpenTurns /\ at \in Nat
    BY <1>3, LastActivityType DEF Engines
  <2>2. turn \in ClosedTurns
    BY <2>1, CloseOnOwnTermsType
  <2> HIDE DEF p, turn, at
  <2>3. [TakeOpen(p) EXCEPT !.recentBare = bares] \in Engines
    BY <1>1, <2>2 DEF TakeOpen, Engines
  <2>4. Append(e.pending, turn) \in Seq(ClosedTurns)
    BY <1>2, <2>2
  <2>5. Tick(e, t) = Result([TakeOpen(p) EXCEPT !.recentBare = bares],
                            Append(e.pending, turn), FALSE)
    BY <1>3 DEF Tick, p, turn, at
  <2> QED
    BY <2>3, <2>4, <2>5 DEF Result, ResultOK
<1>4. CASE ~(e.open # None /\ Elapsed(e, t))
  BY <1>1, <1>2, <1>4 DEF Tick, Result, ResultOK
<1> QED
  BY <1>3, <1>4

LEMMA ForceCloseType ==
  ASSUME NEW e \in Engines, NEW t \in Nat
  PROVE  ResultOK(ForceClose(e, t))
<1>1. e.open # None => CloseOnOwnTerms(e.open, t) \in ClosedTurns
  BY CloseOnOwnTermsType DEF Engines
<1>2. TakeOpen(e) \in Engines
  BY DEF TakeOpen, Engines
<1> QED
  BY <1>1, <1>2 DEF ForceClose, Result, ResultOK

-----------------------------------------------------------------------------
(* Type correctness of the machine. *)

LEMMA ApplyType ==
  ASSUME TypeOK, NEW r, ResultOK(r), Apply(r), nextId <= MaxIds
  PROVE  /\ eng' \in Engines
         /\ closed' \in Seq(ClosedTurns)
         /\ nextId' \in 1 .. MaxIds + 1
  BY BoundsAssumption DEF Apply, ResultOK, TypeOK

LEMMA InitTypeOK == Init => TypeOK
  BY BoundsAssumption DEF Init, TypeOK, NewEngine, Engines, Times

LEMMA StepTypeOK == TypeOK /\ [Next]_vars => TypeOK'
<1> SUFFICES ASSUME TypeOK, [Next]_vars
             PROVE  TypeOK'
  OBVIOUS
<1> USE BoundsAssumption
<1>t. eng \in Engines /\ now \in Nat /\ closed \in Seq(ClosedTurns)
  BY DEF TypeOK, Times
<1>1. CASE Advance
  BY <1>1 DEF Advance, TypeOK, Times
<1>2. ASSUME NEW P \in (SUBSET Paths) \ {{}}, NEW s \in [P -> Statuses],
             Changes(P, s)
      PROVE  TypeOK'
  <2> DEFINE obs == [p \in P |-> Observation(stamp + 1, s[p])]
  <2>1. nextId \in Ids /\ stamp + 1 \in 1 .. MaxBatches
    BY <1>2 DEF Changes, TypeOK, Ids
  <2>2. obs \in FileMaps
    <3>1. \A p \in P : Observation(stamp + 1, s[p]) \in FileRecords
      BY <2>1 DEF Observation, FileRecords
    <3>2. DOMAIN obs \subseteq Paths /\ obs \in [DOMAIN obs -> FileRecords]
      BY <3>1
    <3> HIDE DEF obs
    <3> QED
      BY <3>2, FileMapsAre
  <2>3. ResultOK(ObserveChanges(eng, now, obs, nextId))
    BY <1>t, <2>1, <2>2, ObserveChangesType
  <2>4. /\ Apply(ObserveChanges(eng, now, obs, nextId))
        /\ stamp' = stamp + 1 /\ UNCHANGED <<now, running>>
    BY <1>2 DEF Changes
  <2> HIDE DEF obs
  <2> QED
    BY <2>1, <2>3, <2>4, ApplyType DEF TypeOK, Ids
<1>3. CASE GitChange
  BY <1>t, <1>3, ObserveGitChangeType DEF GitChange, TypeOK
<1>4. ASSUME NEW tool \in Tools, NEW k \in EmitterTurns \cup {None},
             Start(tool, k)
      PROVE  TypeOK'
  <2>1. nextId \in Ids
    BY <1>4 DEF Start, TypeOK, Ids
  <2>2. ResultOK(ObserveStart(eng, now, tool, k, nextId))
    BY <1>t, <2>1, ObserveStartType
  <2> QED
    BY <1>4, <2>2, ApplyType DEF Start, TypeOK
<1>5. ASSUME NEW tool \in Tools, NEW k \in EmitterTurns \cup {None},
             Stop(tool, k)
      PROVE  TypeOK'
  <2>1. nextId \in Ids
    BY <1>5 DEF Stop, TypeOK, Ids
  <2>2. ResultOK(ObserveStop(eng, now, tool, nextId))
    BY <1>t, <2>1, ObserveStopType
  <2> QED
    BY <1>5, <2>2, ApplyType DEF Stop, TypeOK
<1>6. CASE TickNow
  <2>1. ResultOK(Tick(eng, now)) /\ ~Tick(eng, now).reserved
    BY <1>t, TickType DEF Tick, Result
  <2> QED
    BY <1>6, <2>1 DEF TickNow, Apply, ResultOK, TypeOK
<1>7. CASE Shutdown
  <2>1. ResultOK(ForceClose(eng, now)) /\ ~ForceClose(eng, now).reserved
    BY <1>t, ForceCloseType DEF ForceClose, Result
  <2>2. /\ running' = FALSE /\ now' = now /\ stamp' = stamp
        /\ Apply(ForceClose(eng, now))
    BY <1>7 DEF Shutdown
  <2>3. eng' \in Engines /\ closed' \in Seq(ClosedTurns) /\ nextId' = nextId
    BY <1>t, <2>1, <2>2 DEF Apply, ResultOK
  <2> QED
    BY <2>2, <2>3 DEF TypeOK
<1>8. CASE UNCHANGED vars
  BY <1>8 DEF vars, TypeOK
<1> QED
  BY <1>1, <1>2, <1>3, <1>4, <1>5, <1>6, <1>7, <1>8 DEF Next

(* The engine and its owner are always of their types: every method keeps  *)
(* the engine well formed and returns well-formed turns.                   *)
THEOREM TypeCorrect == Spec => []TypeOK
<1>1. Init => TypeOK
  BY InitTypeOK
<1>2. TypeOK /\ [Next]_vars => TypeOK'
  BY StepTypeOK
<1> QED
  BY <1>1, <1>2, PTL DEF Spec

-----------------------------------------------------------------------------
(***************************************************************************)
(* The turns that are returned: none is returned twice (IdsUnique), and    *)
(* none is attributed to git without a ref transition nearby               *)
(* (GitNearTransition), for every value of the constants of EngineMachine. *)
(*                                                                         *)
(* Both are proved alike.  `HandsOver` says what one method does to the    *)
(* ids an engine holds and `GitKept` what it does to the attributions, one *)
(* lemma per method shows it, and ApplyIds and ApplyGit carry it over to a *)
(* step.                                                                   *)
(***************************************************************************)

IdsOf(s) == {s[i].id : i \in DOMAIN s}
Injective(s) == \A i, j \in DOMAIN s : s[i].id = s[j].id => i = j

(* The ids an engine still has to return. *)
Held(e) == IdsOf(e.pending) \cup (IF e.open = None THEN {} ELSE {e.open.id})

HoldsOnce(e) ==
  /\ Injective(e.pending)
  /\ e.open # None => e.open.id \notin IdsOf(e.pending)

(* What an engine `e` that is offered `id` may return: some of the turns   *)
(* it held and at most the new one, none twice, none of them still held.   *)
HandsOver(e, id, r) ==
  /\ HoldsOnce(r.eng)
  /\ Injective(r.closed)
  /\ IdsOf(r.closed) \cap Held(r.eng) = {}
  /\ IdsOf(r.closed) \cup Held(r.eng)
       \subseteq Held(e) \cup (IF r.reserved THEN {id} ELSE {})

IdsInv ==
  /\ HoldsOnce(eng)
  /\ Injective(closed)
  /\ IdsOf(closed) \cap Held(eng) = {}
  /\ \A i \in IdsOf(closed) \cup Held(eng) : i < nextId

(* Joining two sequences whose ids are unique and disjoint. *)
LEMMA Joined ==
  ASSUME NEW s \in Seq(ClosedTurns), NEW t \in Seq(ClosedTurns)
  PROVE  /\ IdsOf(s \o t) = IdsOf(s) \cup IdsOf(t)
         /\ Injective(s) /\ Injective(t) /\ IdsOf(s) \cap IdsOf(t) = {}
              => Injective(s \o t)
<1>1. \A i \in DOMAIN (s \o t) :
        \/ i \in DOMAIN s /\ (s \o t)[i] = s[i]
        \/ i - Len(s) \in DOMAIN t /\ i > Len(s)
             /\ (s \o t)[i] = t[i - Len(s)]
  OBVIOUS
<1>2. \A i \in DOMAIN s : i \in DOMAIN (s \o t) /\ (s \o t)[i] = s[i]
  OBVIOUS
<1>3. \A i \in DOMAIN t : i + Len(s) \in DOMAIN (s \o t)
                          /\ (s \o t)[i + Len(s)] = t[i]
  OBVIOUS
<1>4. IdsOf(s \o t) = IdsOf(s) \cup IdsOf(t)
  <2>1. ASSUME NEW i \in DOMAIN (s \o t)
        PROVE  (s \o t)[i].id \in IdsOf(s) \cup IdsOf(t)
    BY <1>1 DEF IdsOf
  <2>2. ASSUME NEW i \in DOMAIN s
        PROVE  s[i].id \in IdsOf(s \o t)
    BY <1>2 DEF IdsOf
  <2>3. ASSUME NEW i \in DOMAIN t
        PROVE  t[i].id \in IdsOf(s \o t)
    BY <1>3 DEF IdsOf
  <2> QED
    BY <2>1, <2>2, <2>3 DEF IdsOf
<1>5. ASSUME Injective(s), Injective(t), IdsOf(s) \cap IdsOf(t) = {},
             NEW i \in DOMAIN (s \o t), NEW j \in DOMAIN (s \o t),
             (s \o t)[i].id = (s \o t)[j].id
      PROVE  i = j
  <2>1. i \in Nat /\ j \in Nat /\ Len(s) \in Nat
    OBVIOUS
  <2>2. CASE i \in DOMAIN s /\ (s \o t)[i] = s[i]
             /\ j \in DOMAIN s /\ (s \o t)[j] = s[j]
    BY <1>5, <2>2 DEF Injective
  <2>3. CASE i - Len(s) \in DOMAIN t /\ (s \o t)[i] = t[i - Len(s)]
             /\ j - Len(s) \in DOMAIN t /\ (s \o t)[j] = t[j - Len(s)]
    <3>1. i - Len(s) = j - Len(s)
      BY <1>5, <2>3 DEF Injective
    <3> QED
      BY <2>1, <3>1
  <2>4. CASE i \in DOMAIN s /\ (s \o t)[i] = s[i]
             /\ j - Len(s) \in DOMAIN t /\ (s \o t)[j] = t[j - Len(s)]
    BY <1>5, <2>4 DEF IdsOf
  <2>5. CASE i - Len(s) \in DOMAIN t /\ (s \o t)[i] = t[i - Len(s)]
             /\ j \in DOMAIN s /\ (s \o t)[j] = s[j]
    BY <1>5, <2>5 DEF IdsOf
  <2> QED
    BY <1>1, <2>2, <2>3, <2>4, <2>5
<1> QED
  BY <1>4, <1>5 DEF Injective

LEMMA NoTurns == << >> \in Seq(ClosedTurns) /\ IdsOf(<< >>) = {}
                 /\ Injective(<< >>)
  BY DEF IdsOf, Injective

LEMMA OneTurn ==
  ASSUME NEW t \in ClosedTurns
  PROVE  /\ <<t>> \in Seq(ClosedTurns)
         /\ IdsOf(<<t>>) = {t.id}
         /\ Injective(<<t>>)
  BY DEF IdsOf, Injective

LEMMA Appended ==
  ASSUME NEW s \in Seq(ClosedTurns), NEW t \in ClosedTurns
  PROVE  /\ IdsOf(Append(s, t)) = IdsOf(s) \cup {t.id}
         /\ Injective(s) /\ t.id \notin IdsOf(s) => Injective(Append(s, t))
<1>1. Append(s, t) = s \o <<t>>
  OBVIOUS
<1> DEFINE u == <<t>>
<1>2. u \in Seq(ClosedTurns) /\ IdsOf(u) = {t.id} /\ Injective(u)
  BY OneTurn
<1> HIDE DEF u
<1>3. /\ IdsOf(s \o u) = IdsOf(s) \cup IdsOf(u)
      /\ Injective(s) /\ Injective(u) /\ IdsOf(s) \cap IdsOf(u) = {}
           => Injective(s \o u)
  BY <1>2, Joined
<1>4. Append(s, t) = s \o u
  BY <1>1 DEF u
<1> QED
  BY <1>2, <1>3, <1>4

(* Closing a turn keeps its id. *)
LEMMA ClosedId ==
  ASSUME NEW o \in OpenTurns, NEW at
  PROVE  CloseOnOwnTerms(o, at).id = o.id
  BY DEF CloseOnOwnTerms, Finish, OpenTurns

(* What stays of an engine without its open turn. *)
LEMMA TakeOpenHolds ==
  ASSUME NEW e \in Engines, HoldsOnce(e), NEW f \in Engines,
         f.open = None, f.pending = e.pending
  PROVE  /\ HoldsOnce(f)
         /\ Held(f) = IdsOf(e.pending)
         /\ e.open # None => Held(e) = Held(f) \cup {e.open.id}
                             /\ e.open.id \notin Held(f)
         /\ e.open = None => Held(e) = Held(f)
  BY DEF HoldsOnce, Held

LEMMA CloseOnStopHandsOver ==
  ASSUME NEW e \in Engines, HoldsOnce(e), NEW turn \in ClosedTurns,
         NEW before \in Seq(ClosedTurns), NEW t \in Nat, NEW id \in Ids,
         id \notin Held(e), NEW reserved \in BOOLEAN,
         IF reserved
         THEN /\ turn.id = id
              /\ IdsOf(before) = IF e.open = None THEN {} ELSE {e.open.id}
              /\ Injective(before)
         ELSE e.open # None /\ turn.id = e.open.id /\ before = << >>
  PROVE  HandsOver(e, id, CloseOnStop(e, turn, before, t, reserved))
<1> DEFINE folded == FoldRecentBares(turn, e.recentBare, e.lastRich)
           f == [TakeOpen(e) EXCEPT !.recentBare = {}, !.lastRich = t]
           r == CloseOnStop(e, turn, before, t, reserved)
<1>1. folded \in ClosedTurns /\ folded.id = turn.id
  <2>1. folded \in ClosedTurns
    BY FoldType DEF Engines
  <2>2. folded.id = turn.id
    BY DEF FoldRecentBares, ClosedTurns
  <2> QED
    BY <2>1, <2>2
<1>2. f \in Engines /\ f.open = None /\ f.pending = e.pending
  BY DEF TakeOpen, Engines
<1>3. r.eng = f /\ r.closed = Append(before, folded) /\ r.reserved = reserved
  BY DEF CloseOnStop, Result
<1> SUFFICES HandsOver(e, id, r)
  OBVIOUS
<1> HIDE DEF f, folded, r
<1>4. /\ HoldsOnce(f) /\ Held(f) = IdsOf(e.pending)
      /\ e.open # None => Held(e) = Held(f) \cup {e.open.id}
                          /\ e.open.id \notin Held(f)
      /\ e.open = None => Held(e) = Held(f)
  BY <1>2, TakeOpenHolds
<1>5. /\ IdsOf(r.closed) = IdsOf(before) \cup {turn.id}
      /\ Injective(before) /\ turn.id \notin IdsOf(before)
           => Injective(r.closed)
  BY <1>1, <1>3, Appended
<1>6. CASE reserved
  <2>1. IdsOf(r.closed) \subseteq {id} \cup (IF e.open = None THEN {}
                                            ELSE {e.open.id})
    BY <1>5, <1>6
  <2>2. Injective(r.closed)
    <3>1. id \notin IdsOf(before)
      BY <1>4, <1>6
    <3> QED
      BY <1>5, <1>6, <3>1
  <2>3. IdsOf(r.closed) \cap Held(f) = {}
    BY <1>4, <2>1
  <2>4. IdsOf(r.closed) \cup Held(f) \subseteq Held(e) \cup {id}
    BY <1>4, <2>1
  <2> QED
    BY <1>3, <1>4, <1>6, <2>2, <2>3, <2>4 DEF HandsOver
<1>7. CASE ~reserved
  <2>1. IdsOf(r.closed) = {e.open.id} /\ Injective(r.closed)
    BY <1>5, <1>7, NoTurns
  <2> QED
    BY <1>3, <1>4, <1>7, <2>1 DEF HandsOver
<1> QED
  BY <1>6, <1>7

LEMMA ObserveChangesHandsOver ==
  ASSUME NEW e \in Engines, HoldsOnce(e), NEW t \in Nat, NEW id \in Ids,
         id \notin Held(e), NEW obs
  PROVE  HandsOver(e, id, ObserveChanges(e, t, obs, id))
<1> DEFINE r == ObserveChanges(e, t, obs, id)
<1>1. CASE obs = << >>
  BY <1>1, NoTurns DEF ObserveChanges, Result, HandsOver
<1>2. CASE obs # << >>
  <2>1. /\ r.closed = << >> /\ (r.reserved <=> e.open = None)
        /\ r.eng.pending = e.pending
        /\ r.eng.open.id = TurnOfChange(e, t, id).id
    <3> DEFINE o == TurnOfChange(e, t, id)
               files == [ p \in DOMAIN o.files \cup DOMAIN obs |->
                            IF p \notin DOMAIN o.files THEN obs[p]
                            ELSE IF p \in DOMAIN obs
                                 THEN [o.files[p] EXCEPT !.status = obs[p].status]
                                 ELSE o.files[p] ]
               g == [o EXCEPT !.files = files]
    <3>1. o \in OpenTurns
      BY TurnOfChangeType
    <3> HIDE DEF o, files
    <3>2. g.id = o.id /\ "id" \in DOMAIN g
      BY <3>1 DEF OpenTurns
    <3>3. r = Result([e EXCEPT !.open = g, !.lastChange = t], << >>,
                     e.open = None)
      BY <1>2 DEF ObserveChanges, o, files
    <3> HIDE DEF g, r
    <3>4. r.closed = << >> /\ (r.reserved <=> e.open = None)
      BY <3>3 DEF Result
    <3>5. r.eng = [e EXCEPT !.open = g, !.lastChange = t]
      BY <3>3 DEF Result
    <3>6. r.eng.pending = e.pending /\ r.eng.open = g
      BY <3>5 DEF Engines
    <3> QED
      BY <3>2, <3>4, <3>6 DEF o
  <2>2. TurnOfChange(e, t, id).id = IF e.open = None THEN id ELSE e.open.id
    BY DEF TurnOfChange, OpenTurn
  <2> SUFFICES HandsOver(e, id, r)
    OBVIOUS
  <2> HIDE DEF r
  <2>3. CASE e.open = None
    <3>1. /\ Held(e) = IdsOf(e.pending)
          /\ Held(r.eng) \subseteq Held(e) \cup {id}
      BY <2>1, <2>2, <2>3 DEF Held
    <3>2. HoldsOnce(r.eng)
      BY <2>1, <2>2, <2>3, <3>1 DEF HoldsOnce
    <3> QED
      BY <2>1, <2>3, <3>1, <3>2, NoTurns DEF HandsOver
  <2>4. CASE e.open # None
    <3>1. Held(r.eng) \subseteq Held(e)
      BY <2>1, <2>2, <2>4 DEF Held
    <3>2. HoldsOnce(r.eng)
      BY <2>1, <2>2, <2>4 DEF HoldsOnce
    <3> QED
      BY <2>1, <2>4, <3>1, <3>2, NoTurns DEF HandsOver
  <2> QED
    BY <2>3, <2>4
<1> QED
  BY <1>1, <1>2

LEMMA ObserveGitChangeHandsOver ==
  ASSUME NEW e \in Engines, HoldsOnce(e), NEW t \in Nat
  PROVE  /\ HoldsOnce(ObserveGitChange(e, t))
         /\ Held(ObserveGitChange(e, t)) \subseteq Held(e)
<1> DEFINE w == [e EXCEPT !.gitUntil = t + GIT_SETTLE_MS]
           f == ObserveGitChange(e, t)
<1>1. w \in Engines /\ w.open = e.open /\ w.pending = e.pending
  <2>1. t + GIT_SETTLE_MS \in Nat
    BY WindowsAssumption
  <2>2. w \in Engines
    BY <2>1 DEF Engines
  <2> QED
    BY <2>2 DEF Engines
<1>5. /\ ~HasOpen(e, "quiet") => f = w
      /\ HasOpen(e, "quiet") =>
           \/ f = [w EXCEPT !.open.source = "git", !.open.tool = Git]
           \/ f = SetAside(w, CloseOnOwnTerms(e.open, LastActivity(e)))
  BY DEF ObserveGitChange
<1> SUFFICES HoldsOnce(f) /\ Held(f) \subseteq Held(e)
  OBVIOUS
<1> HIDE DEF f, w
<1>2. CASE f = w
  BY <1>1, <1>2 DEF HoldsOnce, Held
<1>3. CASE HasOpen(e, "quiet")
           /\ f = [w EXCEPT !.open.source = "git", !.open.tool = Git]
  <2>1. f.pending = e.pending /\ f.open.id = e.open.id /\ e.open # None
    BY <1>1, <1>3 DEF Engines, OpenTurns, HasOpen
  <2> QED
    BY <2>1 DEF HoldsOnce, Held
<1>4. CASE HasOpen(e, "quiet")
           /\ f = SetAside(w, CloseOnOwnTerms(e.open, LastActivity(e)))
  <2> DEFINE turn == CloseOnOwnTerms(e.open, LastActivity(e))
  <2>1. turn \in ClosedTurns /\ turn.id = e.open.id
    BY <1>4, LastActivityType, CloseOnOwnTermsType, ClosedId
       DEF HasOpen, Engines
  <2>2. f.pending = Append(e.pending, turn) /\ f.open = None
    <3> HIDE DEF turn
    <3>1. f = SetAside(w, turn)
      BY <1>4 DEF turn
    <3> QED
      BY <1>1, <3>1 DEF SetAside, TakeOpen, Engines
  <2>3. e.pending \in Seq(ClosedTurns) /\ e.open # None
    BY <1>4 DEF Engines, HasOpen
  <2> HIDE DEF turn
  <2>4. /\ IdsOf(f.pending) = IdsOf(e.pending) \cup {e.open.id}
        /\ Injective(f.pending)
    BY <2>1, <2>2, <2>3, Appended DEF HoldsOnce
  <2> QED
    BY <2>2, <2>3, <2>4 DEF HoldsOnce, Held
<1> QED
  BY <1>5, <1>2, <1>3, <1>4

(* What a method returns when it closes the open turn on its own terms. *)
ClosedOpen(e, t) ==
  IF e.open = None THEN << >> ELSE <<CloseOnOwnTerms(e.open, t)>>

LEMMA ClosedOpenIds ==
  ASSUME NEW e \in Engines, NEW t \in Nat
  PROVE  /\ ClosedOpen(e, t) \in Seq(ClosedTurns)
         /\ IdsOf(ClosedOpen(e, t)) = IF e.open = None THEN {}
                                      ELSE {e.open.id}
         /\ Injective(ClosedOpen(e, t))
<1>1. CASE e.open = None
  BY <1>1, NoTurns DEF ClosedOpen
<1>2. CASE e.open # None
  <2> DEFINE turn == CloseOnOwnTerms(e.open, t)
  <2>1. turn \in ClosedTurns /\ turn.id = e.open.id
    BY <1>2, CloseOnOwnTermsType, ClosedId DEF Engines
  <2> HIDE DEF turn
  <2>2. ClosedOpen(e, t) = <<turn>>
    BY <1>2 DEF ClosedOpen, turn
  <2> QED
    BY <1>2, <2>1, <2>2, OneTurn
<1> QED
  BY <1>1, <1>2

LEMMA ObserveStartHandsOver ==
  ASSUME NEW e \in Engines, HoldsOnce(e), NEW t \in Nat, NEW tool \in Tools,
         NEW k \in EmitterTurns \cup {None}, NEW id \in Ids,
         id \notin Held(e)
  PROVE  HandsOver(e, id, ObserveStart(e, t, tool, k, id))
<1> DEFINE r == ObserveStart(e, t, tool, k, id)
<1>1. /\ r.closed = ClosedOpen(e, t) /\ r.reserved
      /\ r.eng.pending = e.pending
      /\ r.eng.open.id = id
  BY DEF ObserveStart, Result, ClosedOpen, TakeOpen, OpenTurn, Engines
<1> SUFFICES HandsOver(e, id, r)
  OBVIOUS
<1> HIDE DEF r
<1>2. Held(r.eng) \subseteq IdsOf(e.pending) \cup {id}
  BY <1>1 DEF Held
<1>3. HoldsOnce(r.eng)
  BY <1>1 DEF HoldsOnce, Held
<1> QED
  BY <1>1, <1>2, <1>3, ClosedOpenIds DEF HandsOver, HoldsOnce, Held

LEMMA ObserveStopHandsOver ==
  ASSUME NEW e \in Engines, HoldsOnce(e), NEW t \in Nat, NEW tool \in Tools,
         NEW id \in Ids, id \notin Held(e)
  PROVE  HandsOver(e, id, ObserveStop(e, t, tool, id))
<1> DEFINE ownBracket == HasOpen(e, "bracket") /\ e.open.tool = tool
           convertible == /\ HasOpen(e, "quiet")
                          /\ Monus(t, e.open.openedAt) <= FOLD_WINDOW_MS
<1>1. << >> \in Seq(ClosedTurns)
  OBVIOUS
<1>2. e.open # None => e.open \in OpenTurns
  BY DEF Engines
<1>3. CASE ownBracket
  <2> DEFINE turn == Finish(e.open, t, "bracket", "rich", FALSE)
  <2>1. turn \in ClosedTurns /\ turn.id = e.open.id /\ e.open # None
    BY <1>2, <1>3, FinishType DEF Boundaries, HasOpen, Finish
  <2>2. ObserveStop(e, t, tool, id) = CloseOnStop(e, turn, << >>, t, FALSE)
    BY <1>3 DEF ObserveStop
  <2> HIDE DEF turn
  <2> QED
    BY <1>1, <2>1, <2>2, CloseOnStopHandsOver
<1>4. CASE ~ownBracket /\ convertible
  <2> DEFINE fin == Finish(e.open, t, "stop-only", "rich", FALSE)
             turn == [fin EXCEPT !.tool = tool]
  <2>1. fin \in ClosedTurns /\ fin.id = e.open.id /\ e.open # None
    BY <1>2, <1>4, FinishType DEF Boundaries, HasOpen, Finish
  <2>2. turn \in ClosedTurns /\ turn.id = e.open.id
    <3> HIDE DEF fin
    <3> QED
      BY <2>1 DEF ClosedTurns
  <2>3. ObserveStop(e, t, tool, id) = CloseOnStop(e, turn, << >>, t, FALSE)
    BY <1>4 DEF ObserveStop
  <2> HIDE DEF turn, fin
  <2> QED
    BY <1>1, <2>1, <2>2, <2>3, CloseOnStopHandsOver
<1>5. CASE ~ownBracket /\ ~convertible
  <2> DEFINE turn == Finish(OpenTurn("quiet", tool, t, id, None), t,
                            "stop-only", "rich", FALSE)
  <2>1. turn \in ClosedTurns /\ turn.id = id
    BY OpenTurnType, FinishType DEF Boundaries, Finish, OpenTurn
  <2>2. ObserveStop(e, t, tool, id)
          = CloseOnStop(e, turn, ClosedOpen(e, t), t, TRUE)
    BY <1>5 DEF ObserveStop, ClosedOpen
  <2> DEFINE before == ClosedOpen(e, t)
  <2>3. /\ before \in Seq(ClosedTurns) /\ Injective(before)
        /\ IdsOf(before) = IF e.open = None THEN {} ELSE {e.open.id}
    BY ClosedOpenIds
  <2>4. ObserveStop(e, t, tool, id) = CloseOnStop(e, turn, before, t, TRUE)
    BY <2>2
  <2> HIDE DEF turn, before
  <2>5. HandsOver(e, id, CloseOnStop(e, turn, before, t, TRUE))
    BY <2>1, <2>3, CloseOnStopHandsOver
  <2> QED
    BY <2>4, <2>5
<1> QED
  BY <1>3, <1>4, <1>5

LEMMA TickHandsOver ==
  ASSUME NEW e \in Engines, HoldsOnce(e), NEW t \in Nat, NEW id
  PROVE  HandsOver(e, id, Tick(e, t)) /\ ~Tick(e, t).reserved
<1> DEFINE at == IF e.open.source = "bracket" THEN LastActivity(e) ELSE t
           turn == CloseOnOwnTerms(e.open, at)
           r == Tick(e, t)
           p == Prune(e, t)
<1>4. p \in Engines /\ p.open = e.open /\ p.pending = << >>
  <2>1. StillRecent(e.recentBare, t) \in SUBSET ClosedTurns
    BY DEF StillRecent, Engines
  <2>2. << >> \in Seq(ClosedTurns)
    OBVIOUS
  <2> QED
    BY <2>1, <2>2 DEF Prune, Engines
<1>1. e.pending \in Seq(ClosedTurns)
  BY DEF Engines
<1>2. CASE e.open # None /\ Elapsed(e, t)
  <2>1. turn \in ClosedTurns /\ turn.id = e.open.id
    BY <1>2, LastActivityType, CloseOnOwnTermsType, ClosedId DEF Engines
  <2>2. /\ r.closed = Append(e.pending, turn) /\ ~r.reserved
        /\ r.eng.open = None /\ r.eng.pending = << >>
    <3> DEFINE bares == p.recentBare
                          \cup (IF turn.grade = "bare" THEN {turn} ELSE {})
    <3>1. r = Result([TakeOpen(p) EXCEPT !.recentBare = bares],
                     Append(e.pending, turn), FALSE)
      BY <1>2 DEF Tick
    <3> HIDE DEF turn, bares, r, p
    <3>2. r.closed = Append(e.pending, turn) /\ ~r.reserved
          /\ r.eng = [TakeOpen(p) EXCEPT !.recentBare = bares]
      BY <3>1 DEF Result
    <3>3. r.eng.open = None /\ r.eng.pending = p.pending
      BY <1>4, <3>2 DEF TakeOpen, Engines
    <3> QED
      BY <1>4, <3>2, <3>3
  <2> SUFFICES HandsOver(e, id, r) /\ ~r.reserved
    OBVIOUS
  <2> HIDE DEF turn, r
  <2>3. HoldsOnce(r.eng) /\ Held(r.eng) = {}
    BY <2>2, NoTurns DEF HoldsOnce, Held
  <2>4. /\ IdsOf(r.closed) = IdsOf(e.pending) \cup {e.open.id}
        /\ Injective(r.closed)
    BY <1>1, <1>2, <2>1, <2>2, Appended DEF HoldsOnce
  <2> QED
    BY <1>2, <2>2, <2>3, <2>4 DEF HandsOver, Held
<1>3. CASE ~(e.open # None /\ Elapsed(e, t))
  <2>1. r = Result(p, e.pending, FALSE)
    BY <1>3 DEF Tick
  <2> HIDE DEF p
  <2>2. /\ r.closed = e.pending /\ ~r.reserved
        /\ r.eng.open = e.open /\ r.eng.pending = << >>
    BY <1>4, <2>1 DEF Result
  <2> SUFFICES HandsOver(e, id, r) /\ ~r.reserved
    OBVIOUS
  <2> HIDE DEF r
  <2> QED
    BY <2>2, NoTurns DEF HandsOver, HoldsOnce, Held
<1> QED
  BY <1>2, <1>3

LEMMA ForceCloseHandsOver ==
  ASSUME NEW e \in Engines, HoldsOnce(e), NEW t \in Nat, NEW id
  PROVE  HandsOver(e, id, ForceClose(e, t)) /\ ~ForceClose(e, t).reserved
<1> DEFINE r == ForceClose(e, t)
<1>1. /\ r.closed = ClosedOpen(e, t) /\ ~r.reserved
      /\ r.eng.pending = e.pending /\ r.eng.open = None
  BY DEF ForceClose, Result, ClosedOpen, TakeOpen, Engines
<1> SUFFICES HandsOver(e, id, r) /\ ~r.reserved
  OBVIOUS
<1> HIDE DEF r
<1> QED
  BY <1>1, ClosedOpenIds DEF HandsOver, HoldsOnce, Held

-----------------------------------------------------------------------------

(* A step that takes what an engine hands over keeps the ids unique. *)
LEMMA ApplyIds ==
  ASSUME TypeOK, IdsInv, NEW r, ResultOK(r), HandsOver(eng, nextId, r),
         Apply(r)
  PROVE  IdsInv'
<1>1. /\ eng' = r.eng /\ closed' = closed \o r.closed
      /\ nextId' = IF r.reserved THEN nextId + 1 ELSE nextId
      /\ nextId \in Nat
  BY DEF Apply, TypeOK
<1>2. /\ IdsOf(r.closed) \cup Held(r.eng)
           \subseteq Held(eng) \cup (IF r.reserved THEN {nextId} ELSE {})
      /\ HoldsOnce(r.eng) /\ Injective(r.closed)
      /\ IdsOf(r.closed) \cap Held(r.eng) = {}
  BY DEF HandsOver
<1>3. /\ IdsOf(closed) \cap Held(eng) = {} /\ nextId \notin IdsOf(closed)
      /\ Injective(closed)
  BY <1>1 DEF IdsInv
<1>4. /\ IdsOf(closed \o r.closed) = IdsOf(closed) \cup IdsOf(r.closed)
      /\ Injective(closed \o r.closed)
  <2>1. closed \in Seq(ClosedTurns) /\ r.closed \in Seq(ClosedTurns)
    BY DEF TypeOK, ResultOK
  <2>2. IdsOf(closed) \cap IdsOf(r.closed) = {}
    BY <1>2, <1>3
  <2> QED
    BY <1>2, <1>3, <2>1, <2>2, Joined
<1>5. \A i \in IdsOf(closed) \cup Held(eng) : i \in Int /\ i < nextId
  <2>1. ASSUME NEW s \in Seq(ClosedTurns)
        PROVE  IdsOf(s) \subseteq Int
    <3>1. \A i \in DOMAIN s : s[i] \in ClosedTurns
      OBVIOUS
    <3> QED
      BY <3>1 DEF IdsOf, ClosedTurns, Ids
  <2>2. IdsOf(closed) \subseteq Int /\ IdsOf(eng.pending) \subseteq Int
    BY <2>1 DEF TypeOK, Engines
  <2>3. eng.open # None => eng.open.id \in Int
    BY DEF TypeOK, Engines, OpenTurns, Ids
  <2> QED
    BY <2>2, <2>3 DEF IdsInv, Held
<1>6. HoldsOnce(eng') /\ Injective(closed')
  BY <1>1, <1>2, <1>4
<1>7. IdsOf(closed') \cap Held(eng') = {}
  BY <1>1, <1>2, <1>3, <1>4
<1>8. \A i \in IdsOf(closed') \cup Held(eng') : i < nextId'
  BY <1>1, <1>2, <1>4, <1>5
<1> QED
  BY <1>6, <1>7, <1>8 DEF IdsInv

LEMMA InitIds == Init => IdsInv
  BY NoTurns DEF Init, NewEngine, IdsInv, HoldsOnce, Held

LEMMA StepIds == TypeOK /\ IdsInv /\ [Next]_vars => IdsInv'
<1> SUFFICES ASSUME TypeOK, IdsInv, [Next]_vars
             PROVE  IdsInv'
  OBVIOUS
<1> USE BoundsAssumption
<1>e. /\ eng \in Engines /\ HoldsOnce(eng) /\ now \in Nat
      /\ nextId \in Nat /\ nextId \notin Held(eng)
      /\ nextId <= MaxIds => nextId \in Ids
  BY DEF TypeOK, Times, IdsInv, Ids
<1>1. ASSUME NEW P \in (SUBSET Paths) \ {{}}, NEW s \in [P -> Statuses],
             Changes(P, s)
      PROVE  IdsInv'
  <2> DEFINE obs == [p \in P |-> Observation(stamp + 1, s[p])]
             r == ObserveChanges(eng, now, obs, nextId)
  <2>1. obs \in FileMaps
    <3>1. \A p \in P : Observation(stamp + 1, s[p]) \in FileRecords
      BY <1>1 DEF Changes, TypeOK, Observation, FileRecords
    <3>2. DOMAIN obs \subseteq Paths /\ obs \in [DOMAIN obs -> FileRecords]
      BY <3>1
    <3> HIDE DEF obs
    <3> QED
      BY <3>2, FileMapsAre
  <2>2. Apply(r) /\ nextId <= MaxIds
    BY <1>1 DEF Changes
  <2> HIDE DEF obs
  <2>3. ResultOK(r) /\ HandsOver(eng, nextId, r)
    BY <1>e, <2>1, <2>2, ObserveChangesType, ObserveChangesHandsOver
  <2> QED
    BY <2>2, <2>3, ApplyIds
<1>2. CASE GitChange
  <2>1. /\ eng' = ObserveGitChange(eng, now) /\ closed' = closed
        /\ nextId' = nextId
    BY <1>2 DEF GitChange
  <2>2. HoldsOnce(eng') /\ Held(eng') \subseteq Held(eng)
    BY <1>e, <2>1, ObserveGitChangeHandsOver
  <2> QED
    BY <2>1, <2>2 DEF IdsInv
<1>3. ASSUME NEW tool \in Tools, NEW k \in EmitterTurns \cup {None},
             Start(tool, k)
      PROVE  IdsInv'
  <2> DEFINE r == ObserveStart(eng, now, tool, k, nextId)
  <2>1. Apply(r) /\ nextId <= MaxIds
    BY <1>3 DEF Start
  <2>2. ResultOK(r) /\ HandsOver(eng, nextId, r)
    BY <1>e, <2>1, ObserveStartType, ObserveStartHandsOver
  <2> QED
    BY <2>1, <2>2, ApplyIds
<1>4. ASSUME NEW tool \in Tools, NEW k \in EmitterTurns \cup {None},
             Stop(tool, k)
      PROVE  IdsInv'
  <2> DEFINE r == ObserveStop(eng, now, tool, nextId)
  <2>1. Apply(r) /\ nextId <= MaxIds
    BY <1>4 DEF Stop
  <2>2. ResultOK(r) /\ HandsOver(eng, nextId, r)
    BY <1>e, <2>1, ObserveStopType, ObserveStopHandsOver
  <2> QED
    BY <2>1, <2>2, ApplyIds
<1>5. CASE TickNow
  <2>1. ResultOK(Tick(eng, now)) /\ HandsOver(eng, nextId, Tick(eng, now))
    BY <1>e, TickType, TickHandsOver
  <2> QED
    BY <1>5, <2>1, ApplyIds DEF TickNow
<1>6. CASE Shutdown
  <2>1. /\ ResultOK(ForceClose(eng, now))
        /\ HandsOver(eng, nextId, ForceClose(eng, now))
    BY <1>e, ForceCloseType, ForceCloseHandsOver
  <2> QED
    BY <1>6, <2>1, ApplyIds DEF Shutdown
<1>7. CASE Advance \/ UNCHANGED vars
  BY <1>7 DEF Advance, vars, IdsInv
<1> QED
  BY <1>1, <1>2, <1>3, <1>4, <1>5, <1>6, <1>7 DEF Next

(* No turn is returned twice, and none that a git transition set aside is  *)
(* returned under the id of another: observe_git_change, tick, the signals *)
(* and force_close hand every turn over once, in whatever order they run.  *)
THEOREM UniqueIds == Spec => []IdsUnique
<1>1. Init => TypeOK /\ IdsInv
  BY InitTypeOK, InitIds
<1>2. (TypeOK /\ IdsInv) /\ [Next]_vars => (TypeOK /\ IdsInv)'
  BY StepTypeOK, StepIds
<1>3. TypeOK /\ IdsInv => IdsUnique
  <2> SUFFICES ASSUME TypeOK, IdsInv
               PROVE  IdsUnique
    OBVIOUS
  <2>1. closed \in Seq(ClosedTurns) /\ eng.pending \in Seq(ClosedTurns)
    BY DEF TypeOK, Engines
  <2>2. /\ Injective(closed) /\ Injective(eng.pending)
        /\ IdsOf(closed) \cap IdsOf(eng.pending) = {}
    BY DEF IdsInv, HoldsOnce, Held
  <2>3. Injective(closed \o eng.pending)
    BY <2>1, <2>2, Joined
  <2> QED
    BY <2>3 DEF Injective, IdsUnique
<1> QED
  BY <1>1, <1>2, <1>3, PTL DEF Spec

-----------------------------------------------------------------------------
(* Attribution to git. *)

(* N stands for the times at which a turn of git may have opened. *)

Attributed(t, N) == t.tool = Git => t.openedAt \in N
AllAttributed(s, N) == \A i \in DOMAIN s : Attributed(s[i], N)

(* What an engine holds is attributed rightly, and did not open later.     *)
GitOK(e, N, t) ==
  /\ e.open # None => Attributed(e.open, N) /\ e.open.openedAt <= t
  /\ AllAttributed(e.pending, N)

GitKept(e, N, t, r) ==
  /\ r.eng.gitUntil = e.gitUntil
  /\ GitOK(r.eng, N, t)
  /\ AllAttributed(r.closed, N)

NearTransition ==
  {at \in Nat : \E g \in gits : /\ g <= at + GIT_SETTLE_MS + QUIET_MS
                                /\ at <= g + GIT_SETTLE_MS}

GitInv ==
  /\ gits \subseteq 0 .. now
  /\ eng.gitUntil > 0 => \E g \in gits : eng.gitUntil = g + GIT_SETTLE_MS
  /\ GitOK(eng, NearTransition, now)
  /\ AllAttributed(closed, NearTransition)

LEMMA CloseOnOwnTermsGit ==
  ASSUME NEW o \in OpenTurns, NEW at, NEW N, Attributed(o, N)
  PROVE  Attributed(CloseOnOwnTerms(o, at), N)
<1>1. /\ CloseOnOwnTerms(o, at).tool = o.tool
      /\ CloseOnOwnTerms(o, at).openedAt = o.openedAt
  BY DEF CloseOnOwnTerms, Finish, OpenTurns
<1> QED
  BY <1>1 DEF Attributed

LEMMA AppendedGit ==
  ASSUME NEW s \in Seq(ClosedTurns), NEW t \in ClosedTurns, NEW N,
         AllAttributed(s, N), Attributed(t, N)
  PROVE  AllAttributed(Append(s, t), N)
<1>1. \A i \in DOMAIN Append(s, t) :
        (i \in DOMAIN s /\ Append(s, t)[i] = s[i]) \/ Append(s, t)[i] = t
  OBVIOUS
<1> QED
  BY <1>1 DEF AllAttributed

LEMMA ClosedOpenGit ==
  ASSUME NEW e \in Engines, NEW t \in Nat, NEW N, GitOK(e, N, t)
  PROVE  AllAttributed(ClosedOpen(e, t), N)
<1>1. CASE e.open = None
  BY <1>1 DEF ClosedOpen, AllAttributed
<1>2. CASE e.open # None
  <2> DEFINE turn == CloseOnOwnTerms(e.open, t)
  <2>1. Attributed(turn, N)
    BY <1>2, CloseOnOwnTermsGit DEF Engines, GitOK
  <2> HIDE DEF turn
  <2>2. ClosedOpen(e, t) = <<turn>>
    BY <1>2 DEF ClosedOpen, turn
  <2> QED
    BY <2>1, <2>2 DEF AllAttributed
<1> QED
  BY <1>1, <1>2

(* A turn that closes on a stop has a tool of its own, folded or not. *)
LEMMA CloseOnStopGit ==
  ASSUME NEW e \in Engines, NEW turn \in ClosedTurns, turn.tool # Git,
         NEW before \in Seq(ClosedTurns), NEW t \in Nat, NEW reserved, NEW N,
         GitOK(e, N, t), AllAttributed(before, N)
  PROVE  GitKept(e, N, t, CloseOnStop(e, turn, before, t, reserved))
<1> DEFINE folded == FoldRecentBares(turn, e.recentBare, e.lastRich)
           r == CloseOnStop(e, turn, before, t, reserved)
<1>1. folded \in ClosedTurns /\ folded.tool = turn.tool
  <2>1. folded \in ClosedTurns
    BY FoldType DEF Engines
  <2>2. folded.tool = turn.tool
    BY DEF FoldRecentBares, ClosedTurns
  <2> QED
    BY <2>1, <2>2
<1> SUFFICES GitKept(e, N, t, r)
  OBVIOUS
<1>2. /\ r.closed = Append(before, folded)
      /\ r.eng.gitUntil = e.gitUntil
      /\ r.eng.open = None /\ r.eng.pending = e.pending
  BY DEF CloseOnStop, Result, TakeOpen, Engines
<1> HIDE DEF folded, r
<1>3. AllAttributed(r.closed, N)
  BY <1>1, <1>2, AppendedGit DEF Attributed
<1> QED
  BY <1>2, <1>3 DEF GitKept, GitOK

LEMMA ObserveChangesGit ==
  ASSUME NEW e \in Engines, NEW t \in Nat, NEW id \in Ids,
         NEW obs \in FileMaps, NEW N, GitOK(e, N, t),
         InGitWindow(e, t) => t \in N
  PROVE  GitKept(e, N, t, ObserveChanges(e, t, obs, id))
<1> DEFINE r == ObserveChanges(e, t, obs, id)
           o == TurnOfChange(e, t, id)
<1>1. CASE obs = << >>
  BY <1>1 DEF ObserveChanges, Result, GitKept, AllAttributed
<1>2. CASE obs # << >>
  <2>1. Attributed(o, N) /\ o.openedAt <= t
    <3>1. CASE e.open # None
      BY <3>1 DEF TurnOfChange, GitOK
    <3>2. CASE e.open = None
      BY <3>2, BoundsAssumption DEF TurnOfChange, OpenTurn, Attributed
    <3> QED
      BY <3>1, <3>2
  <2>2. o \in OpenTurns
    BY TurnOfChangeType
  <2> SUFFICES GitKept(e, N, t, r)
    OBVIOUS
  <2>3. PICK files :
          r = Result([e EXCEPT !.open = [o EXCEPT !.files = files],
                               !.lastChange = t], << >>, e.open = None)
    BY <1>2 DEF ObserveChanges
  <2> HIDE DEF o, r
  <2> DEFINE g == [o EXCEPT !.files = files]
  <2>4. g.tool = o.tool /\ g.openedAt = o.openedAt
    BY <2>2 DEF OpenTurns
  <2>5. r.closed = << >> /\ r.eng = [e EXCEPT !.open = g, !.lastChange = t]
    BY <2>3 DEF Result
  <2> HIDE DEF g
  <2>6. /\ r.eng.open = g /\ r.eng.pending = e.pending
        /\ r.eng.gitUntil = e.gitUntil
    BY <2>5 DEF Engines
  <2> QED
    BY <2>1, <2>4, <2>5, <2>6 DEF GitKept, GitOK, Attributed, AllAttributed
<1> QED
  BY <1>1, <1>2

(* A transition that converts the open turn is near its opening. *)
LEMMA ObserveGitChangeGit ==
  ASSUME NEW e \in Engines, NEW t \in Nat, NEW N, GitOK(e, N, t),
         \A at \in Nat : at <= t /\ t <= at + GIT_SETTLE_MS + QUIET_MS
                           => at \in N
  PROVE  GitOK(ObserveGitChange(e, t), N, t)
<1> DEFINE w == [e EXCEPT !.gitUntil = t + GIT_SETTLE_MS]
           f == ObserveGitChange(e, t)
<1>1. w \in Engines /\ w.open = e.open /\ w.pending = e.pending
  <2>1. t + GIT_SETTLE_MS \in Nat
    BY WindowsAssumption
  <2>2. w \in Engines
    BY <2>1 DEF Engines
  <2> QED
    BY <2>2 DEF Engines
<1>2. /\ ~HasOpen(e, "quiet") => f = w
      /\ HasOpen(e, "quiet") =>
           \/ /\ f = [w EXCEPT !.open.source = "git", !.open.tool = Git]
              /\ Monus(t, e.open.openedAt) <= GIT_SETTLE_MS + QUIET_MS
           \/ f = SetAside(w, CloseOnOwnTerms(e.open, LastActivity(e)))
  BY DEF ObserveGitChange
<1> SUFFICES GitOK(f, N, t)
  OBVIOUS
<1> HIDE DEF f, w
<1>3. CASE f = w
  BY <1>1, <1>3 DEF GitOK
<1>4. CASE /\ HasOpen(e, "quiet")
           /\ f = [w EXCEPT !.open.source = "git", !.open.tool = Git]
           /\ Monus(t, e.open.openedAt) <= GIT_SETTLE_MS + QUIET_MS
  <2>1. /\ f.pending = e.pending
        /\ f.open.openedAt = e.open.openedAt
        /\ e.open # None
    BY <1>1, <1>4 DEF Engines, OpenTurns, HasOpen
  <2>2. e.open.openedAt \in Nat /\ e.open.openedAt <= t
    BY <2>1 DEF Engines, OpenTurns, GitOK
  <2>3. t <= e.open.openedAt + GIT_SETTLE_MS + QUIET_MS
    BY <1>4, <2>2, WindowsAssumption DEF Monus
  <2> QED
    BY <2>1, <2>2, <2>3 DEF GitOK, Attributed
<1>5. CASE /\ HasOpen(e, "quiet")
           /\ f = SetAside(w, CloseOnOwnTerms(e.open, LastActivity(e)))
  <2> DEFINE turn == CloseOnOwnTerms(e.open, LastActivity(e))
  <2>1. /\ e.open # None /\ e.open \in OpenTurns
        /\ LastActivity(e) \in Nat
    BY <1>5, LastActivityType DEF HasOpen, Engines
  <2>2. turn \in ClosedTurns /\ Attributed(turn, N)
    BY <2>1, CloseOnOwnTermsType, CloseOnOwnTermsGit DEF GitOK
  <2> HIDE DEF turn
  <2>3. f.pending = Append(e.pending, turn) /\ f.open = None
    <3>1. f = SetAside(w, turn)
      BY <1>5 DEF turn
    <3> QED
      BY <1>1, <3>1 DEF SetAside, TakeOpen, Engines
  <2>4. e.pending \in Seq(ClosedTurns) /\ AllAttributed(e.pending, N)
    BY DEF Engines, GitOK
  <2> QED
    BY <2>2, <2>3, <2>4, AppendedGit DEF GitOK
<1> QED
  BY <1>2, <1>3, <1>4, <1>5

LEMMA ObserveStartGit ==
  ASSUME NEW e \in Engines, NEW t \in Nat, NEW tool \in Tools,
         NEW k \in EmitterTurns \cup {None}, NEW id \in Ids, NEW N,
         GitOK(e, N, t)
  PROVE  GitKept(e, N, t, ObserveStart(e, t, tool, k, id))
<1> DEFINE r == ObserveStart(e, t, tool, k, id)
<1>1. /\ r.closed = ClosedOpen(e, t)
      /\ r.eng.pending = e.pending /\ r.eng.gitUntil = e.gitUntil
      /\ r.eng.open.tool = tool /\ r.eng.open.openedAt = t
  BY DEF ObserveStart, Result, ClosedOpen, TakeOpen, OpenTurn, Engines
<1> SUFFICES GitKept(e, N, t, r)
  OBVIOUS
<1> HIDE DEF r
<1>2. tool # Git
  BY BoundsAssumption
<1> QED
  BY <1>1, <1>2, ClosedOpenGit DEF GitKept, GitOK, Attributed

LEMMA ObserveStopGit ==
  ASSUME NEW e \in Engines, NEW t \in Nat, NEW tool \in Tools, NEW id \in Ids,
         NEW N, GitOK(e, N, t)
  PROVE  GitKept(e, N, t, ObserveStop(e, t, tool, id))
<1> DEFINE ownBracket == HasOpen(e, "bracket") /\ e.open.tool = tool
           convertible == /\ HasOpen(e, "quiet")
                          /\ Monus(t, e.open.openedAt) <= FOLD_WINDOW_MS
<1>1. << >> \in Seq(ClosedTurns) /\ AllAttributed(<< >>, N) /\ tool # Git
  BY BoundsAssumption DEF AllAttributed
<1>2. e.open # None => e.open \in OpenTurns
  BY DEF Engines
<1>3. CASE ownBracket
  <2> DEFINE turn == Finish(e.open, t, "bracket", "rich", FALSE)
  <2>1. turn \in ClosedTurns /\ turn.tool = tool
    BY <1>2, <1>3, FinishType DEF Boundaries, HasOpen, Finish
  <2>2. ObserveStop(e, t, tool, id) = CloseOnStop(e, turn, << >>, t, FALSE)
    BY <1>3 DEF ObserveStop
  <2> HIDE DEF turn
  <2> QED
    BY <1>1, <2>1, <2>2, CloseOnStopGit
<1>4. CASE ~ownBracket /\ convertible
  <2> DEFINE fin == Finish(e.open, t, "stop-only", "rich", FALSE)
             turn == [fin EXCEPT !.tool = tool]
  <2>1. fin \in ClosedTurns
    BY <1>2, <1>4, FinishType DEF Boundaries, HasOpen
  <2>2. turn \in ClosedTurns /\ turn.tool = tool
    <3> HIDE DEF fin
    <3> QED
      BY <2>1 DEF ClosedTurns
  <2>3. ObserveStop(e, t, tool, id) = CloseOnStop(e, turn, << >>, t, FALSE)
    BY <1>4 DEF ObserveStop
  <2> HIDE DEF turn, fin
  <2> QED
    BY <1>1, <2>2, <2>3, CloseOnStopGit
<1>5. CASE ~ownBracket /\ ~convertible
  <2> DEFINE turn == Finish(OpenTurn("quiet", tool, t, id, None), t,
                            "stop-only", "rich", FALSE)
             before == ClosedOpen(e, t)
  <2>1. turn \in ClosedTurns /\ turn.tool = tool
    BY OpenTurnType, FinishType DEF Boundaries, Finish, OpenTurn
  <2>2. before \in Seq(ClosedTurns) /\ AllAttributed(before, N)
    BY ClosedOpenIds, ClosedOpenGit
  <2>3. ObserveStop(e, t, tool, id) = CloseOnStop(e, turn, before, t, TRUE)
    BY <1>5 DEF ObserveStop, ClosedOpen
  <2> HIDE DEF turn, before
  <2> QED
    BY <1>1, <2>1, <2>2, <2>3, CloseOnStopGit
<1> QED
  BY <1>3, <1>4, <1>5

LEMMA TickGit ==
  ASSUME NEW e \in Engines, NEW t \in Nat, NEW N, GitOK(e, N, t)
  PROVE  GitKept(e, N, t, Tick(e, t))
<1> DEFINE at == IF e.open.source = "bracket" THEN LastActivity(e) ELSE t
           turn == CloseOnOwnTerms(e.open, at)
           r == Tick(e, t)
           p == Prune(e, t)
<1>1. e.pending \in Seq(ClosedTurns) /\ AllAttributed(e.pending, N)
  BY DEF Engines, GitOK
<1>2. /\ p \in Engines /\ p.open = e.open /\ p.pending = << >>
      /\ p.gitUntil = e.gitUntil
  <2>1. StillRecent(e.recentBare, t) \in SUBSET ClosedTurns
    BY DEF StillRecent, Engines
  <2>2. << >> \in Seq(ClosedTurns)
    OBVIOUS
  <2> QED
    BY <2>1, <2>2 DEF Prune, Engines
<1>3. CASE e.open # None /\ Elapsed(e, t)
  <2>1. turn \in ClosedTurns /\ Attributed(turn, N)
    BY <1>3, LastActivityType, CloseOnOwnTermsType, CloseOnOwnTermsGit
       DEF Engines, GitOK
  <2> DEFINE bares == p.recentBare
                        \cup (IF turn.grade = "bare" THEN {turn} ELSE {})
  <2>2. r = Result([TakeOpen(p) EXCEPT !.recentBare = bares],
                   Append(e.pending, turn), FALSE)
    BY <1>3 DEF Tick
  <2> SUFFICES GitKept(e, N, t, r)
    OBVIOUS
  <2> HIDE DEF turn, bares, r, p
  <2>3. r.closed = Append(e.pending, turn)
        /\ r.eng = [TakeOpen(p) EXCEPT !.recentBare = bares]
    BY <2>2 DEF Result
  <2>4. /\ r.eng.open = None /\ r.eng.pending = << >>
        /\ r.eng.gitUntil = e.gitUntil
    BY <1>2, <2>3 DEF TakeOpen, Engines
  <2>5. AllAttributed(r.closed, N)
    BY <1>1, <2>1, <2>3, AppendedGit
  <2> QED
    BY <2>4, <2>5 DEF GitKept, GitOK, AllAttributed
<1>4. CASE ~(e.open # None /\ Elapsed(e, t))
  <2>1. r = Result(p, e.pending, FALSE)
    BY <1>4 DEF Tick
  <2> SUFFICES GitKept(e, N, t, r)
    OBVIOUS
  <2> HIDE DEF p, r
  <2>2. r.eng = p /\ r.closed = e.pending
    BY <2>1 DEF Result
  <2> QED
    BY <1>1, <1>2, <2>2 DEF GitKept, GitOK, AllAttributed
<1> QED
  BY <1>3, <1>4

LEMMA ForceCloseGit ==
  ASSUME NEW e \in Engines, NEW t \in Nat, NEW N, GitOK(e, N, t)
  PROVE  GitKept(e, N, t, ForceClose(e, t))
<1> DEFINE r == ForceClose(e, t)
<1>1. /\ r.closed = ClosedOpen(e, t)
      /\ r.eng.pending = e.pending /\ r.eng.open = None
      /\ r.eng.gitUntil = e.gitUntil
  BY DEF ForceClose, Result, ClosedOpen, TakeOpen, Engines
<1> SUFFICES GitKept(e, N, t, r)
  OBVIOUS
<1> HIDE DEF r
<1> QED
  BY <1>1, ClosedOpenGit DEF GitKept, GitOK

LEMMA ApplyGit ==
  ASSUME TypeOK, GitInv, NEW r, ResultOK(r), Apply(r),
         GitKept(eng, NearTransition, now, r), now' = now, gits' = gits
  PROVE  GitInv'
<1>1. eng' = r.eng /\ closed' = closed \o r.closed
  BY DEF Apply
<1>2. closed \in Seq(ClosedTurns) /\ r.closed \in Seq(ClosedTurns)
  BY DEF TypeOK, ResultOK
<1>3. \A i \in DOMAIN (closed \o r.closed) :
        \/ i \in DOMAIN closed /\ (closed \o r.closed)[i] = closed[i]
        \/ \E j \in DOMAIN r.closed : (closed \o r.closed)[i] = r.closed[j]
  BY <1>2
<1>4. AllAttributed(closed, NearTransition)
      /\ AllAttributed(r.closed, NearTransition)
  BY DEF GitInv, GitKept
<1>5. AllAttributed(closed \o r.closed, NearTransition)
  BY <1>3, <1>4 DEF AllAttributed
<1>6. NearTransition' = NearTransition
  BY DEF NearTransition
<1> QED
  BY <1>1, <1>5, <1>6 DEF GitInv, GitKept

(* A later look, with more transitions behind it, confirms an attribution. *)
LEMMA GitOKLater ==
  ASSUME NEW e \in Engines, NEW N, NEW M, N \subseteq M, NEW t \in Nat,
         NEW u \in Nat, t <= u, GitOK(e, N, t)
  PROVE  GitOK(e, M, u)
<1>1. e.open # None => e.open.openedAt \in Nat
  BY DEF Engines, OpenTurns
<1> QED
  BY <1>1 DEF GitOK, Attributed, AllAttributed

LEMMA InitGit == Init => GitInv
<1> SUFFICES ASSUME Init
             PROVE  GitInv
  OBVIOUS
<1>1. /\ eng.open = None /\ eng.gitUntil = 0 /\ eng.pending = << >>
      /\ closed = << >> /\ gits = {}
  BY DEF Init, NewEngine
<1> QED
  BY <1>1 DEF GitInv, GitOK, AllAttributed

LEMMA StepGit == TypeOK /\ GitInv /\ [Next]_vars => GitInv'
<1> SUFFICES ASSUME TypeOK, GitInv, [Next]_vars
             PROVE  GitInv'
  OBVIOUS
<1> USE BoundsAssumption
<1> DEFINE N == NearTransition
<1>e. /\ eng \in Engines /\ now \in Nat /\ GitOK(eng, N, now)
      /\ nextId <= MaxIds => nextId \in Ids
  BY DEF TypeOK, Times, GitInv, Ids
<1>1. ASSUME NEW P \in (SUBSET Paths) \ {{}}, NEW s \in [P -> Statuses],
             Changes(P, s)
      PROVE  GitInv'
  <2> DEFINE obs == [p \in P |-> Observation(stamp + 1, s[p])]
             r == ObserveChanges(eng, now, obs, nextId)
  <2>1. obs \in FileMaps
    <3>1. \A p \in P : Observation(stamp + 1, s[p]) \in FileRecords
      BY <1>1 DEF Changes, TypeOK, Observation, FileRecords
    <3>2. DOMAIN obs \subseteq Paths /\ obs \in [DOMAIN obs -> FileRecords]
      BY <3>1
    <3> HIDE DEF obs
    <3> QED
      BY <3>2, FileMapsAre
  <2>2. Apply(r) /\ nextId <= MaxIds /\ now' = now /\ gits' = gits
    BY <1>1 DEF Changes
  <2> HIDE DEF obs
  <2>3. InGitWindow(eng, now) => now \in N
    <3> SUFFICES ASSUME InGitWindow(eng, now)
                 PROVE  now \in N
      OBVIOUS
    <3>1. PICK g \in gits : eng.gitUntil = g + GIT_SETTLE_MS
      BY DEF GitInv, InGitWindow
    <3>2. g \in Nat /\ g <= now /\ now <= g + GIT_SETTLE_MS
      BY <1>e, <3>1 DEF GitInv, InGitWindow
    <3> QED
      BY <1>e, <3>1, <3>2, WindowsAssumption DEF NearTransition
  <2> HIDE DEF N
  <2>4. ResultOK(r) /\ GitKept(eng, N, now, r)
    BY <1>e, <2>1, <2>2, <2>3, ObserveChangesType, ObserveChangesGit
  <2> QED
    BY <2>2, <2>4, ApplyGit DEF N
<1>2. CASE GitChange
  <2>1. /\ eng' = ObserveGitChange(eng, now) /\ closed' = closed
        /\ now' = now /\ gits' = gits \cup {now}
    BY <1>2 DEF GitChange
  <2>2. N \subseteq N'
    BY <2>1 DEF NearTransition
  <2>3. GitOK(eng, N', now)
    BY <1>e, <2>2, GitOKLater
  <2>4. \A at \in Nat : at <= now /\ now <= at + GIT_SETTLE_MS + QUIET_MS
                          => at \in N'
    BY <1>e, <2>1, WindowsAssumption DEF NearTransition
  <2> HIDE DEF N
  <2>5. GitOK(eng', N', now')
    BY <1>e, <2>1, <2>3, <2>4, ObserveGitChangeGit
  <2>6. eng'.gitUntil = now + GIT_SETTLE_MS
    <3> DEFINE w == [eng EXCEPT !.gitUntil = now + GIT_SETTLE_MS]
    <3>1. w \in Engines /\ w.gitUntil = now + GIT_SETTLE_MS
      <4>1. now + GIT_SETTLE_MS \in Nat
        BY <1>e, WindowsAssumption
      <4> QED
        BY <1>e, <4>1 DEF Engines
    <3>2. \/ eng' = w
          \/ eng' = [w EXCEPT !.open.source = "git", !.open.tool = Git]
          \/ \E turn : eng' = SetAside(w, turn)
      BY <2>1 DEF ObserveGitChange
    <3> HIDE DEF w
    <3> QED
      BY <3>1, <3>2 DEF SetAside, TakeOpen, Engines
  <2>7. gits' \subseteq 0 .. now'
    BY <1>e, <2>1 DEF GitInv
  <2>8. AllAttributed(closed', N')
    BY <2>1, <2>2 DEF GitInv, AllAttributed, Attributed, N
  <2> QED
    BY <2>1, <2>5, <2>6, <2>7, <2>8 DEF GitInv, N
<1>3. ASSUME NEW tool \in Tools, NEW k \in EmitterTurns \cup {None},
             Start(tool, k)
      PROVE  GitInv'
  <2> DEFINE r == ObserveStart(eng, now, tool, k, nextId)
  <2>1. Apply(r) /\ nextId <= MaxIds /\ now' = now /\ gits' = gits
    BY <1>3 DEF Start
  <2>2. ResultOK(r) /\ GitKept(eng, N, now, r)
    BY <1>e, <2>1, ObserveStartType, ObserveStartGit
  <2> QED
    BY <2>1, <2>2, ApplyGit
<1>4. ASSUME NEW tool \in Tools, NEW k \in EmitterTurns \cup {None},
             Stop(tool, k)
      PROVE  GitInv'
  <2> DEFINE r == ObserveStop(eng, now, tool, nextId)
  <2>1. Apply(r) /\ nextId <= MaxIds /\ now' = now /\ gits' = gits
    BY <1>4 DEF Stop
  <2>2. ResultOK(r) /\ GitKept(eng, N, now, r)
    BY <1>e, <2>1, ObserveStopType, ObserveStopGit
  <2> QED
    BY <2>1, <2>2, ApplyGit
<1>5. CASE TickNow
  <2>1. ResultOK(Tick(eng, now)) /\ GitKept(eng, N, now, Tick(eng, now))
    BY <1>e, TickType, TickGit
  <2> QED
    BY <1>5, <2>1, ApplyGit DEF TickNow
<1>6. CASE Shutdown
  <2>1. /\ ResultOK(ForceClose(eng, now))
        /\ GitKept(eng, N, now, ForceClose(eng, now))
    BY <1>e, ForceCloseType, ForceCloseGit
  <2> QED
    BY <1>6, <2>1, ApplyGit DEF Shutdown
<1>7. CASE Advance
  <2>1. /\ now' = now + 1 /\ eng' = eng /\ closed' = closed /\ gits' = gits
    BY <1>7 DEF Advance
  <2>2. N' = N
    BY <2>1 DEF NearTransition
  <2>3. GitOK(eng, N, now + 1)
    BY <1>e, GitOKLater
  <2>4. gits' \subseteq 0 .. now'
    BY <1>e, <2>1 DEF GitInv
  <2> QED
    BY <2>1, <2>2, <2>3, <2>4 DEF GitInv
<1>8. CASE UNCHANGED vars
  BY <1>8 DEF vars, GitInv, NearTransition
<1> QED
  BY <1>1, <1>2, <1>3, <1>4, <1>5, <1>6, <1>7, <1>8 DEF Next

(* C2: no turn, returned or still to be returned, is attributed to git     *)
(* unless a ref transition happened within the settle window before it     *)
(* opened or soon enough after -- whatever the windows are, and whichever  *)
(* signals and bursts come in between.                                     *)
THEOREM GitAttribution == Spec => []GitNearTransition
<1>1. Init => TypeOK /\ GitInv
  BY InitTypeOK, InitGit
<1>2. (TypeOK /\ GitInv) /\ [Next]_vars => (TypeOK /\ GitInv)'
  BY StepTypeOK, StepGit
<1>3. TypeOK /\ GitInv => GitNearTransition
  <2> SUFFICES ASSUME GitInv, NEW t \in AllClosed, t.tool = Git
               PROVE  \E g \in gits :
                        /\ g <= t.openedAt + GIT_SETTLE_MS + QUIET_MS
                        /\ t.openedAt <= g + GIT_SETTLE_MS
    BY DEF GitNearTransition
  <2>1. \/ \E i \in DOMAIN closed : t = closed[i]
        \/ \E i \in DOMAIN eng.pending : t = eng.pending[i]
    BY DEF AllClosed, Returned, Range
  <2>2. t.openedAt \in NearTransition
    BY <2>1 DEF GitInv, GitOK, AllAttributed, Attributed
  <2> QED
    BY <2>2 DEF NearTransition
<1> QED
  BY <1>1, <1>2, <1>3, PTL DEF Spec

-----------------------------------------------------------------------------
(* What was observed is accounted for.  `Account` says of an open turn,    *)
(* the fold candidates and the closed turns, of whatever engine, that they *)
(* match what was observed.  A method of the engine is a few moves -- a    *)
(* turn opens, is observed under, becomes a git turn, closes on its own    *)
(* terms or on a stop -- and one lemma per move shows that the account     *)
(* still stands after it.                                                  *)

(* L stands for the observations, S for the starts, t for the time, n for  *)
(* the next id; o is the open turn, B the fold candidates, C what closed.  *)

Under(L, ids, p) == {l \in L : l.turn \in ids /\ l.path = p}

FirstStamp(obs, k) == (\E l \in obs : l.stamp = k) /\ \A l \in obs : k <= l.stamp
LastStatus(obs, x) ==
  \E l \in obs : l.status = x /\ \A m \in obs : m.stamp <= l.stamp

(* The files of a turn that folded nothing are what was observed under it. *)
Own(files, id, L) ==
  /\ \A l \in L : l.turn = id => l.path \in DOMAIN files
  /\ \A p \in DOMAIN files :
       /\ FirstStamp(Under(L, {id}, p), files[p].before)
       /\ LastStatus(Under(L, {id}, p), files[p].status)

(* Turns are observed under in the order of their ids.                     *)
LogOK(L, n) ==
  /\ \A l \in L : l.turn \in Nat /\ l.turn < n /\ l.stamp \in Nat /\ l.at \in Nat
  /\ \A l, m \in L : l.turn < m.turn => l.stamp < m.stamp
  /\ \A l, m \in L : l.stamp = m.stamp /\ l.path = m.path => l = m

StartsOK(S, n) == \A s \in S : s.id \in Nat /\ s.id < n /\ s.at \in Nat

OpenAccount(o, B, C, n, L, S, t) ==
  /\ o \in OpenTurns /\ o.id < n /\ o.openedAt <= t
  /\ Own(o.files, o.id, L)
  /\ \A l \in L : l.turn <= o.id /\ (l.turn = o.id => o.openedAt <= l.at)
  /\ \A b \in B : b.id < o.id /\ b.openedAt < o.openedAt
  /\ \A c \in C : o.id \notin Family(c)
  /\ o.source = "bracket" => \A s \in S : s.id = o.id => s.at = o.openedAt

BareAccount(b, L, t) ==
  /\ b.merges = {} /\ b.openedAt < t
  /\ Own(b.files, b.id, L)
  /\ \A l \in L : l.turn = b.id => b.openedAt <= l.at

Fair(c, C, L, S) ==
  /\ c.boundary = "stop-only" =>
       \A l \in L : l.turn \in Family(c) => l.at >= Monus(c.closedAt, FOLD_WINDOW_MS)
  /\ c.boundary = "bracket" =>
       \A s \in S : s.id = c.id =>
         /\ \A l \in L : l.turn = c.id => l.at >= s.at
         /\ \A b \in C : b.id \in c.merges => b.closedAt >= s.at

ClosedAccount(c, C, n, L, S) ==
  /\ \A i \in Family(c) : i < n
  /\ \A l \in L : l.turn = c.id => l.path \in DOMAIN c.files
  /\ \A p \in DOMAIN c.files :
       /\ FirstStamp(Under(L, Family(c), p), c.files[p].before)
       /\ c.merges = {} => LastStatus(Under(L, Family(c), p), c.files[p].status)
  /\ Fair(c, C, L, S)

Account(o, B, C, n, L, S, t) ==
  /\ C \subseteq ClosedTurns /\ B \subseteq C /\ n \in Nat /\ t \in Nat
  /\ LogOK(L, n) /\ StartsOK(S, n)
  /\ o # None => OpenAccount(o, B, C, n, L, S, t)
  /\ \A b \in B : BareAccount(b, L, t)
  /\ \A b, c \in B : b.id < c.id => b.openedAt < c.openedAt
  /\ \A b, c \in C : b.id = c.id => b = c
  /\ \A c \in C : ClosedAccount(c, C, n, L, S)
  /\ \A l \in L : (o # None /\ o.id = l.turn) \/ \E c \in C : c.id = l.turn

(* The account of an engine and of the turns R that it has returned.       *)
EngineAccount(e, R, n, L, S, t) ==
  /\ Account(e.open, e.recentBare, R \cup Range(e.pending), n, L, S, t)
  /\ e.open # None /\ e.lastChange # None => e.open.openedAt <= e.lastChange

AccountInv ==
  /\ EngineAccount(eng, Returned, nextId, log, starts, now)
  /\ \A l \in log : l.stamp <= stamp

-----------------------------------------------------------------------------
(* The moves. *)

(* Fold candidates are forgotten. *)
LEMMA Fewer ==
  ASSUME NEW o, NEW B, NEW C, NEW n, NEW L, NEW S, NEW t,
         Account(o, B, C, n, L, S, t), NEW A \in SUBSET B
  PROVE  Account(o, A, C, n, L, S, t)
  BY DEF Account, OpenAccount

(* Time passes. *)
LEMMA TimePasses ==
  ASSUME NEW o, NEW B, NEW C, NEW n, NEW L, NEW S, NEW t,
         Account(o, B, C, n, L, S, t)
  PROVE  Account(o, B, C, n, L, S, t + 1)
<1>1. t \in Nat /\ B \subseteq ClosedTurns
  BY DEF Account
<1>2. o # None => OpenAccount(o, B, C, n, L, S, t + 1)
  <2>1. CASE o # None
    <3>1. OpenAccount(o, B, C, n, L, S, t) /\ o.openedAt \in Nat
      BY <2>1 DEF Account, OpenAccount, OpenTurns
    <3> QED
      BY <1>1, <3>1 DEF OpenAccount
  <2> QED
    BY <2>1
<1>3. \A b \in B : BareAccount(b, L, t + 1)
  <2> TAKE b \in B
  <2>1. BareAccount(b, L, t) /\ b.openedAt \in Nat
    BY <1>1 DEF Account, ClosedTurns
  <2> QED
    BY <1>1, <2>1 DEF BareAccount
<1> QED
  BY <1>1, <1>2, <1>3 DEF Account

(* The open turn becomes a turn of git. *)
LEMMA Converts ==
  ASSUME NEW o, NEW B, NEW C, NEW n, NEW L, NEW S, NEW t,
         Account(o, B, C, n, L, S, t), o # None
  PROVE  Account([o EXCEPT !.source = "git", !.tool = Git], B, C, n, L, S, t)
<1> DEFINE g == [o EXCEPT !.source = "git", !.tool = Git]
<1>1. o \in OpenTurns /\ OpenAccount(o, B, C, n, L, S, t)
  BY DEF Account, OpenAccount
<1>2. /\ g \in OpenTurns /\ g.id = o.id /\ g.openedAt = o.openedAt
      /\ g.files = o.files /\ g.source = "git"
  BY <1>1 DEF OpenTurns
<1> HIDE DEF g
<1>3. OpenAccount(g, B, C, n, L, S, t)
  BY <1>1, <1>2 DEF OpenAccount
<1>4. Account(g, B, C, n, L, S, t)
  BY <1>2, <1>3, NoneAssumption DEF Account
<1> QED
  BY <1>4 DEF g

(* A turn opens under the next id. *)
LEMMA Opens ==
  ASSUME NEW B, NEW C, NEW n \in Ids, NEW L, NEW S, NEW t,
         Account(None, B, C, n, L, S, t),
         NEW o \in OpenTurns, o.id = n, o.openedAt = t, o.files = << >>,
         NEW S2, S2 \in {S, S \cup {[id |-> n, at |-> t]}},
         o.source = "bracket" => S2 = S \cup {[id |-> n, at |-> t]}
  PROVE  Account(o, B, C, n + 1, L, S2, t)
<1>1. /\ n \in Nat /\ t \in Nat /\ C \subseteq ClosedTurns /\ B \subseteq C
      /\ LogOK(L, n) /\ StartsOK(S, n)
  BY DEF Account
<1>2. \A c \in C : ClosedAccount(c, C, n, L, S)
  BY DEF Account
<1>3. \A s \in S2 : s \in S \/ (s.id = n /\ s.at = t)
  OBVIOUS
<1>4. \A c \in C : /\ c.id \in Family(c) /\ n \notin Family(c)
                   /\ c.id \in Nat /\ c.id < n
  <2> TAKE c \in C
  <2>1. c.id \in Family(c) /\ \A i \in Family(c) : i < n
    BY <1>2 DEF ClosedAccount, Family
  <2> QED
    BY <1>1, <2>1 DEF ClosedTurns, Ids
<1>5. \A l \in L : l.turn \in Nat /\ l.turn < n
  BY <1>1 DEF LogOK
<1>6. LogOK(L, n + 1)
  BY <1>1 DEF LogOK
<1>7. StartsOK(S2, n + 1)
  BY <1>1, <1>3 DEF StartsOK
<1>8. o # None => OpenAccount(o, B, C, n + 1, L, S2, t)
  <2>1. Own(o.files, o.id, L)
    BY <1>1, <1>5 DEF Own
  <2>2. \A l \in L : l.turn <= o.id /\ (l.turn = o.id => o.openedAt <= l.at)
    BY <1>1, <1>5
  <2>3. \A b \in B : b.id < o.id /\ b.openedAt < o.openedAt
    BY <1>1, <1>4 DEF Account, BareAccount
  <2>4. o.source = "bracket" => \A s \in S2 : s.id = o.id => s.at = o.openedAt
    BY <1>1, <1>3 DEF StartsOK
  <2> QED
    BY <1>1, <1>4, <2>1, <2>2, <2>3, <2>4 DEF OpenAccount
<1>9. \A c \in C : ClosedAccount(c, C, n + 1, L, S2)
  <2> TAKE c \in C
  <2>1. ClosedAccount(c, C, n, L, S)
    BY <1>2
  <2>2. \A i \in Family(c) : i \in Nat /\ i < n
    BY <1>1, <2>1 DEF ClosedAccount, Family, ClosedTurns, Ids
  <2>3. Fair(c, C, L, S2)
    <3>1. \A s \in S2 : s.id = c.id => s \in S
      BY <1>1, <1>3, <1>4
    <3> QED
      BY <2>1, <3>1 DEF ClosedAccount, Fair
  <2> QED
    BY <1>1, <2>1, <2>2, <2>3 DEF ClosedAccount
<1>10. \A l \in L : \E c \in C : c.id = l.turn
  BY DEF Account
<1> QED
  BY <1>1, <1>6, <1>7, <1>8, <1>9, <1>10 DEF Account

(* The record of a turn that closes. *)
LEMMA FinishIs ==
  ASSUME NEW o \in OpenTurns, NEW at \in Nat, NEW boundary, NEW grade,
         NEW truncated \in BOOLEAN
  PROVE  LET c == Finish(o, at, boundary, grade, truncated)
         IN /\ c.id = o.id /\ c.openedAt = o.openedAt /\ c.files = o.files
            /\ c.merges = {} /\ c.boundary = boundary /\ c.grade = grade
            /\ c.closedAt = Later(at, o.openedAt)
  BY DEF Finish, OpenTurns

(* What a turn that did not close on a stop looks like. *)
Plain(c, o) ==
  /\ c \in ClosedTurns
  /\ c.id = o.id /\ c.openedAt = o.openedAt /\ c.files = o.files
  /\ c.merges = {} /\ c.boundary \notin {"bracket", "stop-only"}
  /\ c.grade = "bare" <=> o.source = "quiet"

LEMMA CloseOnOwnTermsPlain ==
  ASSUME NEW o \in OpenTurns, NEW at \in Nat
  PROVE  Plain(CloseOnOwnTerms(o, at), o)
<1> DEFINE c == CloseOnOwnTerms(o, at)
<1>1. c \in ClosedTurns
  BY CloseOnOwnTermsType
<1>2. PICK boundary \in {"quiet", "git", "timeout"}, grade \in {"bare", "rich"},
           truncated \in BOOLEAN :
        /\ c = Finish(o, at, boundary, grade, truncated)
        /\ grade = "bare" <=> o.source = "quiet"
  <2>1. CASE o.source = "quiet"
    BY <2>1 DEF CloseOnOwnTerms
  <2>2. CASE o.source = "git"
    BY <2>2 DEF CloseOnOwnTerms
  <2>3. CASE o.source = "bracket"
    BY <2>3 DEF CloseOnOwnTerms
  <2> QED
    BY <2>1, <2>2, <2>3 DEF OpenTurns
<1> HIDE DEF c
<1>3. /\ c.id = o.id /\ c.openedAt = o.openedAt /\ c.files = o.files
      /\ c.merges = {} /\ c.boundary = boundary /\ c.grade = grade
  BY <1>2, FinishIs
<1>4. Plain(c, o)
  BY <1>1, <1>2, <1>3 DEF Plain
<1> QED
  BY <1>4 DEF c

(* A closed turn whose family the new turn c1 is not in is judged as before. *)
LEMMA StillClosed ==
  ASSUME NEW c, NEW C, NEW n, NEW L, NEW S, ClosedAccount(c, C, n, L, S),
         NEW c1, c1.id \notin Family(c)
  PROVE  ClosedAccount(c, C \cup {c1}, n, L, S)
<1>1. \A b \in C \cup {c1} : b.id \in c.merges => b \in C
  BY DEF Family
<1>2. Fair(c, C \cup {c1}, L, S)
  BY <1>1 DEF ClosedAccount, Fair
<1> QED
  BY <1>2 DEF ClosedAccount

(* The open turn closes, other than on a stop: A is what becomes of the    *)
(* fold candidates.                                                        *)
LEMMA ClosesOwn ==
  ASSUME NEW o, NEW B, NEW C, NEW n, NEW L, NEW S, NEW t,
         Account(o, B, C, n, L, S, t), o # None,
         NEW c1, Plain(c1, o),
         NEW A, A \subseteq B \cup (IF o.openedAt < t THEN {c1} ELSE {})
  PROVE  Account(None, A, C \cup {c1}, n, L, S, t)
<1>1. /\ n \in Nat /\ t \in Nat /\ C \subseteq ClosedTurns /\ B \subseteq C
      /\ LogOK(L, n) /\ StartsOK(S, n) /\ OpenAccount(o, B, C, n, L, S, t)
  BY DEF Account
<1>2. /\ o \in OpenTurns /\ o.id \in Nat /\ o.openedAt \in Nat /\ o.id < n
      /\ \A c \in C : o.id \notin Family(c)
      /\ \A b \in B : b.id < o.id /\ b.openedAt < o.openedAt
      /\ Own(o.files, o.id, L)
      /\ \A l \in L : l.turn = o.id => o.openedAt <= l.at
  BY <1>1 DEF OpenAccount, OpenTurns, Ids
<1>3. c1 \in ClosedTurns /\ c1.id = o.id /\ c1.openedAt = o.openedAt
      /\ c1.files = o.files /\ c1.merges = {}
      /\ c1.boundary \notin {"bracket", "stop-only"}
  BY DEF Plain
<1>4. \A c \in C : c.id # o.id
  BY <1>2 DEF Family
<1>5. A \subseteq C \cup {c1}
  BY <1>1
<1>6. \A b \in A : BareAccount(b, L, t)
  <2> TAKE b \in A
  <2>1. CASE b \in B
    BY <2>1 DEF Account
  <2>2. CASE b = c1 /\ o.openedAt < t
    BY <1>2, <1>3, <2>2 DEF BareAccount
  <2> QED
    BY <2>1, <2>2
<1>7. \A b, c \in A : b.id < c.id => b.openedAt < c.openedAt
  <2> SUFFICES ASSUME NEW b \in A, NEW c \in A, b.id < c.id
               PROVE  b.openedAt < c.openedAt
    OBVIOUS
  <2>1. (b \in B \/ b = c1) /\ (c \in B \/ c = c1)
    OBVIOUS
  <2>2. CASE b \in B /\ c \in B
    BY <2>2 DEF Account
  <2>3. CASE b \in B /\ c = c1
    BY <1>2, <1>3, <2>3
  <2>4. CASE b = c1 /\ c \in B
    <3>1. c.id < o.id /\ c.id \in Nat
      BY <1>1, <1>2, <2>4 DEF ClosedTurns, Ids
    <3> QED
      BY <1>2, <1>3, <2>4, <3>1
  <2>5. CASE b = c1 /\ c = c1
    BY <1>2, <1>3, <2>5
  <2> QED
    BY <2>1, <2>2, <2>3, <2>4, <2>5
<1>8. \A b, c \in C \cup {c1} : b.id = c.id => b = c
  BY <1>3, <1>4 DEF Account
<1>9. ClosedAccount(c1, C \cup {c1}, n, L, S)
  <2>1. Family(c1) = {o.id}
    BY <1>3 DEF Family
  <2>2. Fair(c1, C \cup {c1}, L, S)
    BY <1>3 DEF Fair
  <2> QED
    BY <1>2, <1>3, <2>1, <2>2 DEF ClosedAccount, Own
<1>10. \A c \in C : ClosedAccount(c, C \cup {c1}, n, L, S)
  <2> TAKE c \in C
  <2>1. ClosedAccount(c, C, n, L, S) /\ c1.id \notin Family(c)
    BY <1>2, <1>3 DEF Account
  <2> QED
    BY <2>1, StillClosed
<1>11. \A l \in L : \E c \in C \cup {c1} : c.id = l.turn
  BY <1>3 DEF Account
<1> QED
  BY <1>1, <1>3, <1>5, <1>6, <1>7, <1>8, <1>9, <1>10, <1>11 DEF Account

(* The open turn is observed under: `seen` is what a batch at time t adds  *)
(* to the observations.                                                    *)
LEMMA Observes ==
  ASSUME NEW o, NEW B, NEW C, NEW n, NEW L, NEW S, NEW t,
         Account(o, B, C, n, L, S, t), o # None,
         NEW k \in Nat, \A l \in L : l.stamp < k,
         NEW obs, NEW seen,
         \A l \in seen : /\ l.turn = o.id /\ l.stamp = k /\ l.at = t
                         /\ l.path \in DOMAIN obs
                         /\ l.status = obs[l.path].status,
         \A p \in DOMAIN obs : /\ obs[p].before = k
                               /\ \E l \in seen : l.path = p,
         \A l, m \in seen : l.path = m.path => l = m,
         NEW files \in FileMaps, DOMAIN files = DOMAIN o.files \cup DOMAIN obs,
         \A p \in DOMAIN files :
           /\ files[p].before = IF p \in DOMAIN o.files THEN o.files[p].before
                                ELSE obs[p].before
           /\ files[p].status = IF p \in DOMAIN obs THEN obs[p].status
                                ELSE o.files[p].status
  PROVE  Account([o EXCEPT !.files = files], B, C, n, L \cup seen, S, t)
<1> DEFINE o2 == [o EXCEPT !.files = files]
           M == L \cup seen
<1>1. /\ n \in Nat /\ t \in Nat /\ C \subseteq ClosedTurns /\ B \subseteq C
      /\ LogOK(L, n) /\ OpenAccount(o, B, C, n, L, S, t)
  BY DEF Account
<1>2. /\ o \in OpenTurns /\ o.id \in Nat /\ o.openedAt \in Nat /\ o.id < n
      /\ o.openedAt <= t
      /\ \A c \in C : o.id \notin Family(c)
      /\ Own(o.files, o.id, L)
      /\ \A l \in L : l.turn <= o.id /\ (l.turn = o.id => o.openedAt <= l.at)
  BY <1>1 DEF OpenAccount, OpenTurns, Ids
<1>3. /\ o2 \in OpenTurns /\ o2.id = o.id /\ o2.openedAt = o.openedAt
      /\ o2.files = files /\ o2.source = o.source
  BY <1>2 DEF OpenTurns
<1> HIDE DEF o2
<1>4. LogOK(M, n)
  <2>1. \A l \in M : l.turn \in Nat /\ l.turn < n /\ l.stamp \in Nat /\ l.at \in Nat
    BY <1>1, <1>2 DEF LogOK
  <2>2. \A l, m \in M : l.turn < m.turn => l.stamp < m.stamp
    <3> SUFFICES ASSUME NEW l \in M, NEW m \in M, l.turn < m.turn
                 PROVE  l.stamp < m.stamp
      OBVIOUS
    <3>1. CASE l \in L /\ m \in L
      BY <1>1, <3>1 DEF LogOK
    <3>2. CASE l \in L /\ m \in seen
      BY <3>2
    <3>3. CASE l \in seen
      BY <1>1, <1>2, <2>1, <3>3
    <3> QED
      BY <3>1, <3>2, <3>3
  <2>3. \A l, m \in M : l.stamp = m.stamp /\ l.path = m.path => l = m
    <3> SUFFICES ASSUME NEW l \in M, NEW m \in M, l.stamp = m.stamp,
                        l.path = m.path
                 PROVE  l = m
      OBVIOUS
    <3>1. CASE l \in L /\ m \in L
      BY <1>1, <3>1 DEF LogOK
    <3>2. CASE l \in seen /\ m \in seen
      BY <3>2
    <3>3. CASE (l \in L /\ m \in seen) \/ (l \in seen /\ m \in L)
      BY <2>1, <3>3
    <3> QED
      BY <3>1, <3>2, <3>3
  <2> QED
    BY <2>1, <2>2, <2>3 DEF LogOK
<1>5. \A ids, p : o.id \notin ids => Under(M, ids, p) = Under(L, ids, p)
  BY DEF Under
<1>6. Own(files, o.id, M)
  <2>1. \A l \in M : l.turn = o.id => l.path \in DOMAIN files
    BY <1>2 DEF Own
  <2>2. ASSUME NEW p \in DOMAIN files
        PROVE  /\ FirstStamp(Under(M, {o.id}, p), files[p].before)
               /\ LastStatus(Under(M, {o.id}, p), files[p].status)
    <3> DEFINE U == Under(L, {o.id}, p)
               V == Under(M, {o.id}, p)
    <3>1. V = U \cup {l \in seen : l.path = p}
      BY DEF Under
    <3>2. \A l \in U : l.stamp \in Nat /\ l.stamp < k
      BY <1>1 DEF Under, LogOK
    <3>3. CASE p \in DOMAIN o.files
      <4>1. FirstStamp(U, files[p].before)
            /\ LastStatus(U, o.files[p].status)
        BY <1>2, <3>3 DEF Own
      <4> HIDE DEF U, V
      <4>2. FirstStamp(V, files[p].before)
        <5>1. PICK l \in U : l.stamp = files[p].before
          BY <4>1 DEF FirstStamp
        <5> QED
          BY <3>1, <3>2, <4>1, <5>1 DEF FirstStamp
      <4>3. LastStatus(V, files[p].status)
        <5>1. CASE p \in DOMAIN obs
          <6>1. PICK l \in seen : l.path = p
            BY <5>1
          <6>2. l \in V /\ l.stamp = k /\ l.status = files[p].status
            BY <3>1, <5>1, <6>1
          <6> QED
            BY <3>1, <3>2, <6>2 DEF LastStatus
        <5>2. CASE p \notin DOMAIN obs
          <6>1. V = U
            BY <3>1, <5>2
          <6>2. files[p].status = o.files[p].status
            BY <5>2
          <6> QED
            BY <4>1, <6>1, <6>2
        <5> QED
          BY <5>1, <5>2
      <4> QED
        BY <4>2, <4>3 DEF V
    <3>4. CASE p \notin DOMAIN o.files
      <4>1. U = {}
        BY <1>2, <3>4 DEF Under, Own
      <4>2. p \in DOMAIN obs
        BY <3>4
      <4>3. PICK l \in seen : l.path = p
        BY <4>2
      <4> HIDE DEF U, V
      <4>4. V = {l}
        BY <3>1, <4>1, <4>3
      <4>5. /\ l.stamp = k /\ files[p].before = k
            /\ l.status = files[p].status
        BY <3>4, <4>2, <4>3
      <4>6. FirstStamp(V, files[p].before) /\ LastStatus(V, files[p].status)
        BY <4>4, <4>5 DEF FirstStamp, LastStatus
      <4> QED
        BY <4>6 DEF V
    <3> QED
      BY <3>3, <3>4
  <2> HIDE DEF M
  <2> QED
    BY <2>1, <2>2 DEF Own
<1>7. OpenAccount(o2, B, C, n, M, S, t)
  <2>1. \A l \in M : l.turn <= o.id /\ (l.turn = o.id => o.openedAt <= l.at)
    BY <1>2
  <2> HIDE DEF M
  <2> QED
    BY <1>1, <1>2, <1>3, <1>6, <2>1 DEF OpenAccount
<1>8. \A c \in C : ClosedAccount(c, C, n, M, S)
  <2> TAKE c \in C
  <2>1. ClosedAccount(c, C, n, L, S) /\ o.id \notin Family(c)
    BY <1>2 DEF Account
  <2>2. \A p : Under(M, Family(c), p) = Under(L, Family(c), p)
    BY <1>5, <2>1
  <2>3. \A l \in M : l.turn \in Family(c) => l \in L
    BY <2>1
  <2> HIDE DEF M
  <2>4. c.id \in Family(c)
    BY DEF Family
  <2>5. Fair(c, C, M, S)
    BY <2>1, <2>3, <2>4 DEF ClosedAccount, Fair
  <2> QED
    BY <2>1, <2>2, <2>3, <2>4, <2>5 DEF ClosedAccount
<1>9. \A b \in B : BareAccount(b, M, t)
  <2> TAKE b \in B
  <2>1. BareAccount(b, L, t) /\ b.id # o.id
    BY <1>1, <1>2 DEF Account, Family
  <2>2. \A p : Under(M, {b.id}, p) = Under(L, {b.id}, p)
    <3>1. o.id \notin {b.id}
      BY <2>1
    <3> HIDE DEF M
    <3> QED
      BY <1>5, <3>1
  <2>3. \A l \in M : l.turn = b.id => l \in L
    BY <2>1
  <2> HIDE DEF M
  <2> QED
    BY <2>1, <2>2, <2>3 DEF BareAccount, Own
<1>10. \A l \in M : (o2 # None /\ o2.id = l.turn) \/ \E c \in C : c.id = l.turn
  BY <1>3, NoneAssumption DEF Account
<1>11. Account(o2, B, C, n, M, S, t)
  <2> HIDE DEF M
  <2> QED
    BY <1>1, <1>4, <1>7, <1>8, <1>9, <1>10 DEF Account
<1> QED
  BY <1>11 DEF o2

(* What an openedAt, a closedAt and an id are. *)
LEMMA ClosedNumbers ==
  ASSUME NEW c \in ClosedTurns
  PROVE  c.id \in Nat /\ c.openedAt \in Nat /\ c.closedAt \in Nat
  BY DEF ClosedTurns, Ids

(* A path that fragments touched has the `before` of the oldest of them,   *)
(* which is what the family first observed: ids, opening times and stamps  *)
(* are ordered alike.                                                      *)
LEMMA FoldedTold ==
  ASSUME NEW o \in OpenTurns, NEW B, NEW C, NEW n, NEW L, NEW S, NEW t,
         Account(o, B, C, n, L, S, t), o # None,
         NEW turn \in ClosedTurns, turn.files = o.files,
         NEW frags \in SUBSET B,
         NEW p \in DOMAIN FoldedFiles(turn, frags)
  PROVE  FirstStamp(Under(L, {o.id} \cup {b.id : b \in frags}, p),
                    FoldedFiles(turn, frags)[p].before)
<1> DEFINE ids == {o.id} \cup {b.id : b \in frags}
           touched == UNION {DOMAIN b.files : b \in frags}
           U == Under(L, ids, p)
           F == FoldedFiles(turn, frags)
<1>1. /\ LogOK(L, n) /\ OpenAccount(o, B, C, n, L, S, t) /\ B \subseteq ClosedTurns
      /\ \A b \in B : BareAccount(b, L, t)
      /\ \A b, c \in B : b.id < c.id => b.openedAt < c.openedAt
  BY DEF Account
<1>2. /\ Own(o.files, o.id, L) /\ o.id \in Nat
      /\ \A b \in B : b.id < o.id /\ b.id \in Nat /\ b.openedAt \in Nat
                      /\ Own(b.files, b.id, L)
  BY <1>1 DEF OpenAccount, BareAccount, OpenTurns, ClosedTurns, Ids
<1>3. \A l \in L : l.stamp \in Nat
  BY <1>1 DEF LogOK
<1>4. CASE p \notin touched
  <2>1. F[p] = turn.files[p] /\ p \in DOMAIN o.files
    BY <1>4 DEF FoldedFiles
  <2>2. U = Under(L, {o.id}, p)
    <3>1. ASSUME NEW l \in L, NEW b \in frags, l.turn = b.id, l.path = p
          PROVE  FALSE
      <4>1. l.path \in DOMAIN b.files
        BY <1>2, <3>1 DEF Own
      <4> QED
        BY <1>4, <3>1, <4>1
    <3> QED
      BY <3>1 DEF Under
  <2> HIDE DEF U, F, ids, touched
  <2>3. FirstStamp(U, F[p].before)
    BY <1>2, <2>1, <2>2 DEF Own
  <2> QED
    BY <2>3 DEF U, F, ids
<1>5. CASE p \in touched
  <2> DEFINE q == OldestFragment(frags, p)
  <2>1. frags \in SUBSET ClosedTurns /\ \E b \in frags : p \in DOMAIN b.files
    BY <1>1, <1>5
  <2>2. /\ q \in frags /\ p \in DOMAIN q.files
        /\ \A c \in frags : p \in DOMAIN c.files => q.openedAt <= c.openedAt
    BY <2>1, OldestFragmentIsOne
  <2>3. F[p].before = q.files[p].before
    <3>1. CASE p \notin DOMAIN turn.files
      BY <1>5, <3>1 DEF FoldedFiles
    <3>2. CASE p \in DOMAIN turn.files
      <4>1. F[p] = [turn.files[p] EXCEPT !.before = q.files[p].before]
        BY <1>5, <3>2 DEF FoldedFiles
      <4>2. turn.files[p] \in FileRecords
        BY <3>2, FileMapsHave DEF ClosedTurns
      <4> HIDE DEF F, q
      <4> QED
        BY <4>1, <4>2 DEF FileRecords
    <3> QED
      BY <3>1, <3>2
  <2> HIDE DEF q, F, touched
  <2>4. FirstStamp(Under(L, {q.id}, p), q.files[p].before)
    BY <1>2, <2>2 DEF Own
  <2>5. PICK f \in L : f.turn = q.id /\ f.path = p /\ f.stamp = q.files[p].before
    BY <2>4 DEF FirstStamp, Under
  <2>6. f \in U
    BY <2>2, <2>5 DEF Under
  <2>7. ASSUME NEW l \in U
        PROVE  f.stamp <= l.stamp
    <3>1. l \in L /\ l.path = p /\ l.turn \in ids
      BY DEF Under
    <3>2. CASE l.turn = q.id
      BY <2>4, <2>5, <3>1, <3>2 DEF Under, FirstStamp
    <3>3. CASE q.id < l.turn
      BY <1>1, <1>3, <2>5, <3>1, <3>3 DEF LogOK
    <3>4. q.id = l.turn \/ q.id < l.turn
      <4>1. CASE l.turn = o.id
        BY <1>2, <2>2, <4>1
      <4>2. ASSUME NEW b \in frags, l.turn = b.id
            PROVE  q.id <= b.id
        <5>1. p \in DOMAIN b.files
          BY <1>2, <3>1, <4>2 DEF Own
        <5>2. q.openedAt <= b.openedAt
          BY <2>2, <5>1
        <5>3. b.id < q.id => b.openedAt < q.openedAt
          BY <1>1, <2>2
        <5> QED
          BY <1>2, <2>2, <5>2, <5>3
      <4> QED
        BY <1>2, <2>2, <3>1, <4>1, <4>2
    <3> QED
      BY <3>2, <3>3, <3>4
  <2> HIDE DEF U, ids
  <2>8. FirstStamp(U, F[p].before)
    BY <2>3, <2>5, <2>6, <2>7 DEF FirstStamp
  <2> QED
    BY <2>8 DEF U, F, ids
<1> QED
  BY <1>4, <1>5

(* The open turn closes on a stop at t: `turn` is its record, and what is  *)
(* eligible of the fold candidates is folded into it.                      *)
LEMMA ClosesOnStop ==
  ASSUME NEW o, NEW B, NEW C, NEW n, NEW L, NEW S, NEW t,
         Account(o, B, C, n, L, S, t), o # None, NEW lastRich,
         NEW turn \in ClosedTurns, turn.id = o.id, turn.files = o.files,
         turn.openedAt = o.openedAt, turn.closedAt = t, turn.merges = {},
         \/ turn.boundary = "bracket" /\ o.source = "bracket"
         \/ turn.boundary = "stop-only" /\ Monus(t, o.openedAt) <= FOLD_WINDOW_MS
  PROVE  Account(None, {}, C \cup {FoldRecentBares(turn, B, lastRich)}, n, L, S, t)
<1> DEFINE frags == {b \in B : Eligible(turn, b, lastRich)}
           ids == {b.id : b \in frags}
           F == FoldedFiles(turn, frags)
           c1 == FoldRecentBares(turn, B, lastRich)
           D == C \cup {c1}
<1>1. /\ n \in Nat /\ t \in Nat /\ C \subseteq ClosedTurns /\ B \subseteq C
      /\ LogOK(L, n) /\ StartsOK(S, n) /\ OpenAccount(o, B, C, n, L, S, t)
      /\ \A b \in B : BareAccount(b, L, t)
      /\ \A b, c \in C : b.id = c.id => b = c
  BY DEF Account
<1>2. /\ o \in OpenTurns /\ o.id \in Nat /\ o.openedAt \in Nat /\ o.id < n
      /\ o.openedAt <= t
      /\ \A c \in C : o.id \notin Family(c)
      /\ \A b \in B : b.id < o.id /\ b.openedAt < o.openedAt
      /\ Own(o.files, o.id, L)
      /\ \A l \in L : l.turn = o.id => o.openedAt <= l.at
  BY <1>1 DEF OpenAccount, OpenTurns, Ids
<1>3. /\ c1 \in ClosedTurns
      /\ c1.id = o.id /\ c1.merges = ids /\ c1.files = F
      /\ c1.boundary = turn.boundary /\ c1.closedAt = t
  <2>1. c1 \in ClosedTurns
    BY <1>1, FoldType
  <2>2. /\ c1.id = turn.id /\ c1.merges = ids /\ c1.files = F
        /\ c1.boundary = turn.boundary /\ c1.closedAt = turn.closedAt
    BY DEF FoldRecentBares, ClosedTurns
  <2> QED
    BY <2>1, <2>2
<1>4. \A b \in frags : b \in B /\ Eligible(turn, b, lastRich)
  OBVIOUS
<1>5. Family(c1) = {o.id} \cup ids
  BY <1>3 DEF Family
<1>6. DOMAIN F = DOMAIN o.files \cup UNION {DOMAIN b.files : b \in frags}
  BY DEF FoldedFiles
<1>7. \A p \in DOMAIN F : FirstStamp(Under(L, {o.id} \cup ids, p), F[p].before)
  BY <1>2, FoldedTold
<1>8. ids = {} => F = o.files
  <2>1. ids = {} => frags = {}
    OBVIOUS
  <2>2. o.files \in [DOMAIN o.files -> FileRecords]
    BY <1>2, FileMapsHave DEF OpenTurns
  <2>3. ASSUME frags = {}
        PROVE  F = o.files
    <3>1. DOMAIN F = DOMAIN o.files
      BY <1>6, <2>3
    <3>2. \A p \in DOMAIN F : F[p] = o.files[p]
      BY <2>3 DEF FoldedFiles
    <3>3. F = [p \in DOMAIN F |-> F[p]]
      BY DEF FoldedFiles
    <3> HIDE DEF F
    <3> QED
      BY <2>2, <3>1, <3>2, <3>3
  <2> QED
    BY <2>1, <2>3
<1> HIDE DEF F, c1
<1>9. Fair(c1, D, L, S)
  <2>1. ASSUME c1.boundary = "stop-only", NEW l \in L, l.turn \in Family(c1)
        PROVE  l.at >= Monus(c1.closedAt, FOLD_WINDOW_MS)
    <3>1. l.at \in Nat /\ FOLD_WINDOW_MS \in Nat
      BY <1>1, WindowsAssumption DEF LogOK
    <3>2. CASE l.turn = o.id
      <4>1. Monus(t, o.openedAt) <= FOLD_WINDOW_MS /\ o.openedAt <= l.at
        BY <1>2, <1>3, <2>1, <3>2
      <4> QED
        BY <1>1, <1>2, <1>3, <3>1, <4>1 DEF Monus
    <3>3. ASSUME NEW b \in frags, l.turn = b.id
          PROVE  l.at >= Monus(c1.closedAt, FOLD_WINDOW_MS)
      <4>1. b.openedAt <= l.at
        BY <1>1, <1>4, <3>3 DEF BareAccount
      <4>2. b.openedAt >= Monus(t, FOLD_WINDOW_MS)
        BY <1>4 DEF Eligible
      <4>3. b.openedAt \in Nat /\ Monus(t, FOLD_WINDOW_MS) \in Nat
        BY <1>1, <1>4, <3>1, ClosedNumbers DEF Monus
      <4> QED
        BY <1>3, <3>1, <4>1, <4>2, <4>3
    <3> QED
      BY <1>5, <2>1, <3>2, <3>3
  <2>2. ASSUME c1.boundary = "bracket", NEW s \in S, s.id = c1.id
        PROVE  /\ \A l \in L : l.turn = c1.id => l.at >= s.at
               /\ \A b \in D : b.id \in c1.merges => b.closedAt >= s.at
    <3>1. s.at = o.openedAt
      BY <1>1, <1>3, <2>2 DEF OpenAccount
    <3>2. \A l \in L : l.turn = c1.id => l.at >= s.at
      BY <1>2, <1>3, <3>1, <1>1 DEF LogOK
    <3>3. ASSUME NEW b \in D, b.id \in ids
          PROVE  b.closedAt >= s.at
      <4>1. PICK f \in frags : f.id = b.id
        BY <3>3
      <4>2. b # c1
        BY <1>2, <1>3, <1>4, <1>1, <4>1, ClosedNumbers
      <4>3. b = f
        BY <1>1, <1>4, <3>3, <4>1, <4>2
      <4> QED
        BY <1>3, <1>4, <2>2, <3>1, <4>3 DEF Eligible
    <3> QED
      BY <1>3, <3>2, <3>3
  <2> HIDE DEF D
  <2> QED
    BY <2>1, <2>2 DEF Fair
<1>10. ClosedAccount(c1, D, n, L, S)
  <2>1. \A i \in Family(c1) : i < n
    <3>1. \A b \in frags : b.id < n
      BY <1>1, <1>2, <1>4, ClosedNumbers
    <3> QED
      BY <1>2, <1>5, <3>1
  <2>2. \A l \in L : l.turn = c1.id => l.path \in DOMAIN c1.files
    BY <1>2, <1>3, <1>6 DEF Own
  <2>3. \A p \in DOMAIN c1.files :
          FirstStamp(Under(L, Family(c1), p), c1.files[p].before)
    BY <1>3, <1>5, <1>7
  <2>4. c1.merges = {} =>
          \A p \in DOMAIN c1.files :
            LastStatus(Under(L, Family(c1), p), c1.files[p].status)
    <3>1. ASSUME ids = {}, NEW p \in DOMAIN c1.files
          PROVE  LastStatus(Under(L, Family(c1), p), c1.files[p].status)
      <4>1. Family(c1) = {o.id} /\ c1.files = o.files
        BY <1>3, <1>5, <1>8, <3>1
      <4> QED
        BY <1>2, <3>1, <4>1 DEF Own
    <3> QED
      BY <1>3, <3>1
  <2> HIDE DEF D
  <2> QED
    BY <1>9, <2>1, <2>2, <2>3, <2>4 DEF ClosedAccount
<1>11. \A c \in C : ClosedAccount(c, D, n, L, S)
  <2> TAKE c \in C
  <2>1. ClosedAccount(c, C, n, L, S) /\ c1.id \notin Family(c)
    BY <1>2, <1>3 DEF Account
  <2> QED
    BY <2>1, StillClosed
<1>12. \A b, c \in D : b.id = c.id => b = c
  <2>1. \A c \in C : c.id # o.id
    BY <1>2 DEF Family
  <2> QED
    BY <1>1, <1>3, <2>1
<1>13. \A l \in L : \E c \in D : c.id = l.turn
  BY <1>3 DEF Account
<1>14. Account(None, {}, D, n, L, S, t)
  <2>1. D \subseteq ClosedTurns
    BY <1>1, <1>3
  <2>2. \A c \in D : ClosedAccount(c, D, n, L, S)
    BY <1>10, <1>11
  <2> HIDE DEF D
  <2> QED
    BY <1>1, <1>12, <1>13, <2>1, <2>2 DEF Account
<1> QED
  BY <1>14 DEF c1

-----------------------------------------------------------------------------
(* The methods. *)

(* What is in a sequence of turns. *)
LEMMA TurnsIn ==
  ASSUME NEW s \in Seq(ClosedTurns)
  PROVE  /\ Range(<< >>) = {}
         /\ \A c : Range(<<c>>) = {c}
         /\ \A c \in ClosedTurns : Range(Append(s, c)) = Range(s) \cup {c}
         /\ \A u \in Seq(ClosedTurns) : Range(s \o u) = Range(s) \cup Range(u)
<1>1. ASSUME NEW u \in Seq(ClosedTurns)
      PROVE  Range(s \o u) = Range(s) \cup Range(u)
  <2>1. \A i \in DOMAIN (s \o u) :
          \/ i \in DOMAIN s /\ (s \o u)[i] = s[i]
          \/ i - Len(s) \in DOMAIN u /\ (s \o u)[i] = u[i - Len(s)]
    OBVIOUS
  <2>2. \A i \in DOMAIN s : i \in DOMAIN (s \o u) /\ (s \o u)[i] = s[i]
    OBVIOUS
  <2>3. \A i \in DOMAIN u : i + Len(s) \in DOMAIN (s \o u)
                            /\ (s \o u)[i + Len(s)] = u[i]
    OBVIOUS
  <2>4. \A i \in DOMAIN (s \o u) : (s \o u)[i] \in Range(s) \cup Range(u)
    BY <2>1 DEF Range
  <2>5. \A i \in DOMAIN s : s[i] \in Range(s \o u)
    BY <2>2 DEF Range
  <2>6. \A i \in DOMAIN u : u[i] \in Range(s \o u)
    BY <2>3 DEF Range
  <2> QED
    BY <2>4, <2>5, <2>6 DEF Range
<1>2. \A c : Range(<<c>>) = {c}
  BY DEF Range
<1>3. ASSUME NEW c \in ClosedTurns
      PROVE  Range(Append(s, c)) = Range(s) \cup {c}
  <2>1. Append(s, c) = s \o <<c>> /\ <<c>> \in Seq(ClosedTurns)
    OBVIOUS
  <2> QED
    BY <1>1, <1>2, <2>1
<1>4. Range(<< >>) = {}
  BY DEF Range
<1> QED
  BY <1>1, <1>2, <1>3, <1>4

(* The account that an engine hands over, from the account of its parts.   *)
LEMMA Accounted ==
  ASSUME NEW e \in Engines, NEW R, NEW C, NEW n, NEW L, NEW S, NEW t,
         Account(e.open, e.recentBare, C, n, L, S, t),
         C = R \cup Range(e.pending),
         e.open # None /\ e.lastChange # None => e.open.openedAt <= e.lastChange
  PROVE  EngineAccount(e, R, n, L, S, t)
  BY DEF EngineAccount

LEMMA ObserveChangesAccount ==
  ASSUME NEW e \in Engines, NEW R, NEW n \in Ids, NEW L, NEW S, NEW t \in Nat,
         EngineAccount(e, R, n, L, S, t),
         NEW k \in Nat, \A l \in L : l.stamp < k,
         NEW obs \in FileMaps, obs # << >>,
         NEW seen,
         \A l \in seen : /\ l.turn = ObserveChanges(e, t, obs, n).eng.open.id
                         /\ l.stamp = k /\ l.at = t /\ l.path \in DOMAIN obs
                         /\ l.status = obs[l.path].status,
         \A p \in DOMAIN obs : /\ obs[p].before = k
                               /\ \E l \in seen : l.path = p,
         \A l, m \in seen : l.path = m.path => l = m
  PROVE  LET r == ObserveChanges(e, t, obs, n)
         IN EngineAccount(r.eng, R \cup Range(r.closed),
                          IF r.reserved THEN n + 1 ELSE n, L \cup seen, S, t)
<1> DEFINE r == ObserveChanges(e, t, obs, n)
           m == IF e.open = None THEN n + 1 ELSE n
           C == R \cup Range(e.pending)
           o == TurnOfChange(e, t, n)
           files == [ p \in DOMAIN o.files \cup DOMAIN obs |->
                        IF p \notin DOMAIN o.files THEN obs[p]
                        ELSE IF p \in DOMAIN obs
                             THEN [o.files[p] EXCEPT !.status = obs[p].status]
                             ELSE o.files[p] ]
           o2 == [o EXCEPT !.files = files]
<1>1. Account(e.open, e.recentBare, C, n, L, S, t)
  BY DEF EngineAccount
<1>2. o \in OpenTurns /\ o # None
  BY TurnOfChangeType, NoneAssumption
<1>3. Account(o, e.recentBare, C, m, L, S, t)
  <2>1. CASE e.open # None
    BY <1>1, <2>1 DEF TurnOfChange
  <2>2. CASE e.open = None
    <3>1. o.id = n /\ o.openedAt = t /\ o.files = << >> /\ o.source # "bracket"
      BY <2>2 DEF TurnOfChange, OpenTurn
    <3> HIDE DEF o
    <3> QED
      BY <1>1, <1>2, <2>2, <3>1, Opens
  <2> QED
    BY <2>1, <2>2
<1>4. r.eng = [e EXCEPT !.open = o2, !.lastChange = t]
      /\ r.closed = << >> /\ r.reserved = (e.open = None)
  BY DEF ObserveChanges, Result
<1>5. r.eng \in Engines
  BY ObserveChangesType DEF ResultOK
<1> HIDE DEF o, r
<1>6. o.files \in FileMaps
  BY <1>2 DEF OpenTurns
<1>7. ASSUME NEW p \in DOMAIN files
      PROVE  /\ files[p] \in FileRecords
             /\ files[p].before = IF p \in DOMAIN o.files THEN o.files[p].before
                                  ELSE obs[p].before
             /\ files[p].status = IF p \in DOMAIN obs THEN obs[p].status
                                  ELSE o.files[p].status
  <2>1. p \in DOMAIN o.files => o.files[p] \in FileRecords
    BY <1>6, FileMapsHave
  <2>2. p \in DOMAIN obs => obs[p] \in FileRecords
    BY FileMapsHave
  <2> QED
    BY <2>1, <2>2 DEF FileRecords
<1>8. files \in FileMaps
  <2>1. DOMAIN files \subseteq Paths
    BY <1>6, FileMapsHave
  <2>2. files \in [DOMAIN files -> FileRecords]
    BY <1>7
  <2> HIDE DEF files
  <2> QED
    BY <2>1, <2>2, FileMapsAre
<1>9. DOMAIN files = DOMAIN o.files \cup DOMAIN obs
  OBVIOUS
<1> HIDE DEF files, m
<1>10. o2 \in OpenTurns /\ o2.id = o.id /\ o2.openedAt = o.openedAt
  BY <1>2, <1>8 DEF OpenTurns
<1>11. /\ r.eng.open = o2 /\ r.eng.lastChange = t
       /\ r.eng.recentBare = e.recentBare /\ r.eng.pending = e.pending
  BY <1>4 DEF Engines
<1>12. \A l \in seen : l.turn = o.id /\ l.stamp = k /\ l.at = t
                       /\ l.path \in DOMAIN obs /\ l.status = obs[l.path].status
  BY <1>10, <1>11 DEF r
<1>13. Account(o2, e.recentBare, C, m, L \cup seen, S, t)
  <2>1. \A p \in DOMAIN files :
          /\ files[p].before = IF p \in DOMAIN o.files THEN o.files[p].before
                               ELSE obs[p].before
          /\ files[p].status = IF p \in DOMAIN obs THEN obs[p].status
                               ELSE o.files[p].status
    BY <1>7
  <2>2. \A p \in DOMAIN obs : obs[p].before = k /\ \E l \in seen : l.path = p
    OBVIOUS
  <2>3. k \in Nat /\ \A l \in L : l.stamp < k
    OBVIOUS
  <2>4. \A l, x \in seen : l.path = x.path => l = x
    OBVIOUS
  <2> HIDE DEF C
  <2> QED
    BY <1>2, <1>3, <1>8, <1>9, <1>12, <2>1, <2>2, <2>3, <2>4, Observes, ZenonT(60)
<1>14. o2.openedAt <= t
  BY <1>2, <1>3, <1>10 DEF Account, OpenAccount
<1>15. R \cup Range(r.closed) = R
  BY <1>4 DEF Range
<1> HIDE DEF o2
<1>16. EngineAccount(r.eng, R, m, L \cup seen, S, t)
  BY <1>5, <1>11, <1>13, <1>14, Accounted
<1> QED
  BY <1>4, <1>15, <1>16 DEF r, m

LEMMA ObserveGitChangeAccount ==
  ASSUME NEW e \in Engines, NEW R, NEW n, NEW L, NEW S, NEW t \in Nat,
         EngineAccount(e, R, n, L, S, t)
  PROVE  EngineAccount(ObserveGitChange(e, t), R, n, L, S, t)
<1> DEFINE w == [e EXCEPT !.gitUntil = t + GIT_SETTLE_MS]
           f == ObserveGitChange(e, t)
           C == R \cup Range(e.pending)
<1>1. /\ w.open = e.open /\ w.lastChange = e.lastChange
      /\ w.recentBare = e.recentBare /\ w.pending = e.pending
      /\ w \in Engines /\ f \in Engines
  <2>1. f \in Engines
    BY ObserveGitChangeType
  <2>2. w \in Engines
    <3>1. t + GIT_SETTLE_MS \in Nat
      BY WindowsAssumption
    <3> QED
      BY <3>1 DEF Engines
  <2>3. /\ w.open = e.open /\ w.lastChange = e.lastChange
        /\ w.recentBare = e.recentBare /\ w.pending = e.pending
    BY DEF Engines
  <2> QED
    BY <2>1, <2>2, <2>3
<1>2. Account(e.open, e.recentBare, C, n, L, S, t)
  BY DEF EngineAccount
<1>3. CASE ~HasOpen(e, "quiet")
  <2>1. f = w
    BY <1>3 DEF ObserveGitChange
  <2> QED
    BY <1>1, <2>1 DEF EngineAccount
<1>4. CASE /\ HasOpen(e, "quiet")
           /\ Monus(t, e.open.openedAt) <= GIT_SETTLE_MS + QUIET_MS
  <2> DEFINE g == [e.open EXCEPT !.source = "git", !.tool = Git]
  <2>1. f = [w EXCEPT !.open.source = "git", !.open.tool = Git]
    BY <1>4 DEF ObserveGitChange
  <2>2. e.open \in OpenTurns
    BY <1>4 DEF HasOpen, Engines
  <2>3. /\ f.open = g /\ f.lastChange = e.lastChange
        /\ f.recentBare = e.recentBare /\ f.pending = e.pending
        /\ g.openedAt = e.open.openedAt
    BY <2>1, <2>2 DEF Engines, OpenTurns
  <2>4. Account(g, e.recentBare, C, n, L, S, t)
    BY <1>2, <1>4, Converts DEF HasOpen
  <2> HIDE DEF g, f
  <2>5. EngineAccount(f, R, n, L, S, t)
    BY <1>1, <1>4, <2>3, <2>4, Accounted DEF EngineAccount, HasOpen
  <2> QED
    BY <2>5 DEF f
<1>5. CASE /\ HasOpen(e, "quiet")
           /\ ~(Monus(t, e.open.openedAt) <= GIT_SETTLE_MS + QUIET_MS)
  <2> DEFINE turn == CloseOnOwnTerms(e.open, LastActivity(e))
  <2>1. e.open \in OpenTurns /\ e.open # None
    BY <1>5 DEF HasOpen, Engines
  <2>2. Plain(turn, e.open) /\ turn \in ClosedTurns
    BY <2>1, LastActivityType, CloseOnOwnTermsPlain DEF Plain
  <2> HIDE DEF turn
  <2>3. f = SetAside(w, turn)
    BY <1>5 DEF ObserveGitChange, turn
  <2>4. /\ f.open = None /\ f.recentBare = e.recentBare \cup {turn}
        /\ f.pending = Append(e.pending, turn)
    BY <1>1, <2>3 DEF SetAside, TakeOpen, Engines
  <2>5. e.open.openedAt < t
    BY <1>5, <2>1, WindowsAssumption DEF Monus, OpenTurns
  <2>6. Account(None, e.recentBare \cup {turn}, C \cup {turn}, n, L, S, t)
    BY <1>2, <2>1, <2>2, <2>5, ClosesOwn
  <2>7. Range(f.pending) = Range(e.pending) \cup {turn}
    BY <2>2, <2>4, TurnsIn DEF Engines
  <2>8. C \cup {turn} = R \cup Range(f.pending)
    BY <2>7
  <2> HIDE DEF f, C
  <2>9. EngineAccount(f, R, n, L, S, t)
    BY <1>1, <2>4, <2>6, <2>8, Accounted
  <2> QED
    BY <2>9 DEF f
<1> QED
  BY <1>3, <1>4, <1>5

LEMMA ObserveStartAccount ==
  ASSUME NEW e \in Engines, NEW R, NEW n \in Ids, NEW L, NEW S, NEW t \in Nat,
         NEW tool \in Tools, NEW k \in EmitterTurns \cup {None},
         EngineAccount(e, R, n, L, S, t)
  PROVE  LET r == ObserveStart(e, t, tool, k, n)
         IN EngineAccount(r.eng, R \cup Range(r.closed), n + 1, L,
                          S \cup {[id |-> n, at |-> t]}, t)
<1> DEFINE r == ObserveStart(e, t, tool, k, n)
           o == OpenTurn("bracket", tool, t, n, k)
           C == R \cup Range(e.pending)
           D == (R \cup Range(r.closed)) \cup Range(e.pending)
           T == S \cup {[id |-> n, at |-> t]}
<1>1. Account(e.open, e.recentBare, C, n, L, S, t)
  BY DEF EngineAccount
<1>2. /\ o \in OpenTurns /\ o.id = n /\ o.openedAt = t /\ o.files = << >>
      /\ o.source = "bracket"
  BY OpenTurnType DEF OpenTurn
<1>3. r.closed = IF e.open = None THEN << >> ELSE <<CloseOnOwnTerms(e.open, t)>>
  BY DEF ObserveStart, Result
<1>4. /\ r.eng.open = o /\ r.eng.lastChange = None
      /\ r.eng.recentBare = e.recentBare /\ r.eng.pending = e.pending
      /\ r.eng \in Engines
  BY ObserveStartType DEF ObserveStart, Result, TakeOpen, Engines, ResultOK
<1> HIDE DEF o, r
<1>5. Account(None, e.recentBare, D, n, L, S, t)
  <2>1. CASE e.open = None
    <3>1. D = C
      BY <1>3, <2>1 DEF Range
    <3> QED
      BY <1>1, <2>1, <3>1
  <2>2. CASE e.open # None
    <3> DEFINE turn == CloseOnOwnTerms(e.open, t)
    <3>1. Plain(turn, e.open)
      BY <2>2, CloseOnOwnTermsPlain DEF Engines
    <3> HIDE DEF turn
    <3>2. Account(None, e.recentBare, C \cup {turn}, n, L, S, t)
      BY <1>1, <2>2, <3>1, ClosesOwn
    <3>3. r.closed = <<turn>>
      BY <1>3, <2>2 DEF turn
    <3>4. Range(r.closed) = {turn}
      BY <3>3 DEF Range
    <3>5. D = C \cup {turn}
      BY <3>4
    <3> QED
      BY <3>2, <3>5
  <2> QED
    BY <2>1, <2>2
<1> HIDE DEF D, C, T
<1>6. Account(o, e.recentBare, D, n + 1, L, T, t)
  BY <1>2, <1>5, Opens DEF T
<1>7. EngineAccount(r.eng, R \cup Range(r.closed), n + 1, L, T, t)
  BY <1>4, <1>6, Accounted DEF D
<1> QED
  BY <1>7 DEF r, T

(* The open turn, if there is one, closes on its own terms. *)
LEMMA ClosesWhatIsOpen ==
  ASSUME NEW e \in Engines, NEW n, NEW C, NEW L, NEW S, NEW t \in Nat,
         Account(e.open, e.recentBare, C, n, L, S, t),
         NEW s, s = IF e.open = None THEN << >> ELSE <<CloseOnOwnTerms(e.open, t)>>
  PROVE  /\ s \in Seq(ClosedTurns)
         /\ Account(None, e.recentBare, C \cup Range(s), n, L, S, t)
<1>1. CASE e.open = None
  <2>1. s = << >> /\ << >> \in Seq(ClosedTurns)
    BY <1>1
  <2>2. C \cup Range(s) = C
    BY <2>1 DEF Range
  <2>3. Account(None, e.recentBare, C, n, L, S, t)
    BY <1>1
  <2> QED
    BY <2>1, <2>2, <2>3
<1>2. CASE e.open # None
  <2> DEFINE turn == CloseOnOwnTerms(e.open, t)
  <2>1. Plain(turn, e.open) /\ turn \in ClosedTurns
    BY <1>2, CloseOnOwnTermsPlain DEF Engines, Plain
  <2>2. s = <<turn>>
    BY <1>2
  <2> HIDE DEF turn
  <2>3. Range(s) = {turn}
    BY <2>2 DEF Range
  <2>4. Account(None, e.recentBare, C \cup {turn}, n, L, S, t)
    BY <1>2, <2>1, ClosesOwn
  <2>5. s \in Seq(ClosedTurns)
    BY <2>1, <2>2
  <2>6. C \cup Range(s) = C \cup {turn}
    BY <2>3
  <2> QED
    BY <2>4, <2>5, <2>6
<1> QED
  BY <1>1, <1>2

(* What CloseOnStop returns, when the folded turn is accounted for. *)
LEMMA CloseOnStopAccount ==
  ASSUME NEW e \in Engines, NEW turn \in ClosedTurns,
         NEW before \in Seq(ClosedTurns), NEW reserved \in BOOLEAN,
         NEW R, NEW m, NEW L, NEW S, NEW t \in Nat,
         Account(None, {},
                 ((R \cup Range(e.pending)) \cup Range(before))
                   \cup {FoldRecentBares(turn, e.recentBare, e.lastRich)},
                 m, L, S, t)
  PROVE  LET r == CloseOnStop(e, turn, before, t, reserved)
         IN EngineAccount(r.eng, R \cup Range(r.closed), m, L, S, t)
<1> DEFINE folded == FoldRecentBares(turn, e.recentBare, e.lastRich)
           r == CloseOnStop(e, turn, before, t, reserved)
<1>1. folded \in ClosedTurns
  BY FoldType DEF Engines
<1>2. r.eng \in Engines
  BY CloseOnStopType DEF ResultOK
<1>3. /\ r.closed = Append(before, folded)
      /\ r.eng.open = None /\ r.eng.recentBare = {}
      /\ r.eng.pending = e.pending
  BY DEF CloseOnStop, Result, TakeOpen, Engines
<1> HIDE DEF folded, r
<1>4. Range(r.closed) = Range(before) \cup {folded}
  BY <1>1, <1>3, TurnsIn
<1>5. ((R \cup Range(e.pending)) \cup Range(before)) \cup {folded}
        = (R \cup Range(r.closed)) \cup Range(e.pending)
  BY <1>4
<1>6. Account(None, {}, (R \cup Range(r.closed)) \cup Range(e.pending), m, L, S, t)
  BY <1>5 DEF folded
<1>7. EngineAccount(r.eng, R \cup Range(r.closed), m, L, S, t)
  BY <1>2, <1>3, <1>6, Accounted
<1> QED
  BY <1>7 DEF r

LEMMA ObserveStopAccount ==
  ASSUME NEW e \in Engines, NEW R, NEW n \in Ids, NEW L, NEW S, NEW t \in Nat,
         NEW tool \in Tools, EngineAccount(e, R, n, L, S, t)
  PROVE  LET r == ObserveStop(e, t, tool, n)
         IN EngineAccount(r.eng, R \cup Range(r.closed),
                          IF r.reserved THEN n + 1 ELSE n, L, S, t)
<1> DEFINE ownBracket == HasOpen(e, "bracket") /\ e.open.tool = tool
           convertible == /\ HasOpen(e, "quiet")
                          /\ Monus(t, e.open.openedAt) <= FOLD_WINDOW_MS
           r == ObserveStop(e, t, tool, n)
           C == R \cup Range(e.pending)
<1>1. Account(e.open, e.recentBare, C, n, L, S, t)
  BY DEF EngineAccount
<1>2. e.open # None => e.open \in OpenTurns /\ e.open.openedAt <= t
                       /\ e.open.openedAt \in Nat
  BY <1>1 DEF Engines, Account, OpenAccount, OpenTurns
<1>3. << >> \in Seq(ClosedTurns) /\ C \cup Range(<< >>) = C
  BY DEF Range
<1>4. CASE ownBracket
  <2> DEFINE turn == Finish(e.open, t, "bracket", "rich", FALSE)
  <2>1. e.open # None /\ e.open.source = "bracket"
    BY <1>4 DEF HasOpen
  <2>2. /\ turn \in ClosedTurns /\ turn.id = e.open.id
        /\ turn.files = e.open.files /\ turn.openedAt = e.open.openedAt
        /\ turn.closedAt = t /\ turn.merges = {} /\ turn.boundary = "bracket"
    <3>1. turn \in ClosedTurns
      BY <1>2, <2>1, FinishType DEF Boundaries
    <3>2. Later(t, e.open.openedAt) = t
      BY <1>2, <2>1 DEF Later, OpenTurns
    <3> QED
      BY <1>2, <2>1, <3>1, <3>2 DEF Finish, OpenTurns
  <2>3. r = CloseOnStop(e, turn, << >>, t, FALSE) /\ r.reserved = FALSE
    BY <1>4 DEF ObserveStop, CloseOnStop, Result
  <2> HIDE DEF turn, r, C
  <2>4. Account(None, {}, C \cup {FoldRecentBares(turn, e.recentBare, e.lastRich)},
                n, L, S, t)
    BY <1>1, <2>1, <2>2, ClosesOnStop
  <2>5. EngineAccount(r.eng, R \cup Range(r.closed), n, L, S, t)
    BY <1>3, <2>2, <2>3, <2>4, CloseOnStopAccount DEF C
  <2> QED
    BY <2>3, <2>5 DEF r
<1>5. CASE ~ownBracket /\ convertible
  <2> DEFINE stop == Finish(e.open, t, "stop-only", "rich", FALSE)
             turn == [stop EXCEPT !.tool = tool]
  <2>1. e.open # None
    BY <1>5 DEF HasOpen
  <2>2. /\ stop \in ClosedTurns /\ stop.id = e.open.id
        /\ stop.files = e.open.files /\ stop.openedAt = e.open.openedAt
        /\ stop.closedAt = t /\ stop.merges = {} /\ stop.boundary = "stop-only"
    <3>1. stop \in ClosedTurns
      BY <1>2, <2>1, FinishType DEF Boundaries
    <3>2. Later(t, e.open.openedAt) = t
      BY <1>2, <2>1 DEF Later, OpenTurns
    <3> QED
      BY <1>2, <2>1, <3>1, <3>2 DEF Finish, OpenTurns
  <2>3. r = CloseOnStop(e, turn, << >>, t, FALSE) /\ r.reserved = FALSE
    BY <1>5 DEF ObserveStop, CloseOnStop, Result
  <2> HIDE DEF stop
  <2>4. /\ turn \in ClosedTurns /\ turn.id = e.open.id
        /\ turn.files = e.open.files /\ turn.openedAt = e.open.openedAt
        /\ turn.closedAt = t /\ turn.merges = {} /\ turn.boundary = "stop-only"
    BY <2>2 DEF ClosedTurns
  <2> HIDE DEF turn, r, C
  <2>5. Account(None, {}, C \cup {FoldRecentBares(turn, e.recentBare, e.lastRich)},
                n, L, S, t)
    BY <1>1, <1>5, <2>1, <2>4, ClosesOnStop
  <2>6. EngineAccount(r.eng, R \cup Range(r.closed), n, L, S, t)
    BY <1>3, <2>3, <2>4, <2>5, CloseOnStopAccount DEF C
  <2> QED
    BY <2>3, <2>6 DEF r
<1>6. CASE ~ownBracket /\ ~convertible
  <2> DEFINE o == OpenTurn("quiet", tool, t, n, None)
             turn == Finish(o, t, "stop-only", "rich", FALSE)
             before == IF e.open = None THEN << >>
                       ELSE <<CloseOnOwnTerms(e.open, t)>>
  <2>1. /\ o \in OpenTurns /\ o.id = n /\ o.openedAt = t /\ o.files = << >>
        /\ o.source = "quiet"
    BY OpenTurnType DEF OpenTurn
  <2>2. r = CloseOnStop(e, turn, before, t, TRUE) /\ r.reserved = TRUE
    BY <1>6 DEF ObserveStop, CloseOnStop, Result
  <2> HIDE DEF o
  <2>3. /\ turn \in ClosedTurns /\ turn.id = o.id
        /\ turn.files = o.files /\ turn.openedAt = o.openedAt
        /\ turn.closedAt = t /\ turn.merges = {} /\ turn.boundary = "stop-only"
    <3>1. turn \in ClosedTurns
      BY <2>1, FinishType DEF Boundaries
    <3>2. Later(t, o.openedAt) = t
      BY <2>1 DEF Later, OpenTurns
    <3> QED
      BY <2>1, <3>1, <3>2 DEF Finish, OpenTurns
  <2> HIDE DEF turn, r, C, before
  <2>4. /\ before \in Seq(ClosedTurns)
        /\ Account(None, e.recentBare, C \cup Range(before), n, L, S, t)
    BY <1>1, ClosesWhatIsOpen DEF before
  <2>5. Account(o, e.recentBare, C \cup Range(before), n + 1, L, S, t)
    BY <2>1, <2>4, Opens
  <2>6. o # None /\ Monus(t, o.openedAt) <= FOLD_WINDOW_MS
    BY <2>1, NoneAssumption, WindowsAssumption DEF Monus
  <2>7. Account(None, {},
                (C \cup Range(before))
                  \cup {FoldRecentBares(turn, e.recentBare, e.lastRich)},
                n + 1, L, S, t)
    BY <2>3, <2>5, <2>6, ClosesOnStop
  <2>8. EngineAccount(r.eng, R \cup Range(r.closed), n + 1, L, S, t)
    BY <2>2, <2>3, <2>4, <2>7, CloseOnStopAccount DEF C
  <2> QED
    BY <2>2, <2>8 DEF r
<1> QED
  BY <1>4, <1>5, <1>6

LEMMA TickAccount ==
  ASSUME NEW e \in Engines, NEW R, NEW n, NEW L, NEW S, NEW t \in Nat,
         EngineAccount(e, R, n, L, S, t)
  PROVE  LET r == Tick(e, t)
         IN EngineAccount(r.eng, R \cup Range(r.closed), n, L, S, t)
<1> DEFINE r == Tick(e, t)
           p == Prune(e, t)
           C == R \cup Range(e.pending)
           at == IF e.open.source = "bracket" THEN LastActivity(e) ELSE t
           turn == CloseOnOwnTerms(e.open, at)
           bares == p.recentBare \cup (IF turn.grade = "bare" THEN {turn} ELSE {})
<1>1. Account(e.open, e.recentBare, C, n, L, S, t)
  BY DEF EngineAccount
<1>2. r.eng \in Engines /\ r.closed \in Seq(ClosedTurns)
  BY TickType DEF ResultOK
<1>3. /\ p.open = e.open /\ p.lastChange = e.lastChange
      /\ p.recentBare \subseteq e.recentBare /\ p.pending = << >>
  BY DEF Prune, StillRecent, Engines
<1>4. e.pending \in Seq(ClosedTurns) /\ Range(<< >>) = {}
  BY DEF Engines, Range
<1>5. CASE e.open # None /\ Elapsed(e, t)
  <2>1. /\ r.eng = [TakeOpen(p) EXCEPT !.recentBare = bares]
        /\ r.closed = Append(e.pending, turn)
    BY <1>5 DEF Tick, Result
  <2>2. /\ r.eng.open = None /\ r.eng.recentBare = bares /\ r.eng.pending = << >>
    <3> HIDE DEF bares, r
    <3> QED
      BY <1>3, <2>1 DEF TakeOpen, Prune, Engines
  <2>3. e.open \in OpenTurns /\ e.open.openedAt \in Nat /\ at \in Nat
    BY <1>5, LastActivityType DEF Engines, OpenTurns
  <2>4. Plain(turn, e.open) /\ turn \in ClosedTurns
    BY <2>3, CloseOnOwnTermsPlain DEF Plain
  <2> HIDE DEF turn, r, at, p
  <2>5. turn.grade = "bare" => e.open.openedAt < t
    <3> SUFFICES ASSUME e.open.source = "quiet"
                 PROVE  e.open.openedAt < t
      BY <2>4 DEF Plain
    <3>1. Monus(t, LastActivity(e)) > QUIET_MS
      BY <1>5 DEF Elapsed
    <3>2. LastActivity(e) \in Nat /\ e.open.openedAt <= LastActivity(e)
      BY <1>5, <2>3, LastActivityType DEF LastActivity, EngineAccount
    <3> QED
      BY <2>3, <3>1, <3>2, WindowsAssumption DEF Monus
  <2>6. bares \subseteq
          e.recentBare \cup (IF e.open.openedAt < t THEN {turn} ELSE {})
    BY <1>3, <2>5
  <2> HIDE DEF bares, C
  <2>7. Account(None, bares, C \cup {turn}, n, L, S, t)
    BY <1>1, <1>5, <2>4, <2>6, ClosesOwn
  <2>8. Range(r.closed) = Range(e.pending) \cup {turn}
    BY <1>4, <2>1, <2>4, TurnsIn
  <2>9. C \cup {turn} = (R \cup Range(r.closed)) \cup Range(r.eng.pending)
    BY <1>4, <2>2, <2>8 DEF C
  <2>10. EngineAccount(r.eng, R \cup Range(r.closed), n, L, S, t)
    BY <1>2, <2>2, <2>7, <2>9, Accounted
  <2> QED
    BY <2>10 DEF r
<1>6. CASE ~(e.open # None /\ Elapsed(e, t))
  <2>1. r.eng = p /\ r.closed = e.pending
    BY <1>6 DEF Tick, Result
  <2> HIDE DEF r, p
  <2>2. C = (R \cup Range(r.closed)) \cup Range(p.pending)
    BY <1>3, <1>4, <2>1
  <2>3. Account(p.open, p.recentBare, C, n, L, S, t)
    BY <1>1, <1>3, Fewer
  <2>4. p.open # None /\ p.lastChange # None => p.open.openedAt <= p.lastChange
    BY <1>3 DEF EngineAccount
  <2> HIDE DEF C
  <2>5. EngineAccount(r.eng, R \cup Range(r.closed), n, L, S, t)
    BY <1>2, <2>1, <2>2, <2>3, <2>4, Accounted
  <2> QED
    BY <2>5 DEF r
<1> QED
  BY <1>5, <1>6

LEMMA ForceCloseAccount ==
  ASSUME NEW e \in Engines, NEW R, NEW n, NEW L, NEW S, NEW t \in Nat,
         EngineAccount(e, R, n, L, S, t)
  PROVE  LET r == ForceClose(e, t)
         IN EngineAccount(r.eng, R \cup Range(r.closed), n, L, S, t)
<1> DEFINE r == ForceClose(e, t)
           C == R \cup Range(e.pending)
<1>1. Account(e.open, e.recentBare, C, n, L, S, t)
  BY DEF EngineAccount
<1>2. r.eng \in Engines
  BY ForceCloseType DEF ResultOK
<1>3. r.closed = IF e.open = None THEN << >> ELSE <<CloseOnOwnTerms(e.open, t)>>
  BY DEF ForceClose, Result
<1>4. /\ r.eng.open = None /\ r.eng.recentBare = e.recentBare
      /\ r.eng.pending = e.pending
  BY DEF ForceClose, Result, TakeOpen, Engines
<1> HIDE DEF r
<1>5. Account(None, e.recentBare, C \cup Range(r.closed), n, L, S, t)
  BY <1>1, <1>3, ClosesWhatIsOpen
<1>6. C \cup Range(r.closed) = (R \cup Range(r.closed)) \cup Range(e.pending)
  OBVIOUS
<1> HIDE DEF C
<1>7. EngineAccount(r.eng, R \cup Range(r.closed), n, L, S, t)
  BY <1>2, <1>4, <1>5, <1>6, Accounted
<1> QED
  BY <1>7 DEF r

-----------------------------------------------------------------------------
(* The machine. *)

LEMMA InitAccount == Init => AccountInv
<1> SUFFICES ASSUME Init
             PROVE  AccountInv
  OBVIOUS
<1>1. /\ eng.open = None /\ eng.recentBare = {} /\ eng.pending = << >>
      /\ closed = << >> /\ nextId = 1 /\ now = 0 /\ log = {} /\ starts = {}
  BY DEF Init, NewEngine
<1>2. Returned = {} /\ Range(eng.pending) = {}
  BY <1>1 DEF Returned, Range
<1>3. Account(None, {}, {}, 1, {}, {}, 0)
  BY DEF Account, LogOK, StartsOK
<1> QED
  BY <1>1, <1>2, <1>3 DEF AccountInv, EngineAccount

(* Taking what a method returned. *)
LEMMA ApplyAccount ==
  ASSUME TypeOK, NEW r, r.closed \in Seq(ClosedTurns), Apply(r)
  PROVE  /\ eng' = r.eng /\ Returned' = Returned \cup Range(r.closed)
         /\ nextId' = IF r.reserved THEN nextId + 1 ELSE nextId
  BY TurnsIn DEF Apply, Returned, TypeOK

LEMMA StepAccount == TypeOK /\ AccountInv /\ [Next]_vars => AccountInv'
<1> SUFFICES ASSUME TypeOK, AccountInv, [Next]_vars
             PROVE  AccountInv'
  OBVIOUS
<1>t. /\ eng \in Engines /\ now \in Nat /\ stamp \in Nat
      /\ EngineAccount(eng, Returned, nextId, log, starts, now)
      /\ \A l \in log : l.stamp \in Nat /\ l.stamp <= stamp
  <2>1. eng \in Engines /\ now \in Nat /\ stamp \in Nat
    BY BoundsAssumption DEF TypeOK, Times
  <2>2. EngineAccount(eng, Returned, nextId, log, starts, now)
    BY DEF AccountInv
  <2>3. LogOK(log, nextId)
    BY <2>2 DEF EngineAccount, Account
  <2>4. \A l \in log : l.stamp \in Nat /\ l.stamp <= stamp
    BY <2>3 DEF AccountInv, LogOK
  <2> QED
    BY <2>1, <2>2, <2>4
<1>1. CASE Advance
  <2>1. /\ now' = now + 1
        /\ UNCHANGED <<eng, closed, nextId, stamp, log, starts>>
    BY <1>1 DEF Advance
  <2>2. EngineAccount(eng, Returned, nextId, log, starts, now + 1)
    BY <1>t, TimePasses DEF EngineAccount
  <2> QED
    BY <1>t, <2>1, <2>2 DEF AccountInv, Returned
<1>2. ASSUME NEW P \in (SUBSET Paths) \ {{}}, NEW s \in [P -> Statuses],
             Changes(P, s)
      PROVE  AccountInv'
  <2> DEFINE obs == [p \in P |-> Observation(stamp + 1, s[p])]
             r == ObserveChanges(eng, now, obs, nextId)
             seen == {[path |-> p, at |-> now, turn |-> r.eng.open.id,
                       stamp |-> stamp + 1, status |-> s[p]] : p \in P}
  <2>1. nextId \in Ids /\ stamp + 1 \in 1 .. MaxBatches
    BY <1>2, BoundsAssumption DEF Changes, TypeOK, Ids
  <2>2. /\ Apply(r) /\ stamp' = stamp + 1 /\ log' = log \cup seen
        /\ now' = now /\ starts' = starts
    BY <1>2 DEF Changes
  <2>3. obs \in FileMaps
    <3>1. \A p \in P : Observation(stamp + 1, s[p]) \in FileRecords
      BY <2>1 DEF Observation, FileRecords
    <3>2. DOMAIN obs \subseteq Paths /\ obs \in [DOMAIN obs -> FileRecords]
      BY <3>1
    <3> HIDE DEF obs
    <3> QED
      BY <3>2, FileMapsAre
  <2>4. DOMAIN obs = P /\ obs # << >>
    <3>1. DOMAIN obs = P /\ DOMAIN << >> = {}
      OBVIOUS
    <3> HIDE DEF obs
    <3> QED
      BY <3>1
  <2>5. \A p \in P : obs[p].before = stamp + 1 /\ obs[p].status = s[p]
    BY DEF Observation
  <2>6. \A l \in seen : /\ l.turn = r.eng.open.id /\ l.stamp = stamp + 1
                        /\ l.at = now /\ l.path \in P /\ l.status = s[l.path]
    OBVIOUS
  <2>7. \A p \in P : \E l \in seen : l.path = p
    <3> TAKE p \in P
    <3> DEFINE l == [path |-> p, at |-> now, turn |-> r.eng.open.id,
                     stamp |-> stamp + 1, status |-> s[p]]
    <3>1. l \in seen /\ l.path = p
      OBVIOUS
    <3> QED
      BY <3>1
  <2>8. \A l, m \in seen : l.path = m.path => l = m
    <3>1. \A l \in seen :
            l = [path |-> l.path, at |-> now, turn |-> r.eng.open.id,
                 stamp |-> stamp + 1, status |-> s[l.path]]
      OBVIOUS
    <3> HIDE DEF seen, r
    <3> QED
      BY <3>1
  <2> HIDE DEF obs, seen
  <2>9. \A l \in seen :
          /\ l.turn = ObserveChanges(eng, now, obs, nextId).eng.open.id
          /\ l.stamp = stamp + 1 /\ l.at = now /\ l.path \in DOMAIN obs
          /\ l.status = obs[l.path].status
    BY <2>4, <2>5, <2>6
  <2>10. \A p \in DOMAIN obs : /\ obs[p].before = stamp + 1
                               /\ \E l \in seen : l.path = p
    BY <2>4, <2>5, <2>7
  <2>11. stamp + 1 \in Nat /\ \A l \in log : l.stamp < stamp + 1
    BY <1>t
  <2>12. EngineAccount(r.eng, Returned \cup Range(r.closed),
                       IF r.reserved THEN nextId + 1 ELSE nextId,
                       log \cup seen, starts, now)
    BY <1>t, <2>1, <2>3, <2>4, <2>8, <2>9, <2>10, <2>11, ObserveChangesAccount
  <2>13. r.closed \in Seq(ClosedTurns)
    BY <1>t, <2>1, <2>3, ObserveChangesType DEF ResultOK
  <2> HIDE DEF r
  <2>14. \A l \in log \cup seen : l.stamp <= stamp + 1
    BY <1>t, <2>6
  <2> QED
    BY <2>2, <2>12, <2>13, <2>14, ApplyAccount DEF AccountInv
<1>3. CASE GitChange
  <2>1. EngineAccount(ObserveGitChange(eng, now), Returned, nextId, log, starts, now)
    BY <1>t, ObserveGitChangeAccount
  <2>2. /\ eng' = ObserveGitChange(eng, now)
        /\ UNCHANGED <<now, closed, nextId, stamp, log, starts>>
    BY <1>3 DEF GitChange
  <2> QED
    BY <1>t, <2>1, <2>2 DEF AccountInv, Returned
<1>4. ASSUME NEW tool \in Tools, NEW k \in EmitterTurns \cup {None},
             Start(tool, k)
      PROVE  AccountInv'
  <2> DEFINE r == ObserveStart(eng, now, tool, k, nextId)
  <2>1. nextId \in Ids
    BY <1>4 DEF Start, TypeOK, Ids
  <2>2. /\ Apply(r) /\ starts' = starts \cup {[id |-> nextId, at |-> now]}
        /\ UNCHANGED <<now, stamp, log>>
    BY <1>4 DEF Start
  <2>3. EngineAccount(r.eng, Returned \cup Range(r.closed), nextId + 1, log,
                      starts \cup {[id |-> nextId, at |-> now]}, now)
    BY <1>t, <2>1, ObserveStartAccount
  <2>4. r.closed \in Seq(ClosedTurns) /\ r.reserved
    BY <1>t, <2>1, ObserveStartType DEF ResultOK, ObserveStart, Result
  <2> HIDE DEF r
  <2> QED
    BY <1>t, <2>2, <2>3, <2>4, ApplyAccount DEF AccountInv
<1>5. ASSUME NEW tool \in Tools, NEW k \in EmitterTurns \cup {None},
             Stop(tool, k)
      PROVE  AccountInv'
  <2> DEFINE r == ObserveStop(eng, now, tool, nextId)
  <2>1. nextId \in Ids
    BY <1>5 DEF Stop, TypeOK, Ids
  <2>2. Apply(r) /\ UNCHANGED <<now, stamp, log, starts>>
    BY <1>5 DEF Stop
  <2>3. EngineAccount(r.eng, Returned \cup Range(r.closed),
                      IF r.reserved THEN nextId + 1 ELSE nextId, log, starts, now)
    BY <1>t, <2>1, ObserveStopAccount
  <2>4. r.closed \in Seq(ClosedTurns)
    BY <1>t, <2>1, ObserveStopType DEF ResultOK
  <2> HIDE DEF r
  <2> QED
    BY <1>t, <2>2, <2>3, <2>4, ApplyAccount DEF AccountInv
<1>6. CASE TickNow
  <2> DEFINE r == Tick(eng, now)
  <2>1. Apply(r) /\ UNCHANGED <<now, stamp, log, starts>>
    BY <1>6 DEF TickNow
  <2>2. EngineAccount(r.eng, Returned \cup Range(r.closed), nextId, log, starts, now)
    BY <1>t, TickAccount
  <2>3. r.closed \in Seq(ClosedTurns) /\ ~r.reserved
    BY <1>t, TickType DEF ResultOK, Tick, Result
  <2> HIDE DEF r
  <2> QED
    BY <1>t, <2>1, <2>2, <2>3, ApplyAccount DEF AccountInv
<1>7. CASE Shutdown
  <2> DEFINE r == ForceClose(eng, now)
  <2>1. Apply(r) /\ UNCHANGED <<now, stamp, log, starts>>
    BY <1>7 DEF Shutdown
  <2>2. EngineAccount(r.eng, Returned \cup Range(r.closed), nextId, log, starts, now)
    BY <1>t, ForceCloseAccount
  <2>3. r.closed \in Seq(ClosedTurns) /\ ~r.reserved
    BY <1>t, ForceCloseType DEF ResultOK, ForceClose, Result
  <2> HIDE DEF r
  <2> QED
    BY <1>t, <2>1, <2>2, <2>3, ApplyAccount DEF AccountInv
<1>8. CASE UNCHANGED vars
  BY <1>8 DEF vars, AccountInv, EngineAccount, Returned
<1> QED
  BY <1>1, <1>2, <1>3, <1>4, <1>5, <1>6, <1>7, <1>8 DEF Next

LEMMA AccountAlways == Spec => []AccountInv
<1>1. Init => AccountInv
  BY InitAccount
<1>2. TypeOK /\ AccountInv /\ [Next]_vars => AccountInv'
  BY StepAccount
<1>3. Spec => []TypeOK
  BY TypeCorrect
<1> QED
  BY <1>1, <1>2, <1>3, PTL DEF Spec

-----------------------------------------------------------------------------
(* What follows from the account. *)

(* No observation is lost or counted twice: each is held by the open turn  *)
(* or by exactly one closed turn, through every conversion, fold and git   *)
(* transition.                                                             *)
THEOREM NothingIsLost == Spec => []NothingLost
<1>1. AccountInv => NothingLost
  <2> SUFFICES ASSUME AccountInv, NEW l \in log
               PROVE  LET holders == {t \in AllClosed : t.id = l.turn}
                      IN IF eng.open # None /\ eng.open.id = l.turn
                         THEN holders = {} /\ l.path \in DOMAIN eng.open.files
                         ELSE /\ Cardinality(holders) = 1
                              /\ \A t \in holders : l.path \in DOMAIN t.files
    BY DEF NothingLost
  <2> DEFINE holders == {t \in AllClosed : t.id = l.turn}
  <2>1. Account(eng.open, eng.recentBare, AllClosed, nextId, log, starts, now)
    BY DEF AccountInv, EngineAccount, AllClosed
  <2>2. CASE eng.open # None /\ eng.open.id = l.turn
    <3>1. /\ \A c \in AllClosed : eng.open.id \notin Family(c)
          /\ l.path \in DOMAIN eng.open.files
      BY <2>1, <2>2 DEF Account, OpenAccount, Own
    <3>2. holders = {}
      BY <2>2, <3>1 DEF Family
    <3> QED
      BY <2>2, <3>1, <3>2
  <2>3. CASE ~(eng.open # None /\ eng.open.id = l.turn)
    <3>1. PICK c \in AllClosed : c.id = l.turn
      BY <2>1, <2>3 DEF Account
    <3>2. holders = {c}
      BY <2>1, <3>1 DEF Account
    <3>3. Cardinality(holders) = 1
      BY <3>2, FS_Singleton
    <3>4. l.path \in DOMAIN c.files
      BY <2>1, <3>1 DEF Account, ClosedAccount
    <3> QED
      BY <2>3, <3>2, <3>3, <3>4
  <2> QED
    BY <2>2, <2>3
<1> QED
  BY <1>1, AccountAlways, PTL

(* The `before` of a path is what the family of the turn observed first,   *)
(* and a turn that folded nothing has its last observed status.            *)
THEOREM FilesMatch == Spec => []FilesMatchObservations
<1>1. AccountInv => FilesMatchObservations
  <2> SUFFICES ASSUME AccountInv, NEW t \in AllClosed, NEW p \in DOMAIN t.files
               PROVE  LET obs == ObservedBy(Family(t), p)
                      IN /\ obs # {}
                         /\ t.files[p].before = First(obs).stamp
                         /\ t.merges = {} => t.files[p].status = Last(obs).status
    BY DEF FilesMatchObservations
  <2> DEFINE obs == ObservedBy(Family(t), p)
  <2>1. obs = Under(log, Family(t), p)
    BY DEF ObservedBy, Under
  <2>2. /\ LogOK(log, nextId) /\ ClosedAccount(t, AllClosed, nextId, log, starts)
    BY DEF AccountInv, EngineAccount, AllClosed, Account
  <2>3. /\ FirstStamp(obs, t.files[p].before)
        /\ t.merges = {} => LastStatus(obs, t.files[p].status)
    BY <2>1, <2>2 DEF ClosedAccount
  <2>4. /\ \A l \in obs : l.stamp \in Nat
        /\ \A l, m \in obs : l.stamp = m.stamp => l = m
    BY <2>2 DEF ObservedBy, LogOK
  <2> HIDE DEF obs
  <2>5. PICK f \in obs : f.stamp = t.files[p].before
    BY <2>3 DEF FirstStamp
  <2>6. First(obs) = f
    <3>1. \A m \in obs : f.stamp <= m.stamp
      BY <2>3, <2>5 DEF FirstStamp
    <3>2. First(obs) \in obs /\ \A m \in obs : First(obs).stamp <= m.stamp
      BY <3>1 DEF First
    <3>3. First(obs).stamp = f.stamp
      BY <2>4, <3>1, <3>2
    <3> QED
      BY <2>4, <3>2, <3>3
  <2>7. ASSUME t.merges = {}
        PROVE  t.files[p].status = Last(obs).status
    <3>1. PICK z \in obs : /\ z.status = t.files[p].status
                           /\ \A m \in obs : m.stamp <= z.stamp
      BY <2>3, <2>7 DEF LastStatus
    <3>2. \A m \in obs : z.stamp >= m.stamp
      BY <2>4, <3>1
    <3>3. Last(obs) \in obs /\ \A m \in obs : Last(obs).stamp >= m.stamp
      BY <3>2 DEF Last
    <3>4. Last(obs).stamp = z.stamp
      BY <2>4, <3>2, <3>3
    <3>5. Last(obs) = z
      BY <2>4, <3>3, <3>4
    <3> QED
      BY <3>1, <3>5
  <2> QED
    BY <2>5, <2>6, <2>7 DEF obs
<1> QED
  BY <1>1, AccountAlways, PTL

(* A tool is never given work older than the fold window, work that        *)
(* precedes the start of its bracket, or a fragment that had closed before *)
(* its bracket started.                                                    *)
THEOREM NothingFabricated == Spec => []NoFabricatedAttribution
<1>1. AccountInv => NoFabricatedAttribution
  <2>1. ASSUME AccountInv, NEW t \in AllClosed
        PROVE  Fair(t, AllClosed, log, starts)
    BY <2>1 DEF AccountInv, EngineAccount, AllClosed, Account, ClosedAccount
  <2> QED
    BY <2>1 DEF Fair, NoFabricatedAttribution
<1> QED
  BY <1>1, AccountAlways, PTL

=============================================================================
