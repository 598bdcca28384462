------------------------------ MODULE UndoProofs ------------------------------
(***************************************************************************)
(* UndoCoordinator implements OneTimeGrants, for any number of processes,  *)
(* files, rows and crashes.                                                *)
(***************************************************************************)
EXTENDS UndoCoordinator, SequenceTheorems, FiniteSetTheorems, TLAPS

(* The ledger: a grant has the next number, every other row resolves a     *)
(* grant, and only a token is consumed.                                    *)
LedgerOK ==
  /\ ledger \in Seq(Range(ledger))
  /\ IsFiniteSet(Grants) /\ Cardinality(Grants) <= Len(ledger)
  /\ \A r \in Grants : /\ r.id \in 1 .. Cardinality(Grants)
                       /\ r.paths \subseteq Paths /\ r.expires \in Nat /\ r.allow \in BOOLEAN
                       /\ "consume" \in Events(r.id) => r.event = "reserve"
  /\ \A r, s \in Grants : r.id = s.id => r = s
  /\ \A x \in Range(ledger) : \E r \in Grants : r.id = x.id

(* Those about to append a grant, which was begun within the bound.        *)
Asking == {p \in Procs : proc[p].pc \in {"reserve", "request"}}
RoomForGrants == Cardinality(Grants) + Cardinality(Asking) <= MaxRows + Cardinality(Procs)

TouchedOK == \A w \in touched : w[1] # 0 => \E r \in Grants : r.id = w[1]

States == [ pc : PCs, grant : Nat, paths : SUBSET Paths, allow : BOOLEAN,
            todo : SUBSET Paths, done : SUBSET Paths, since : Nat ]

(* Who works for a grant holds the lock until it lingers, works on the     *)
(* files of the grant, and has spent a token before it looks at the guard  *)
(* for the last time.                                                      *)
Working(p) ==
  /\ proc[p].pc \notin {"idle", "reserve", "request"}
  /\ proc[p].pc # "linger" => lock = p
  /\ \E r \in Grants :
       /\ r.id = proc[p].grant /\ r.paths = proc[p].paths
       /\ proc[p].pc \in {"guard", "consume"} => r.event = "reserve"
       /\ proc[p].pc \in {"scope", "guard", "consume"} =>
            "consume" \notin Events(r.id)
       /\ proc[p].pc \notin {"scope", "guard", "consume"} /\ r.event = "reserve" =>
            "consume" \in Events(r.id)
       /\ proc[p].pc = "execrow" =>
            \E t \in Range(log) : t.grant = r.id /\ ~t.truncated /\ t.paths = r.paths

(* Who holds the lock without a grant is about to lodge a request.         *)
NotWorking(p) ==
  /\ proc[p].pc \notin {"scope", "guard", "consume", "failrow", "execrow"}
  /\ proc[p].pc = "request" <=> lock = p

ProcOK(p) ==
  /\ IF proc[p].grant = 0 THEN NotWorking(p) ELSE Working(p)
  /\ proc[p].pc \in {"scope", "guard", "consume", "recheck", "arm"} =>
       proc[p].done = {}
  /\ proc[p].pc = "write" => proc[p].todo \cup proc[p].done = proc[p].paths

UndoInv ==
  /\ inst \in Instances /\ clock \in Nat /\ lock \in Procs \cup {None}
  /\ proc \in [Procs -> States] /\ log \in Seq(Range(log))
  /\ LedgerOK /\ RoomForGrants /\ TouchedOK /\ ExecutedIsRecorded
  /\ \A p \in Procs : ProcOK(p)

-----------------------------------------------------------------------------
(* What an append does to the ledger.                                      *)

LEMMA RangeAppend ==
  ASSUME NEW S, NEW s \in Seq(S), NEW x
  PROVE  /\ Range(Append(s, x)) = Range(s) \cup {x}
         /\ Append(s, x) \in Seq(S \cup {x})
         /\ Len(Append(s, x)) = Len(s) + 1
<1>1. /\ DOMAIN s = 1 .. Len(s) /\ Len(s) \in Nat
      /\ s \in Seq(S \cup {x}) /\ x \in S \cup {x}
  BY SeqMonotonic, LenProperties
<1>2. /\ Append(s, x) \in Seq(S \cup {x}) /\ Len(Append(s, x)) = Len(s) + 1
      /\ \A i \in 1 .. Len(s) : Append(s, x)[i] = s[i]
      /\ Append(s, x)[Len(s) + 1] = x
  BY <1>1, AppendProperties
<1>3. DOMAIN Append(s, x) = 1 .. Len(s) + 1
  BY <1>2, LenProperties
<1> QED
  BY <1>1, <1>2, <1>3 DEF Range

LEMMA Appended ==
  ASSUME LedgerOK, NEW row, Append1(row)
  PROVE  /\ Range(ledger)' = Range(ledger) \cup {row}
         /\ ledger' \in Seq(Range(ledger)') /\ Len(ledger') = Len(ledger) + 1
         /\ Len(ledger) \in Nat
         /\ Grants' = IF row.event \in Reserving THEN Grants \cup {row} ELSE Grants
         /\ \A id : Events(id)' = IF row.id = id THEN Events(id) \cup {row.event}
                                                 ELSE Events(id)
<1>1. ledger \in Seq(Range(ledger)) /\ ledger' = Append(ledger, row)
  BY DEF LedgerOK, Append1
<1>2. /\ Range(ledger)' = Range(ledger) \cup {row}
      /\ ledger' \in Seq(Range(ledger) \cup {row}) /\ Len(ledger') = Len(ledger) + 1
      /\ Len(ledger) \in Nat
  BY <1>1, RangeAppend, LenProperties
<1>3. Grants' = IF row.event \in Reserving THEN Grants \cup {row} ELSE Grants
  BY <1>2 DEF Grants
<1>4. ASSUME NEW id
      PROVE  Events(id)' = IF row.id = id THEN Events(id) \cup {row.event}
                                          ELSE Events(id)
  <2>1. CASE row.id = id
    BY <1>2, <2>1 DEF Events
  <2>2. CASE row.id # id
    BY <1>2, <2>2 DEF Events
  <2> QED
    BY <2>1, <2>2
<1> QED
  BY <1>2, <1>3, <1>4

(* Grant finds the grant of an id.                                         *)
LEMMA GrantOf ==
  ASSUME LedgerOK, NEW r \in Grants
  PROVE  Grant(r.id) = r
BY DEF LedgerOK, Grant

(* A reservation or a request: one more grant, with a number of its own.   *)
LEMMA Granted ==
  ASSUME LedgerOK, NEW row, Append1(row), row.event \in Reserving, row.id = NewId,
         row.paths \subseteq Paths, row.expires \in Nat, row.allow \in BOOLEAN
  PROVE  /\ LedgerOK'
         /\ row \notin Grants /\ Grants' = Grants \cup {row}
         /\ row.id = Cardinality(Grants) + 1 /\ Cardinality(Grants) \in Nat
         /\ Cardinality(Grants)' = Cardinality(Grants) + 1
         /\ \A r \in Grants : r.id # row.id /\ Events(r.id)' = Events(r.id)
         /\ Events(row.id)' = {row.event}
<1>1. /\ IsFiniteSet(Grants) /\ Cardinality(Grants) \in Nat
      /\ NewId = Cardinality(Grants) + 1
  BY FS_CardinalityType DEF LedgerOK, NewId
<1>2. \A r \in Grants : r.id # row.id
  BY <1>1 DEF LedgerOK
<1>4. row \notin Grants /\ Grants' = Grants \cup {row}
  BY <1>2, Appended
<1>5. Cardinality(Grants)' = Cardinality(Grants) + 1 /\ IsFiniteSet(Grants)'
  BY <1>1, <1>4, FS_AddElement
<1>6. \A r \in Grants : Events(r.id)' = Events(r.id)
  <2> TAKE r \in Grants
  <2>1. r.id # row.id
    BY <1>2
  <2> QED
    BY <2>1, Appended
<1>7. Events(row.id)' = {row.event}
  <2>1. Events(row.id) = {}
    BY <1>2 DEF LedgerOK, Events
  <2> QED
    BY <2>1, Appended
<1>8. /\ ledger' \in Seq(Range(ledger)') /\ Len(ledger') = Len(ledger) + 1
      /\ Range(ledger)' = Range(ledger) \cup {row} /\ Len(ledger) \in Nat
  BY Appended
<1>9. LedgerOK'
  <2>1. ledger' \in Seq(Range(ledger)') /\ IsFiniteSet(Grants)'
    BY <1>5, <1>8
  <2>2. Cardinality(Grants)' <= Len(ledger')
    BY <1>1, <1>5, <1>8 DEF LedgerOK
  <2>3. ASSUME NEW r \in Grants'
        PROVE  /\ r.id \in 1 .. Cardinality(Grants)'
               /\ r.paths \subseteq Paths /\ r.expires \in Nat /\ r.allow \in BOOLEAN
               /\ "consume" \in Events(r.id)' => r.event = "reserve"
    <3>1. CASE r = row
      BY <3>1, <1>1, <1>5, <1>7 DEF Reserving
    <3>2. CASE r \in Grants
      BY <3>2, <1>1, <1>5, <1>6 DEF LedgerOK
    <3> QED
      BY <3>1, <3>2, <1>4
  <2>4. \A r, s \in Grants' : r.id = s.id => r = s
    BY <1>2, <1>4 DEF LedgerOK
  <2>5. \A x \in Range(ledger)' : \E r \in Grants' : r.id = x.id
    BY <1>4, <1>8 DEF LedgerOK
  <2> QED
    BY <2>1, <2>2, <2>3, <2>4, <2>5 DEF LedgerOK
<1> QED
  BY <1>1, <1>2, <1>4, <1>5, <1>6, <1>7, <1>9

(* Any other row: the same grants, one of which has one event more.        *)
LEMMA Resolved ==
  ASSUME LedgerOK, NEW r \in Grants, NEW event \in Terminal \cup {"consume"},
         event = "consume" => r.event = "reserve",
         Append1(Resolution(event, r))
  PROVE  /\ LedgerOK' /\ Grants' = Grants
         /\ Events(r.id)' = Events(r.id) \cup {event}
         /\ \A s \in Grants : s.id # r.id => Events(s.id)' = Events(s.id)
<1> DEFINE row == Resolution(event, r)
<1>0. row.id = r.id /\ row.event = event /\ row.event \notin Reserving
  BY DEF Resolution, Row, Reserving, Terminal
<1> HIDE DEF row
<1>1. Append1(row)
  BY DEF row
<1>2. /\ Grants' = Grants /\ Range(ledger)' = Range(ledger) \cup {row}
      /\ ledger' \in Seq(Range(ledger)') /\ Len(ledger') = Len(ledger) + 1
      /\ Len(ledger) \in Nat
  BY <1>0, <1>1, Appended
<1>3. Events(r.id)' = Events(r.id) \cup {event}
  BY <1>0, <1>1, Appended
<1>4. ASSUME NEW s \in Grants, s.id # r.id PROVE Events(s.id)' = Events(s.id)
  BY <1>0, <1>1, <1>4, Appended
<1>5. LedgerOK'
  <2>1. Cardinality(Grants)' <= Len(ledger')
    BY <1>2, FS_CardinalityType DEF LedgerOK
  <2>2. ASSUME NEW s \in Grants'
        PROVE  /\ s.id \in 1 .. Cardinality(Grants)'
               /\ s.paths \subseteq Paths /\ s.expires \in Nat /\ s.allow \in BOOLEAN
               /\ "consume" \in Events(s.id)' => s.event = "reserve"
    BY <1>2, <1>3, <1>4 DEF LedgerOK, Terminal
  <2>3. \A x \in Range(ledger)' : \E s \in Grants' : s.id = x.id
    BY <1>0, <1>2 DEF LedgerOK
  <2> QED
    BY <1>2, <2>1, <2>2, <2>3 DEF LedgerOK
<1> QED
  BY <1>2, <1>3, <1>4, <1>5

-----------------------------------------------------------------------------
(* What a step of one process leaves to the others.                        *)

LockMoves(p) == lock' # lock => {lock, lock'} \subseteq {None, p}

LogGrows == log' = log \/ \E t : log' = Append(log, t)

Asks(s) == s.pc \in {"reserve", "request"}

LedgerGrows(p) ==
  /\ LedgerOK' /\ Grants \subseteq Grants'
  /\ \A r \in Grants :
       /\ Events(r.id) \subseteq Events(r.id)'
       /\ "consume" \in Events(r.id)' => "consume" \in Events(r.id) \/ lock = p

LEMMA LogMonotone ==
  ASSUME log \in Seq(Range(log)), LogGrows
  PROVE  log' \in Seq(Range(log)') /\ Range(log) \subseteq Range(log)'
<1>1. CASE log' = log
  BY <1>1
<1>2. ASSUME NEW t, log' = Append(log, t)
      PROVE  log' \in Seq(Range(log)') /\ Range(log) \subseteq Range(log)'
  <2>1. /\ Range(Append(log, t)) = Range(log) \cup {t}
        /\ Append(log, t) \in Seq(Range(log) \cup {t})
    BY RangeAppend
  <2> QED
    BY <1>2, <2>1
<1> QED
  BY <1>1, <1>2 DEF LogGrows

LEMMA Others ==
  ASSUME UndoInv, NEW p \in Procs, NEW q \in Procs \ {p},
         proc'[q] = proc[q], LockMoves(p), LedgerGrows(p), LogGrows
  PROVE  ProcOK(q)'
<1>1. ProcOK(q) /\ q # None
  BY ProcsAssumption DEF UndoInv
<1>2. Range(log) \subseteq Range(log)'
  BY LogMonotone DEF UndoInv
<1>3. lock = q <=> lock' = q
  BY <1>1 DEF LockMoves
<1>4. CASE proc[q].grant = 0
  BY <1>1, <1>3, <1>4 DEF ProcOK, NotWorking
<1>5. CASE proc[q].grant # 0
  <2>1. PICK r \in Grants :
       /\ r.id = proc[q].grant /\ r.paths = proc[q].paths
       /\ proc[q].pc \in {"guard", "consume"} => r.event = "reserve"
       /\ proc[q].pc \in {"scope", "guard", "consume"} =>
            "consume" \notin Events(r.id)
       /\ proc[q].pc \notin {"scope", "guard", "consume"} /\ r.event = "reserve" =>
            "consume" \in Events(r.id)
       /\ proc[q].pc = "execrow" =>
            \E t \in Range(log) : t.grant = r.id /\ ~t.truncated /\ t.paths = r.paths
    BY <1>1, <1>5 DEF ProcOK, Working
  <2>2. r \in Grants' /\ Events(r.id) \subseteq Events(r.id)'
    BY DEF LedgerGrows
  <2>3. proc[q].pc \in {"scope", "guard", "consume"} => lock = q
    BY <1>1, <1>5 DEF ProcOK, Working
  <2>4. proc[q].pc \in {"scope", "guard", "consume"} => "consume" \notin Events(r.id)'
    BY <2>1, <2>3 DEF LedgerGrows
  <2>5. Working(q)'
    BY <1>1, <1>2, <1>3, <1>5, <2>1, <2>2, <2>4 DEF ProcOK, Working
  <2> QED
    BY <1>1, <1>5, <2>5 DEF ProcOK
<1> QED
  BY <1>4, <1>5

(* Grants are asked for within the bound on rows.                          *)
LEMMA Room ==
  ASSUME UndoInv, NEW p \in Procs, NEW s, Become(p, s), LedgerOK',
         \/ Grants' = Grants /\ (Asks(s) => Len(ledger) < MaxRows)
         \/ /\ Cardinality(Grants)' = Cardinality(Grants) + 1
            /\ p \in Asking /\ ~Asks(s)
  PROVE  RoomForGrants'
<1>1. /\ IsFiniteSet(Procs) /\ IsFiniteSet(Asking) /\ IsFiniteSet(Asking')
      /\ Cardinality(Procs) \in Nat
      /\ Cardinality(Asking) \in Nat /\ Cardinality(Asking') \in Nat
      /\ Cardinality(Asking') <= Cardinality(Procs)
      /\ Cardinality(Grants) \in Nat /\ Cardinality(Grants) <= Len(ledger)
      /\ Len(ledger) \in Nat /\ MaxRows \in Nat
  BY ProcsAssumption, BoundsAssumption, FS_Subset, FS_CardinalityType, LenProperties
     DEF Asking, UndoInv, LedgerOK
<1>2. /\ RoomForGrants
      /\ \A q \in Procs : proc'[q] = IF q = p THEN s ELSE proc[q]
  BY DEF UndoInv, Become
<1>3. CASE Grants' = Grants /\ Asks(s)
  BY <1>1, <1>3 DEF RoomForGrants
<1>4. CASE Grants' = Grants /\ ~Asks(s)
  <2>1. Asking' \subseteq Asking
    BY <1>2, <1>4 DEF Asking, Asks
  <2>2. Cardinality(Asking') <= Cardinality(Asking)
    BY <1>1, <2>1, FS_Subset
  <2> QED
    BY <1>1, <1>2, <1>4, <2>2 DEF RoomForGrants
<1>5. CASE /\ Cardinality(Grants)' = Cardinality(Grants) + 1
           /\ p \in Asking /\ ~Asks(s)
  <2>1. Asking' = Asking \ {p}
    BY <1>2, <1>5 DEF Asking, Asks
  <2>2. Cardinality(Asking') = Cardinality(Asking) - 1
    BY <1>1, <1>5, <2>1, FS_RemoveElement
  <2> QED
    BY <1>1, <1>2, <1>5, <2>2 DEF RoomForGrants
<1> QED
  BY <1>3, <1>4, <1>5

(* A step of p that is right for p itself preserves the whole invariant.   *)
LEMMA Step ==
  ASSUME UndoInv, NEW p \in Procs, NEW s \in States, Become(p, s), ProcOK(p)',
         inst' = inst, clock' = clock, LockMoves(p), LogGrows, LedgerGrows(p),
         RoomForGrants', ExecutedIsRecorded',
         \A w \in touched' : w \in touched \/ w[1] = proc[p].grant
  PROVE  UndoInv'
<1>1. /\ inst \in Instances /\ clock \in Nat /\ lock \in Procs \cup {None}
      /\ proc \in [Procs -> States] /\ TouchedOK
      /\ log \in Seq(Range(log))
  BY DEF UndoInv
<1>2. /\ proc' \in [Procs -> States]
      /\ \A q \in Procs \ {p} : proc'[q] = proc[q]
  BY <1>1 DEF Become
<1>3. \A q \in Procs : ProcOK(q)'
  BY <1>2, Others
<1>4. lock' \in Procs \cup {None}
  BY <1>1 DEF LockMoves
<1>5. TouchedOK'
  <2>1. Grants \subseteq Grants'
    BY DEF LedgerGrows
  <2>2. proc[p].grant # 0 => \E r \in Grants : r.id = proc[p].grant
    BY DEF UndoInv, ProcOK, Working
  <2> QED
    BY <1>1, <2>1, <2>2 DEF TouchedOK
<1>6. log' \in Seq(Range(log)')
  BY <1>1, LogMonotone
<1>7. LedgerOK'
  BY DEF LedgerGrows
<1> QED
  BY <1>1, <1>2, <1>3, <1>4, <1>5, <1>6, <1>7 DEF UndoInv

(* ... without a row in the ledger ...                                     *)
LEMMA QuietStep ==
  ASSUME UndoInv, NEW p \in Procs, NEW s \in States, Become(p, s), ProcOK(p)',
         UNCHANGED <<inst, ledger, clock>>, LockMoves(p), LogGrows,
         Asks(s) => Len(ledger) < MaxRows,
         \A w \in touched' : w \in touched \/ w[1] = proc[p].grant
  PROVE  UndoInv'
<1>1. Grants' = Grants /\ LedgerGrows(p)
  BY DEF UndoInv, LedgerOK, LedgerGrows, Grants, Events
<1>2. RoomForGrants'
  BY <1>1, Room DEF LedgerGrows
<1>3. ExecutedIsRecorded'
  BY LogMonotone DEF UndoInv, ExecutedIsRecorded, Grants, Events
<1> QED
  BY <1>1, <1>2, <1>3, Step

(* ... with one that resolves a grant ...                                  *)
LEMMA ResolveStep ==
  ASSUME UndoInv, NEW p \in Procs, NEW s \in States, Become(p, s), ProcOK(p)',
         UNCHANGED <<inst, clock, touched, log>>, LockMoves(p), ~Asks(s),
         NEW r \in Grants, NEW event \in Terminal \cup {"consume"},
         Append1(Resolution(event, r)),
         event = "consume" => r.event = "reserve" /\ lock = p,
         event = "execute" =>
           \E t \in Range(log) : t.grant = r.id /\ ~t.truncated /\ t.paths = r.paths
  PROVE  UndoInv'
<1>1. /\ LedgerOK' /\ Grants' = Grants
      /\ Events(r.id)' = Events(r.id) \cup {event}
      /\ \A x \in Grants : x.id # r.id => Events(x.id)' = Events(x.id)
  BY Resolved DEF UndoInv
<1>2. LedgerGrows(p)
  BY <1>1 DEF LedgerGrows
<1>3. RoomForGrants'
  BY <1>1, Room
<1>4. ExecutedIsRecorded'
  <2>1. \A x \in Grants : x.id = r.id => x = r
    BY DEF UndoInv, LedgerOK
  <2> QED
    BY <1>1, <2>1 DEF ExecutedIsRecorded, UndoInv
<1> QED
  BY <1>2, <1>3, <1>4, Step DEF LogGrows

(* ... and with one that is a grant.                                       *)
LEMMA GrantStep ==
  ASSUME UndoInv, NEW p \in Asking, Become(p, Idle), Idle \in States, ProcOK(p)',
         UNCHANGED <<inst, clock, touched, log>>, LockMoves(p),
         NEW row, Append1(row), row.event \in Reserving, row.id = NewId,
         row.paths \subseteq Paths, row.expires \in Nat, row.allow \in BOOLEAN
  PROVE  UndoInv'
<1>1. /\ LedgerOK' /\ Grants' = Grants \cup {row}
      /\ Cardinality(Grants)' = Cardinality(Grants) + 1
      /\ \A r \in Grants : Events(r.id)' = Events(r.id)
      /\ Events(row.id)' = {row.event}
  BY Granted DEF UndoInv
<1>2. LedgerGrows(p)
  BY <1>1 DEF LedgerGrows
<1>3. p \in Procs /\ ~Asks(Idle)
  BY DEF Asking, Asks, Idle
<1>4. RoomForGrants'
  BY <1>1, <1>3, Room
<1>5. ExecutedIsRecorded'
  BY <1>1 DEF ExecutedIsRecorded, UndoInv, Reserving
<1> QED
  BY <1>2, <1>3, <1>4, <1>5, Step DEF LogGrows
-----------------------------------------------------------------------------
(* Every action preserves the invariant.                                   *)

LEMMA IdleType == Idle \in States
BY DEF Idle, States, PCs

(* What UndoInv says of one process.                                       *)
LEMMA Facts ==
  ASSUME UndoInv, NEW p \in Procs
  PROVE  /\ ProcOK(p) /\ proc[p] \in States /\ p # None
         /\ clock \in Nat /\ inst \in Instances /\ lock \in Procs \cup {None}
         /\ DOMAIN proc = Procs /\ proc \in [Procs -> States]
         /\ Selections \subseteq SUBSET Paths
BY ProcsAssumption, InstancesAssumption DEF UndoInv, Selections

LEMMA NotHolding ==
  ASSUME UndoInv, NEW p \in Procs, At(p, "idle")
  PROVE  proc[p].grant = 0 /\ lock # p
BY Facts DEF ProcOK, NotWorking, Working, At

LEMMA InitInv == Init => UndoInv
<1> SUFFICES ASSUME Init PROVE UndoInv
  OBVIOUS
<1>1. Range(ledger) = {} /\ Range(log) = {} /\ Grants = {} /\ Asking = {}
  BY DEF Init, Range, Grants, Asking, Idle
<1>2. Cardinality(Grants) = 0 /\ IsFiniteSet(Grants) /\ Cardinality(Asking) = 0
  BY <1>1, FS_EmptySet
<1>3. LedgerOK
  BY <1>1, <1>2 DEF Init, LedgerOK
<1>4. RoomForGrants
  BY <1>2, BoundsAssumption, ProcsAssumption, FS_CardinalityType DEF RoomForGrants
<1>5. proc \in [Procs -> States] /\ \A p \in Procs : proc[p] = Idle
  BY IdleType DEF Init
<1>6. \A p \in Procs : ProcOK(p)
  BY <1>5, ProcsAssumption DEF ProcOK, NotWorking, Idle, Init
<1>7. TouchedOK /\ ExecutedIsRecorded
  BY <1>1 DEF Init, TouchedOK, ExecutedIsRecorded
<1> QED
  BY <1>1, <1>3, <1>4, <1>5, <1>6, <1>7 DEF Init, UndoInv

LEMMA PreviewInv ==
  ASSUME UndoInv, UNCHANGED inst, NEW p \in Procs, Len(ledger) < MaxRows,
         NEW P \in Selections, Preview(p, P)
  PROVE  UndoInv'
<1> DEFINE s == [Idle EXCEPT !.pc = "reserve", !.paths = Plan(P, FALSE)]
<1>1. s \in States
  BY Facts DEF States, Idle, PCs, Plan
<1>2. Become(p, s)
  BY DEF Preview
<1>3. proc'[p] = s /\ lock' = lock /\ lock # p
  BY Facts, NotHolding DEF Preview, Become
<1>4. s.grant = 0 /\ s.done = {} /\ s.pc = "reserve"
  BY DEF Idle
<1> HIDE DEF s
<1>5. ProcOK(p)'
  BY <1>3, <1>4 DEF ProcOK, NotWorking
<1> QED
  BY <1>1, <1>2, <1>4, <1>5, QuietStep DEF Preview, LockMoves, LogGrows

LEMMA RequestInv ==
  ASSUME UndoInv, UNCHANGED inst, NEW p \in Procs, Len(ledger) < MaxRows,
         NEW P \in Selections, NEW allow \in BOOLEAN, Request(p, P, allow)
  PROVE  UndoInv'
<1> DEFINE s == [Idle EXCEPT !.pc = "request", !.paths = Plan(P, allow),
                             !.allow = allow]
<1>1. s \in States
  BY Facts DEF States, Idle, PCs, Plan
<1>2. ProcOK(p)'
  BY Facts, <1>1 DEF ProcOK, NotWorking, Request, Free, At, Become, Idle
<1>3. Become(p, s)
  BY DEF Request
<1> QED
  BY <1>1, <1>2, <1>3, QuietStep DEF Request, Free, LockMoves, LogGrows

LEMMA UndoStepInv ==
  ASSUME UndoInv, UNCHANGED inst, NEW p \in Procs,
         NEW P \in Selections, NEW allow \in BOOLEAN, Undo(p, P, allow)
  PROVE  UndoInv'
<1> DEFINE s == [Idle EXCEPT !.pc = "recheck", !.paths = Plan(P, allow),
                             !.allow = allow]
<1>1. s \in States /\ ~Asks(s)
  BY Facts DEF States, Idle, PCs, Plan, Asks
<1>2. Become(p, s)
  BY DEF Undo
<1>3. proc'[p] = s /\ lock' = lock /\ lock # p
  BY Facts, NotHolding DEF Undo, Become
<1>4. s.grant = 0 /\ s.done = {} /\ s.pc = "recheck"
  BY DEF Idle
<1> HIDE DEF s
<1>5. ProcOK(p)'
  BY <1>3, <1>4 DEF ProcOK, NotWorking
<1> QED
  BY <1>1, <1>2, <1>5, QuietStep DEF Undo, LockMoves, LogGrows

(* A grant whose holder died, or that expired or failed, is resolved with  *)
(* nobody at work.                                                         *)
LEMMA ResolveIdle ==
  ASSUME UndoInv, UNCHANGED <<inst, clock, touched, log, lock, proc>>, NEW p \in Procs,
         lock = None, At(p, "idle"),
         NEW r \in Grants, NEW event \in {"fail", "expire", "deny"},
         Append1(Resolution(event, r))
  PROVE  UndoInv'
<1>1. proc[p] \in States /\ Become(p, proc[p]) /\ ~Asks(proc[p])
  BY Facts DEF Become, Asks, At
<1>2. ProcOK(p)'
  BY Facts DEF ProcOK, NotWorking, Working, At
<1>3. event \in Terminal \cup {"consume"} /\ event # "consume" /\ event # "execute"
  BY DEF Terminal
<1> QED
  BY <1>1, <1>2, <1>3, ResolveStep DEF LockMoves

LEMMA ClaimInv ==
  ASSUME UndoInv, UNCHANGED <<inst, clock, touched, log>>, NEW p \in Procs,
         lock = None, At(p, "idle"), NEW r \in Grants,
         "consume" \notin Events(r.id), ClaimGrant(p, r)
  PROVE  UndoInv'
<1>1. CASE \E q \in r.paths : work[q] # r.hashes[q]
  BY <1>1, ResolveIdle DEF ClaimGrant
<1>2. CASE ~\E q \in r.paths : work[q] # r.hashes[q]
  <2> DEFINE s == [Idle EXCEPT !.pc = "scope", !.grant = r.id,
                               !.paths = r.paths, !.allow = r.allow]
  <2>1. Become(p, s) /\ lock' = p /\ UNCHANGED ledger
    BY <1>2 DEF ClaimGrant
  <2>2. r.id \in Nat \ {0} /\ r.paths \subseteq Paths /\ r.allow \in BOOLEAN
    BY FS_CardinalityType DEF UndoInv, LedgerOK
  <2>3. s \in States /\ ~Asks(s)
    BY <2>2 DEF States, Idle, PCs, Asks
  <2>4. proc'[p] = s
    BY <2>1, Facts DEF Become
  <2>5. s.pc = "scope" /\ s.grant = r.id /\ s.paths = r.paths /\ s.done = {}
    BY DEF Idle
  <2>6. r \in Grants' /\ Events(r.id)' = Events(r.id)
    BY <2>1 DEF Grants, Events
  <2> HIDE DEF s
  <2>7. Working(p)'
    BY <2>1, <2>4, <2>5, <2>6 DEF Working
  <2>8. ProcOK(p)'
    BY <2>2, <2>4, <2>5, <2>7 DEF ProcOK
  <2> QED
    BY <2>1, <2>3, <2>8, QuietStep DEF LockMoves, LogGrows
<1> QED
  BY <1>1, <1>2
LEMMA ApproveInv ==
  ASSUME UndoInv, UNCHANGED inst, NEW p \in Procs, NEW r \in Grants, Approve(p, r)
  PROVE  UndoInv'
<1>1. CASE State(r) = "pending" /\ ClaimGrant(p, r)
  <2>1. "consume" \notin Events(r.id)
    BY DEF UndoInv, LedgerOK, Approve
  <2> QED
    BY <1>1, <2>1, ClaimInv DEF Approve, Free
<1>2. CASE Append1(Resolution("expire", r)) /\ UNCHANGED <<lock, proc>>
  BY <1>2, ResolveIdle DEF Approve, Free
<1> QED
  BY <1>1, <1>2 DEF Approve

LEMMA ExecuteInv ==
  ASSUME UndoInv, UNCHANGED inst, NEW p \in Procs, NEW r \in Grants, Execute(p, r)
  PROVE  UndoInv'
BY ClaimInv DEF Execute, Free

LEMMA DenyInv ==
  ASSUME UndoInv, UNCHANGED inst, NEW p \in Procs, NEW r \in Grants, Deny(p, r)
  PROVE  UndoInv'
BY ResolveIdle DEF Deny, Free

(* Who becomes idle lets go of the lock.                                   *)
LEMMA Released ==
  ASSUME UndoInv, NEW p \in Procs, Become(p, Idle),
         lock' = IF lock = p THEN None ELSE lock
  PROVE  Idle \in States /\ ~Asks(Idle) /\ ProcOK(p)' /\ LockMoves(p)
<1>1. /\ proc'[p] = Idle /\ lock' # p
  BY Facts DEF Become
<1>2. Idle.grant = 0 /\ Idle.pc = "idle"
  BY DEF Idle
<1> QED
  BY <1>1, <1>2, IdleType DEF ProcOK, NotWorking, LockMoves, Asks

LEMMA AskInv ==
  ASSUME UndoInv, NEW p \in Asking, UNCHANGED <<inst, clock, log, touched>>,
         Become(p, Idle), lock' = IF lock = p THEN None ELSE lock,
         NEW event \in Reserving, NEW allow \in BOOLEAN, NEW hashes,
         NEW ttl \in Nat,
         IF Overlaps(proc[p].paths) THEN UNCHANGED ledger
         ELSE Append1(Row(event, NewId, proc[p].paths, hashes, allow, clock + ttl))
  PROVE  UndoInv'
<1>0. p \in Procs
  BY DEF Asking
<1>1. /\ Idle \in States /\ ~Asks(Idle) /\ ProcOK(p)' /\ LockMoves(p)
      /\ proc[p].paths \subseteq Paths /\ clock + ttl \in Nat
  BY <1>0, Released, Facts DEF States
<1>2. CASE Overlaps(proc[p].paths)
  BY <1>0, <1>1, <1>2, QuietStep DEF LogGrows
<1>3. CASE ~Overlaps(proc[p].paths)
  <2>1. PICK row : row = Row(event, NewId, proc[p].paths, hashes, allow, clock + ttl)
    OBVIOUS
  <2>2. /\ row.event = event /\ row.id = NewId /\ row.paths = proc[p].paths
        /\ row.expires = clock + ttl /\ row.allow = allow
    BY <2>1 DEF Row
  <2>3. Append1(row)
    BY <1>3, <2>1
  <2> QED
    BY <1>1, <2>2, <2>3, GrantStep
<1> QED
  BY <1>2, <1>3

LEMMA ReserveInv ==
  ASSUME UndoInv, UNCHANGED inst, NEW p \in Procs, Reserve(p)
  PROVE  UndoInv'
<1>1. p \in Asking /\ p # lock
  BY Facts DEF Reserve, At, Asking
<1>2. PICK hashes : hashes = Hashes(proc[p].paths)
  OBVIOUS
<1> QED
  BY <1>1, <1>2, AskInv, BoundsAssumption DEF Reserve, Reserving

LEMMA LodgeInv ==
  ASSUME UndoInv, UNCHANGED inst, NEW p \in Procs, Lodge(p)
  PROVE  UndoInv'
<1>1. p \in Asking /\ p = lock
  BY Facts DEF Lodge, At, Asking, ProcOK, NotWorking, Working
<1>2. PICK hashes : hashes = Hashes(proc[p].paths)
  OBVIOUS
<1>3. PICK allow \in BOOLEAN : allow = proc[p].allow
  BY Facts DEF States
<1> QED
  BY <1>1, <1>2, <1>3, AskInv, BoundsAssumption DEF Lodge, Reserving, Unlock

(* The grant that a working process works for.                             *)
LEMMA Holder ==
  ASSUME UndoInv, NEW p \in Procs, proc[p].grant # 0
  PROVE  \E r \in Grants :
       /\ r = Grant(proc[p].grant) /\ r.id = proc[p].grant /\ r.paths = proc[p].paths
       /\ proc[p].pc \in {"guard", "consume"} => r.event = "reserve"
       /\ proc[p].pc \in {"scope", "guard", "consume"} =>
            "consume" \notin Events(r.id)
       /\ proc[p].pc \notin {"scope", "guard", "consume"} /\ r.event = "reserve" =>
            "consume" \in Events(r.id)
       /\ proc[p].pc = "execrow" =>
            \E t \in Range(log) : t.grant = r.id /\ ~t.truncated /\ t.paths = r.paths
       /\ proc[p].pc # "linger" => lock = p
<1>1. Working(p)
  BY Facts DEF ProcOK
<1> QED
  BY <1>1, GrantOf DEF Working, UndoInv

LEMMA GotoIs ==
  ASSUME UndoInv, NEW p \in Procs, NEW pc \in PCs, Goto(p, pc)
  PROVE  /\ Become(p, [proc[p] EXCEPT !.pc = pc])
         /\ [proc[p] EXCEPT !.pc = pc] \in States
BY Facts DEF Goto, Become, States

LEMMA ScopeInv ==
  ASSUME UndoInv, UNCHANGED inst, NEW p \in Procs, Scope(p)
  PROVE  UndoInv'
<1>1. proc[p].grant # 0 /\ proc[p].pc = "scope"
  BY Facts DEF Scope, At, ProcOK, NotWorking
<1>2. PICK r \in Grants :
       /\ r = Grant(proc[p].grant) /\ r.id = proc[p].grant /\ r.paths = proc[p].paths
       /\ "consume" \notin Events(r.id) /\ lock = p
  BY <1>1, Holder
<1>3. CASE Plan(r.paths, r.allow) = r.paths
  <2> DEFINE pc == IF r.event = "reserve" THEN "guard" ELSE "recheck"
             s == [proc[p] EXCEPT !.pc = pc]
  <2>1. Goto(p, pc) /\ UNCHANGED <<ledger, lock>>
    BY <1>2, <1>3 DEF Scope
  <2>2. Become(p, s) /\ s \in States
    BY <2>1, GotoIs DEF PCs
  <2>3. /\ s.pc = pc /\ s.grant = proc[p].grant /\ s.paths = proc[p].paths
        /\ s.done = {} /\ ~Asks(s)
    BY <1>1, Facts DEF States, ProcOK, Asks
  <2>4. proc'[p] = s
    BY <2>2, Facts DEF Become
  <2>5. r \in Grants' /\ Events(r.id)' = Events(r.id)
    BY <2>1 DEF Grants, Events
  <2>6. IF r.event = "reserve" THEN pc = "guard" ELSE pc = "recheck"
    OBVIOUS
  <2> HIDE DEF s, pc
  <2>7. Working(p)'
    BY <1>2, <2>1, <2>3, <2>4, <2>5, <2>6 DEF Working
  <2>8. ProcOK(p)'
    BY <1>1, <2>3, <2>4, <2>6, <2>7 DEF ProcOK
  <2> QED
    BY <2>1, <2>2, <2>3, <2>8, QuietStep DEF Scope, LockMoves, LogGrows
<1>4. CASE Plan(r.paths, r.allow) # r.paths
  <2>1. Append1(Resolution("fail", r)) /\ lock' = None /\ Become(p, Idle)
    BY <1>2, <1>4 DEF Scope, Unlock
  <2>2. "fail" \in Terminal \cup {"consume"}
    BY DEF Terminal
  <2> QED
    BY <1>2, <2>1, <2>2, Released, ResolveStep DEF Scope
<1> QED
  BY <1>3, <1>4

(* Refused by a live guard, or killed.                                     *)
LEMMA StopInv ==
  ASSUME UndoInv, UNCHANGED <<inst, ledger, clock, log, touched>>, NEW p \in Procs,
         Become(p, Idle), lock' = IF lock = p THEN None ELSE lock
  PROVE  UndoInv'
BY Released, QuietStep DEF LogGrows

LEMMA RefusedIs ==
  ASSUME NEW p, Refused(p)
  PROVE  /\ Become(p, Idle) /\ UNCHANGED ledger
         /\ lock' = IF lock = p THEN None ELSE lock
BY DEF Refused, Locked, Unlock

LEMMA CheckGuardInv ==
  ASSUME UndoInv, UNCHANGED inst, NEW p \in Procs, CheckGuard(p)
  PROVE  UndoInv'
<1>1. proc[p].grant # 0 /\ proc[p].pc = "guard"
  BY Facts DEF CheckGuard, At, ProcOK, NotWorking
<1>2. CASE Refused(p)
  BY <1>2, RefusedIs, StopInv DEF CheckGuard
<1>3. CASE Goto(p, "consume") /\ UNCHANGED <<lock, ledger>>
  <2> DEFINE s == [proc[p] EXCEPT !.pc = "consume"]
  <2>1. Become(p, s) /\ s \in States
    BY <1>3, GotoIs DEF PCs
  <2>2. /\ s.pc = "consume" /\ s.grant = proc[p].grant /\ s.paths = proc[p].paths
        /\ s.done = {} /\ ~Asks(s)
    BY <1>1, Facts DEF States, ProcOK, Asks
  <2>3. proc'[p] = s
    BY <2>1, Facts DEF Become
  <2> HIDE DEF s
  <2>4. PICK r \in Grants :
       /\ r = Grant(proc[p].grant) /\ r.id = proc[p].grant /\ r.paths = proc[p].paths
       /\ r.event = "reserve" /\ "consume" \notin Events(r.id) /\ lock = p
    BY <1>1, Holder
  <2>5. r \in Grants' /\ Events(r.id)' = Events(r.id)
    BY <1>3 DEF Grants, Events
  <2>6. Working(p)'
    BY <1>3, <2>2, <2>3, <2>4, <2>5 DEF Working
  <2>7. ProcOK(p)'
    BY <1>1, <2>2, <2>3, <2>6 DEF ProcOK
  <2> QED
    BY <1>3, <2>1, <2>2, <2>7, QuietStep DEF CheckGuard, LockMoves, LogGrows
<1> QED
  BY <1>2, <1>3 DEF CheckGuard

LEMMA ConsumeInv ==
  ASSUME UndoInv, UNCHANGED inst, NEW p \in Procs, Consume(p)
  PROVE  UndoInv'
<1>1. proc[p].grant # 0 /\ proc[p].pc = "consume"
  BY Facts DEF Consume, At, ProcOK, NotWorking
<1> DEFINE s == [proc[p] EXCEPT !.pc = "recheck"]
<1>2. Become(p, s) /\ s \in States
  BY GotoIs DEF PCs, Consume
<1>3. /\ s.pc = "recheck" /\ s.grant = proc[p].grant /\ s.paths = proc[p].paths
      /\ s.done = {} /\ ~Asks(s)
  BY <1>1, Facts DEF States, ProcOK, Asks
<1>4. proc'[p] = s
  BY <1>2, Facts DEF Become
<1> HIDE DEF s
<1>5. PICK r \in Grants :
     /\ r = Grant(proc[p].grant) /\ r.id = proc[p].grant /\ r.paths = proc[p].paths
     /\ r.event = "reserve" /\ lock = p
  BY <1>1, Holder
<1>6. Append1(Resolution("consume", r))
  BY <1>5 DEF Consume
<1>7. r \in Grants' /\ "consume" \in Events(r.id)'
  BY <1>5, <1>6, Resolved DEF UndoInv
<1>8. Working(p)'
  BY <1>3, <1>4, <1>5, <1>7 DEF Working, Consume
<1>9. ProcOK(p)'
  BY <1>1, <1>3, <1>4, <1>8 DEF ProcOK
<1> QED
  BY <1>2, <1>3, <1>5, <1>6, <1>9, ResolveStep DEF Consume, LockMoves
Later == {"recheck", "arm", "write", "failed", "failrow", "execrow", "linger"}

(* A process past the spending of its token goes on, with its grant and    *)
(* its lock.                                                               *)
LEMMA Proceed ==
  ASSUME UndoInv, NEW p \in Procs, NEW s \in States, Become(p, s),
         UNCHANGED <<inst, clock, ledger, lock>>, LogGrows,
         proc[p].pc \in Later \ {"linger"}, s.pc \in Later,
         s.grant = proc[p].grant, s.paths = proc[p].paths,
         s.grant = 0 => s.pc \notin {"failrow", "execrow"},
         s.pc \in {"recheck", "arm"} => s.done = {},
         s.pc = "write" => s.todo \cup s.done = s.paths,
         s.pc = "execrow" =>
           \E t \in Range(log)' : t.grant = s.grant /\ ~t.truncated /\ t.paths = s.paths,
         \A w \in touched' : w \in touched \/ w[1] = s.grant
  PROVE  UndoInv'
<1>1. /\ proc'[p] = s /\ ProcOK(p) /\ LockMoves(p) /\ ~Asks(s)
      /\ s.pc \notin {"scope", "guard", "consume", "idle", "reserve", "request"}
      /\ proc[p].pc \notin {"scope", "guard", "consume", "idle", "reserve", "request"}
  BY Facts DEF Become, LockMoves, Asks, Later
<1>2. ASSUME s.grant = 0
      PROVE  ProcOK(p)'
  BY <1>1, <1>2 DEF ProcOK, NotWorking, Later
<1>3. ASSUME s.grant # 0
      PROVE  ProcOK(p)'
  <2>1. PICK r \in Grants :
       /\ r = Grant(proc[p].grant) /\ r.id = proc[p].grant /\ r.paths = proc[p].paths
       /\ r.event = "reserve" => "consume" \in Events(r.id)
       /\ lock = p
    BY <1>1, <1>3, Holder
  <2>2. r \in Grants' /\ Events(r.id)' = Events(r.id)
    BY DEF Grants, Events
  <2>3. Working(p)'
    BY <1>1, <2>1, <2>2 DEF Working
  <2> QED
    BY <1>1, <1>3, <2>3 DEF ProcOK
<1> QED
  BY <1>1, <1>2, <1>3, QuietStep

LEMMA RecheckGuardInv ==
  ASSUME UndoInv, UNCHANGED inst, NEW p \in Procs, RecheckGuard(p)
  PROVE  UndoInv'
<1>1. CASE Refused(p)
  BY <1>1, RefusedIs, StopInv DEF RecheckGuard
<1>2. CASE Goto(p, "arm") /\ UNCHANGED <<lock, ledger>>
  <2> DEFINE s == [proc[p] EXCEPT !.pc = "arm"]
  <2>1. Become(p, s) /\ s \in States
    BY <1>2, GotoIs DEF PCs
  <2>2. /\ s.pc = "arm" /\ s.grant = proc[p].grant /\ s.paths = proc[p].paths
        /\ s.done = {}
    BY Facts DEF States, ProcOK, RecheckGuard, At
  <2> HIDE DEF s
  <2> QED
    BY <1>2, <2>1, <2>2, Proceed DEF RecheckGuard, At, Later, LogGrows
<1> QED
  BY <1>1, <1>2 DEF RecheckGuard

LEMMA WriteGuardInv ==
  ASSUME UndoInv, UNCHANGED inst, NEW p \in Procs, WriteGuard(p)
  PROVE  UndoInv'
<1> DEFINE s == [proc[p] EXCEPT !.pc = "write", !.todo = proc[p].paths]
<1>1. Become(p, s)
  BY DEF WriteGuard
<1>2. /\ s \in States /\ s.pc = "write" /\ s.grant = proc[p].grant
      /\ s.paths = proc[p].paths /\ s.todo \cup s.done = s.paths
  BY Facts DEF States, PCs, ProcOK, WriteGuard, At
<1> HIDE DEF s
<1> QED
  BY <1>1, <1>2, Proceed DEF WriteGuard, At, Later, LogGrows

LEMMA RevertInv ==
  ASSUME UndoInv, UNCHANGED inst, NEW p \in Procs, NEW q, Revert(p, q)
  PROVE  UndoInv'
<1> DEFINE s == [proc[p] EXCEPT !.todo = @ \ {q}, !.done = @ \cup {q}]
<1>1. Become(p, s)
  BY DEF Revert
<1>2. /\ s \in States /\ s.pc = "write" /\ s.grant = proc[p].grant
      /\ s.paths = proc[p].paths
      /\ s.todo = proc[p].todo \ {q} /\ s.done = proc[p].done \cup {q}
  <2>1. proc[p] \in States /\ proc[p].pc = "write" /\ q \in proc[p].todo
    BY Facts DEF Revert, At
  <2> QED
    BY <2>1 DEF States, PCs
<1>4. s.todo \cup s.done = s.paths
  BY <1>2, Facts DEF ProcOK, Revert, At
<1>3. \A w \in touched' : w \in touched \/ w[1] = s.grant
  BY <1>2 DEF Revert
<1> HIDE DEF s
<1> QED
  BY <1>1, <1>2, <1>3, <1>4, Proceed DEF Revert, At, Later, LogGrows

LEMMA RevertFailsInv ==
  ASSUME UndoInv, UNCHANGED inst, NEW p \in Procs, NEW q, RevertFails(p, q)
  PROVE  UndoInv'
<1> DEFINE s == [proc[p] EXCEPT !.pc = "failed"]
<1>1. Become(p, s) /\ s \in States
  BY GotoIs DEF RevertFails, PCs
<1>2. s.pc = "failed" /\ s.grant = proc[p].grant /\ s.paths = proc[p].paths
  BY Facts DEF States
<1>3. \A w \in touched' : w \in touched \/ w[1] = s.grant
  BY <1>2 DEF RevertFails
<1> HIDE DEF s
<1> QED
  BY <1>1, <1>2, <1>3, Proceed DEF RevertFails, At, Later, LogGrows

LEMMA RecordPartialInv ==
  ASSUME UndoInv, UNCHANGED inst, NEW p \in Procs, RecordPartial(p)
  PROVE  UndoInv'
<1> DEFINE s == [proc[p] EXCEPT
                   !.pc = IF proc[p].grant = 0 THEN "linger" ELSE "failrow",
                   !.since = clock]
<1>1. Become(p, s) /\ LogGrows
  BY DEF RecordPartial, LogGrows
<1>2. /\ s \in States /\ s.grant = proc[p].grant /\ s.paths = proc[p].paths
      /\ s.pc = IF proc[p].grant = 0 THEN "linger" ELSE "failrow"
  BY Facts DEF States, PCs
<1> HIDE DEF s
<1> QED
  BY <1>1, <1>2, Proceed DEF RecordPartial, At, Later

LEMMA AppendTurnInv ==
  ASSUME UndoInv, UNCHANGED inst, NEW p \in Procs, AppendTurn(p)
  PROVE  UndoInv'
<1> DEFINE s == [proc[p] EXCEPT
                   !.pc = IF proc[p].grant = 0 THEN "linger" ELSE "execrow",
                   !.since = clock]
<1>1. Become(p, s) /\ LogGrows
  BY DEF AppendTurn, LogGrows
<1>2. /\ s \in States /\ s.grant = proc[p].grant /\ s.paths = proc[p].paths
      /\ s.pc = IF proc[p].grant = 0 THEN "linger" ELSE "execrow"
      /\ proc[p].done = proc[p].paths
  <2>1. proc[p] \in States /\ proc[p].pc = "write" /\ proc[p].todo = {}
        /\ proc[p].done = proc[p].paths
    BY Facts DEF ProcOK, AppendTurn, At
  <2>2. s \in [pc : PCs, grant : Nat, paths : SUBSET Paths, allow : BOOLEAN,
               todo : SUBSET Paths, done : SUBSET Paths, since : Nat]
    BY <2>1, Facts DEF States, PCs
  <2> QED
    BY <2>1, <2>2 DEF States
<1>3. PICK t : t = UndoTurn(p, FALSE)
  OBVIOUS
<1>4. t.grant = s.grant /\ ~t.truncated /\ t.paths = s.paths
  BY <1>2, <1>3 DEF UndoTurn
<1>5. t \in Range(log)'
  <2>1. log \in Seq(Range(log)) /\ log' = Append(log, t)
    BY <1>3 DEF AppendTurn, UndoInv
  <2>2. Range(Append(log, t)) = Range(log) \cup {t}
    BY <2>1, RangeAppend
  <2> QED
    BY <2>1, <2>2
<1> HIDE DEF s
<1> QED
  BY <1>1, <1>2, <1>4, <1>5, Proceed DEF AppendTurn, At, Later

LEMMA FailRowInv ==
  ASSUME UndoInv, UNCHANGED inst, NEW p \in Procs, FailRow(p)
  PROVE  UndoInv'
<1> DEFINE s == [proc[p] EXCEPT !.pc = "linger", !.since = clock]
<1>1. Become(p, s) /\ proc[p].pc = "failrow" /\ proc[p].grant # 0
  BY Facts DEF FailRow, At, ProcOK, NotWorking
<1>2. /\ s \in States /\ s.pc = "linger" /\ s.grant = proc[p].grant
      /\ s.paths = proc[p].paths /\ ~Asks(s)
  BY Facts DEF States, PCs, Asks
<1>3. proc'[p] = s
  BY <1>1, Facts DEF Become
<1> HIDE DEF s
<1>4. PICK r \in Grants :
     /\ r = Grant(proc[p].grant) /\ r.id = proc[p].grant /\ r.paths = proc[p].paths
     /\ r.event = "reserve" => "consume" \in Events(r.id)
  BY <1>1, Holder
<1>5. CASE UNCHANGED ledger
  BY <1>1, <1>2, <1>5, Proceed DEF FailRow, Later, LogGrows
<1>6. CASE Append1(Resolution("fail", r))
  <2>1. "fail" \in Terminal \cup {"consume"}
    BY DEF Terminal
  <2>2. r \in Grants' /\ Events(r.id) \subseteq Events(r.id)'
    BY <1>6, <2>1, Resolved DEF UndoInv
  <2>3. ProcOK(p)'
    BY <1>1, <1>2, <1>3, <1>4, <2>2 DEF Working, ProcOK
  <2> QED
    BY <1>1, <1>2, <1>6, <2>1, <2>3, ResolveStep DEF FailRow, LockMoves
<1> QED
  BY <1>4, <1>5, <1>6 DEF FailRow

LEMMA ExecuteRowInv ==
  ASSUME UndoInv, UNCHANGED inst, NEW p \in Procs, ExecuteRow(p)
  PROVE  UndoInv'
<1> DEFINE s == [proc[p] EXCEPT !.pc = "linger", !.since = clock]
<1>1. Become(p, s) /\ proc[p].pc = "execrow" /\ proc[p].grant # 0
  BY Facts DEF ExecuteRow, At, ProcOK, NotWorking
<1>2. /\ s \in States /\ s.pc = "linger" /\ s.grant = proc[p].grant
      /\ s.paths = proc[p].paths /\ ~Asks(s)
  BY Facts DEF States, PCs, Asks
<1>3. proc'[p] = s
  BY <1>1, Facts DEF Become
<1> HIDE DEF s
<1>4. PICK r \in Grants :
     /\ r = Grant(proc[p].grant) /\ r.id = proc[p].grant /\ r.paths = proc[p].paths
     /\ r.event = "reserve" => "consume" \in Events(r.id)
     /\ \E t \in Range(log) : t.grant = r.id /\ ~t.truncated /\ t.paths = r.paths
     /\ lock = p
  BY <1>1, Holder
<1>5. Append1(Resolution("execute", r)) /\ lock' = None
  BY <1>4 DEF ExecuteRow, Unlock
<1>6. "execute" \in Terminal \cup {"consume"}
  BY DEF Terminal
<1>7. r \in Grants' /\ Events(r.id) \subseteq Events(r.id)'
  BY <1>5, <1>6, Resolved DEF UndoInv
<1>8. ProcOK(p)'
  BY <1>1, <1>2, <1>3, <1>4, <1>7 DEF Working, ProcOK
<1> QED
  BY <1>1, <1>2, <1>4, <1>5, <1>6, <1>8, ResolveStep DEF ExecuteRow, LockMoves

LEMMA EndInv ==
  ASSUME UndoInv, UNCHANGED inst, NEW p \in Procs, RemoveGuard(p) \/ Crash(p)
  PROVE  UndoInv'
<1>1. /\ Become(p, Idle) /\ lock' = IF lock = p THEN None ELSE lock
      /\ UNCHANGED <<ledger, clock, log, touched>>
  BY DEF RemoveGuard, Crash, Locked, Unlock
<1> QED
  BY <1>1, StopInv

(* Nobody moves: an edit, a purge, the clock.                              *)
LEMMA WorldInv ==
  ASSUME UndoInv, UNCHANGED <<inst, ledger, log, lock, proc, touched>>,
         clock' \in Nat
  PROVE  UndoInv'
<1>1. /\ Grants' = Grants /\ \A id : Events(id)' = Events(id)
      /\ Range(log)' = Range(log) /\ Range(ledger)' = Range(ledger) /\ Asking' = Asking
  BY DEF Grants, Events, Asking
<1>2. LedgerOK' /\ RoomForGrants' /\ TouchedOK' /\ ExecutedIsRecorded'
  BY <1>1 DEF UndoInv, LedgerOK, RoomForGrants, TouchedOK, ExecutedIsRecorded
<1>3. \A p \in Procs : ProcOK(p)'
  BY <1>1 DEF UndoInv, ProcOK, Working, NotWorking
<1> QED
  BY <1>1, <1>2, <1>3 DEF UndoInv

LEMMA NextInv == UndoInv /\ [Next]_vars => UndoInv'
<1> SUFFICES ASSUME UndoInv, [Next]_vars PROVE UndoInv'
  OBVIOUS
<1>1. CASE World /\ UNCHANGED inst
  <2>1. /\ UNCHANGED <<inst, ledger, log, lock, proc, touched>>
        /\ clock' \in {clock, clock + 1}
    BY <1>1 DEF World, Edit, Purge, Tick
  <2>2. clock' \in Nat
    BY <2>1 DEF UndoInv
  <2> QED
    BY <2>1, <2>2, WorldInv
<1>2. ASSUME NEW p \in Procs, Begin(p), UNCHANGED inst
      PROVE  UndoInv'
  BY <1>2, PreviewInv, RequestInv, ApproveInv, DenyInv, ExecuteInv, UndoStepInv
     DEF Begin
<1>3. ASSUME NEW p \in Procs, Continue(p), UNCHANGED inst
      PROVE  UndoInv'
  BY <1>3, ReserveInv, LodgeInv, ScopeInv, CheckGuardInv, ConsumeInv,
     RecheckGuardInv, WriteGuardInv, RevertInv, RevertFailsInv, RecordPartialInv,
     FailRowInv, AppendTurnInv, ExecuteRowInv, EndInv
     DEF Continue
<1>4. ASSUME NEW p \in Procs, Crash(p), UNCHANGED inst
      PROVE  UndoInv'
  BY <1>4, EndInv
<1>5. CASE UNCHANGED vars
  BY <1>5, WorldInv DEF vars, UndoInv
<1> QED
  BY <1>1, <1>2, <1>3, <1>4, <1>5 DEF Next

THEOREM UndoInvariant == Spec => []UndoInv
<1> QED
  BY InitInv, NextInv, PTL DEF Spec

(* The ledger claims an execution only with a complete turn as evidence.   *)
THEOREM ExecutionsHaveEvidence == Spec => []ExecutedIsRecorded
<1>1. UndoInv => ExecutedIsRecorded
  BY DEF UndoInv
<1> QED
  BY <1>1, UndoInvariant, PTL
-----------------------------------------------------------------------------
(* The refinement mapping.                                                 *)

Issued == {View(r) : r \in Grants}
Holding == {View(r) : r \in Live(clock)}
Spent == {View(r) : r \in {x \in Grants : "consume" \in Events(x.id)}}
Written == {<<View(Grant(w[1])), w[2]>> : w \in {t \in touched : t[1] # 0}}

(* Two grants never look the same, and all of them are within the bound.   *)
LEMMA Views ==
  ASSUME UndoInv
  PROVE  /\ \A r, s \in Grants : View(r) = View(s) => r = s
         /\ \A r \in Grants : View(r) \in Promise!Grants /\ View(r) # None
         /\ \A p \in Asking : Cardinality(Grants) + 1 \in Ids
<1>1. /\ Cardinality(Grants) \in Nat /\ MaxRows \in Nat /\ Cardinality(Procs) \in Nat
      /\ IsFiniteSet(Asking) /\ Cardinality(Asking) \in Nat
  BY ProcsAssumption, BoundsAssumption, FS_Subset, FS_CardinalityType
     DEF Asking, UndoInv, LedgerOK
<1>2. Cardinality(Grants) + Cardinality(Asking) <= MaxRows + Cardinality(Procs)
  BY DEF UndoInv, RoomForGrants
<1>3. \A r \in Grants : r.id \in Ids /\ r.paths \subseteq Paths
  BY <1>1, <1>2 DEF Ids, UndoInv, LedgerOK
<1>4. \A r \in Grants : View(r) \in Promise!Grants
  BY <1>3 DEF View, Promise!Grants
<1>5. None \notin Promise!Grants
  BY ProcsAssumption DEF Promise!Grants
<1>6. \A r, s \in Grants : View(r) = View(s) => r = s
  BY DEF View, UndoInv, LedgerOK
<1>7. ASSUME NEW p \in Asking PROVE Cardinality(Grants) + 1 \in Ids
  <2>1. Cardinality(Asking) >= 1
    BY <1>1, FS_EmptySet
  <2> QED
    BY <1>1, <1>2, <2>1 DEF Ids
<1> QED
  BY <1>4, <1>5, <1>6, <1>7

(* Grant is what it was for every id in use, as long as grants only come.  *)
LEMMA GrantKept ==
  ASSUME UndoInv, LedgerOK', Grants \subseteq Grants', NEW r \in Grants
  PROVE  Grant(r.id)' = r /\ Grant(r.id) = r
<1>1. Grant(r.id) = r
  BY GrantOf DEF UndoInv
<1>2. r \in Grants' /\ \A s \in Grants' : s.id = r.id => s = r
  BY DEF LedgerOK
<1> QED
  BY <1>1, <1>2 DEF Grant

LEMMA WrittenKept ==
  ASSUME UndoInv, LedgerOK', Grants \subseteq Grants'
  PROVE  /\ touched' = touched => Written' = Written
         /\ \A r \in Grants : \A q : touched' = touched \cup {<<r.id, q>>} =>
              Written' = Written \cup {<<View(r), q>>}
<1>1. ASSUME NEW w \in touched, w[1] # 0
      PROVE  View(Grant(w[1]))' = View(Grant(w[1]))
  <2>1. PICK r \in Grants : r.id = w[1]
    BY <1>1 DEF UndoInv, TouchedOK
  <2> QED
    BY <2>1, GrantKept DEF View
<1>2. ASSUME touched' = touched PROVE Written' = Written
  BY <1>1, <1>2 DEF Written
<1>3. ASSUME NEW r \in Grants, NEW q, touched' = touched \cup {<<r.id, q>>}
      PROVE  Written' = Written \cup {<<View(r), q>>}
  <2>1. r.id # 0 /\ View(Grant(r.id))' = View(r)
    BY GrantKept, FS_CardinalityType DEF UndoInv, LedgerOK, View
  <2> DEFINE old == {t \in touched : t[1] # 0}
  <2>2. {t \in touched : t[1] # 0}' = old \cup {<<r.id, q>>}
    BY <1>3, <2>1
  <2> DEFINE seen(w) == <<View(Grant(w[1])), w[2]>>
  <2>3. \A w \in old : seen(w)' = seen(w)
    BY <1>1
  <2>4. seen(<<r.id, q>>)' = <<View(r), q>>
    BY <2>1
  <2>5. Written = {seen(w) : w \in old} /\ Written' = {seen(w)' : w \in old \cup {<<r.id, q>>}}
    BY <2>2 DEF Written
  <2> HIDE DEF old, seen
  <2> QED
    BY <2>3, <2>4, <2>5
<1> QED
  BY <1>2, <1>3

(* How a new row shows in the views.                                       *)
LEMMA ResolvedViews ==
  ASSUME UndoInv, NEW r \in Grants, NEW event \in Terminal \cup {"consume"},
         event = "consume" => r.event = "reserve",
         Append1(Resolution(event, r)), UNCHANGED <<clock, touched>>
  PROVE  /\ LedgerOK' /\ Grants' = Grants /\ Issued' = Issued /\ Written' = Written
         /\ Holding' = IF event = "consume" THEN Holding ELSE Holding \ {View(r)}
         /\ Spent' = IF event = "consume" THEN Spent \cup {View(r)} ELSE Spent
<1>1. /\ LedgerOK' /\ Grants' = Grants
      /\ Events(r.id)' = Events(r.id) \cup {event}
      /\ \A s \in Grants : s.id # r.id => Events(s.id)' = Events(s.id)
  BY Resolved DEF UndoInv
<1>2. \A s \in Grants : s # r => s.id # r.id /\ View(s) # View(r)
  BY Views DEF UndoInv, LedgerOK
<1>3. \A s \in Grants : s # r => Events(s.id)' = Events(s.id)
  BY <1>1, <1>2
<1>4. Issued' = Issued /\ Written' = Written
  BY <1>1, WrittenKept DEF Issued, View
<1>5. Holding' = IF event = "consume" THEN Holding ELSE Holding \ {View(r)}
  <2>1. "consume" \notin Terminal
    BY DEF Terminal
  <2>2. Live(clock)' = IF event = "consume" THEN Live(clock) ELSE Live(clock) \ {r}
    BY <1>1, <1>3, <2>1 DEF Live
  <2>3. Live(clock) \subseteq Grants
    BY DEF Live
  <2>4. {View(s) : s \in Live(clock) \ {r}} = Holding \ {View(r)}
    BY <1>2, <2>3 DEF Holding
  <2> QED
    BY <2>2, <2>4 DEF Holding, View
<1>6. Spent' = IF event = "consume" THEN Spent \cup {View(r)} ELSE Spent
  <2> DEFINE Consumed == {x \in Grants : "consume" \in Events(x.id)}
  <2>1. Consumed' = IF event = "consume" THEN Consumed \cup {r} ELSE Consumed
    BY <1>1, <1>3
  <2> QED
    BY <2>1 DEF Spent, View
<1> QED
  BY <1>1, <1>4, <1>5, <1>6

LEMMA GrantedViews ==
  ASSUME UndoInv, NEW row, Append1(row), row.event \in Reserving, row.id = NewId,
         row.paths \subseteq Paths, row.expires \in Nat, row.allow \in BOOLEAN,
         row.expires > clock, UNCHANGED <<clock, touched>>
  PROVE  /\ View(row) \notin Issued
         /\ Issued' = Issued \cup {View(row)} /\ Holding' = Holding \cup {View(row)}
         /\ Spent' = Spent /\ Written' = Written
<1>1. /\ LedgerOK' /\ row \notin Grants /\ Grants' = Grants \cup {row}
      /\ \A r \in Grants : r.id # row.id /\ Events(r.id)' = Events(r.id)
      /\ Events(row.id)' = {row.event}
  BY Granted DEF UndoInv
<1>2. View(row) \notin Issued
  BY <1>1 DEF Issued, View
<1>3. Issued' = Issued \cup {View(row)} /\ Written' = Written
  BY <1>1, WrittenKept DEF Issued, View
<1>4. Holding' = Holding \cup {View(row)}
  <2>1. Live(clock)' = Live(clock) \cup {row}
    BY <1>1 DEF Live, Reserving, Terminal
  <2> QED
    BY <2>1 DEF Holding, View
<1>5. Spent' = Spent
  <2> DEFINE Consumed == {x \in Grants : "consume" \in Events(x.id)}
  <2>1. Consumed' = Consumed
    BY <1>1 DEF Reserving
  <2> QED
    BY <2>1 DEF Spent, View
<1> QED
  BY <1>2, <1>3, <1>4, <1>5

LEMMA QuietViews ==
  ASSUME UndoInv, UNCHANGED ledger
  PROVE  /\ LedgerOK' /\ Grants' = Grants /\ Issued' = Issued /\ Spent' = Spent
         /\ clock' = clock => Holding' = Holding
         /\ touched' = touched => Written' = Written
<1>1. Grants' = Grants /\ LedgerOK' /\ \A id : Events(id)' = Events(id)
  BY DEF Grants, Events, LedgerOK, UndoInv
<1>2. touched' = touched => Written' = Written
  BY <1>1, WrittenKept
<1> QED
  BY <1>1, <1>2 DEF Issued, Spent, Holding, Live, View

(* Who writes, in the view.                                                *)
LEMMA WriterKept ==
  ASSUME UndoInv, Grants' = Grants, lock' = lock,
         lock # None => proc'[lock].grant = proc[lock].grant
  PROVE  Writer' = Writer
BY DEF Writer, Grant, View

LEMMA NoWriter ==
  /\ lock = None => Writer = None
  /\ lock' = None => Writer' = None
BY DEF Writer

LEMMA WriterIs ==
  ASSUME UndoInv, NEW p \in Procs, lock = p, proc[p].grant # 0
  PROVE  Writer = View(Grant(proc[p].grant))
BY ProcsAssumption DEF Writer
-----------------------------------------------------------------------------
(* Every step is a step of OneTimeGrants, or changes nothing of the view.  *)

Maps == Promise!Next \/ UNCHANGED Promise!vars

LEMMA MappedVars ==
  ASSUME Issued' = Issued, Holding' = Holding, Spent' = Spent, Writer' = Writer,
         Written' = Written
  PROVE  Maps
BY DEF Maps, Promise!vars, Issued, Holding, Spent, Written

LEMMA MapsQuiet ==
  ASSUME UndoInv, UNCHANGED <<ledger, clock, lock, touched>>,
         lock # None => proc'[lock].grant = proc[lock].grant
  PROVE  Maps
BY QuietViews, WriterKept, MappedVars

(* The holder stops.                                                       *)
LEMMA MapsStop ==
  ASSUME UndoInv, UNCHANGED <<ledger, clock, touched>>, NEW p \in Procs,
         Become(p, Idle), lock' = IF lock = p THEN None ELSE lock
  PROVE  Maps
<1>1. CASE lock = p
  <2>1. Writer' = None
    BY <1>1, NoWriter
  <2>2. Promise!Leave({})
    BY <2>1, QuietViews DEF Promise!Leave, Issued, Holding, Spent, Written
  <2> QED
    BY <2>2 DEF Maps, Promise!Next
<1>2. CASE lock # p
  BY <1>2, MapsQuiet, Facts DEF Become
<1> QED
  BY <1>1, <1>2

(* A grant is resolved: while somebody may go on to write ...              *)
LEMMA MapsLapse ==
  ASSUME UndoInv, NEW r \in Grants, NEW event \in Terminal,
         Append1(Resolution(event, r)), UNCHANGED <<clock, touched, lock>>,
         lock # None => proc'[lock].grant = proc[lock].grant
  PROVE  Maps
<1>1. event \in Terminal \cup {"consume"} /\ event # "consume"
  BY DEF Terminal
<1>2. /\ Grants' = Grants /\ Issued' = Issued /\ Written' = Written
      /\ Holding' = Holding \ {View(r)} /\ Spent' = Spent
  BY <1>1, ResolvedViews
<1>3. Writer' = Writer
  BY <1>2, WriterKept
<1>4. Promise!Lapse(Holding \cap {View(r)})
  BY <1>2, <1>3 DEF Promise!Lapse, Issued, Holding, Spent, Written
<1>5. Holding \cap {View(r)} \in SUBSET Holding
  OBVIOUS
<1> QED
  BY <1>4, <1>5 DEF Maps, Promise!Next, Holding

(* ... or by its holder, who is done.                                      *)
LEMMA MapsLeave ==
  ASSUME UndoInv, NEW r \in Grants, NEW event \in Terminal,
         Append1(Resolution(event, r)), UNCHANGED <<clock, touched>>, lock' = None
  PROVE  Maps
<1>1. event \in Terminal \cup {"consume"} /\ event # "consume"
  BY DEF Terminal
<1>2. /\ Issued' = Issued /\ Written' = Written
      /\ Holding' = Holding \ {View(r)} /\ Spent' = Spent
  BY <1>1, ResolvedViews
<1>3. Writer' = None
  BY NoWriter
<1>4. Promise!Leave(Holding \cap {View(r)})
  BY <1>2, <1>3 DEF Promise!Leave, Issued, Holding, Spent, Written
<1>5. Holding \cap {View(r)} \in SUBSET Holding
  OBVIOUS
<1> QED
  BY <1>4, <1>5 DEF Maps, Promise!Next, Holding

(* A grant is made for files that nobody holds, by who holds none.         *)
LEMMA MapsAsk ==
  ASSUME UndoInv, NEW p \in Asking, UNCHANGED <<clock, touched>>,
         Become(p, Idle), lock \in {None, p}, lock' = None,
         NEW event \in Reserving, NEW allow \in BOOLEAN, NEW hashes,
         NEW ttl \in Nat \ {0},
         IF Overlaps(proc[p].paths) THEN UNCHANGED ledger
         ELSE Append1(Row(event, NewId, proc[p].paths, hashes, allow, clock + ttl))
  PROVE  Maps
<1>1. p \in Procs /\ p # None
  BY Facts DEF Asking
<1>2. proc[p].grant = 0 /\ proc[p].paths \subseteq Paths /\ clock \in Nat
  BY <1>1, Facts DEF Asking, ProcOK, Working, States
<1>3. Writer = None /\ Writer' = None
  BY <1>1, <1>2 DEF Writer
<1>4. CASE Overlaps(proc[p].paths)
  BY <1>3, <1>4, QuietViews, MappedVars
<1>5. CASE ~Overlaps(proc[p].paths)
  <2>1. PICK row : row = Row(event, NewId, proc[p].paths, hashes, allow, clock + ttl)
    OBVIOUS
  <2>2. /\ row.event = event /\ row.id = NewId /\ row.paths = proc[p].paths
        /\ row.expires = clock + ttl /\ row.allow = allow
    BY <2>1 DEF Row
  <2>3. Append1(row) /\ row.expires \in Nat /\ row.expires > clock
    BY <1>2, <1>5, <2>1, <2>2
  <2>4. /\ View(row) \notin Issued
        /\ Issued' = Issued \cup {View(row)} /\ Holding' = Holding \cup {View(row)}
        /\ Spent' = Spent /\ Written' = Written
    BY <1>2, <2>2, <2>3, GrantedViews
  <2>5. View(row) \in Promise!Grants
    <3>1. row.id \in Ids
      BY <2>2, Views DEF NewId
    <3> QED
      BY <1>2, <2>2, <3>1 DEF View, Promise!Grants
  <2>6. \A h \in Holding : h.files \cap View(row).files = {}
    BY <1>5, <2>2 DEF Overlaps, Holding, View
  <2>7. Promise!Issue(View(row))
    BY <1>3, <2>4, <2>6
       DEF Promise!Issue, Promise!Holders, Issued, Holding, Spent, Written
  <2> QED
    BY <2>5, <2>7 DEF Maps, Promise!Next
<1> QED
  BY <1>4, <1>5

(* A live grant is claimed.                                                *)
LEMMA MapsClaim ==
  ASSUME UndoInv, UNCHANGED <<clock, touched>>, NEW p \in Procs,
         lock = None, NEW r \in Live(clock),
         "consume" \notin Events(r.id), ClaimGrant(p, r)
  PROVE  Maps
<1>0. r \in Grants
  BY DEF Live
<1>1. CASE Append1(Resolution("fail", r)) /\ UNCHANGED <<lock, proc>>
  BY <1>0, <1>1, MapsLapse DEF Terminal
<1>2. CASE /\ lock' = p /\ UNCHANGED ledger
           /\ Become(p, [Idle EXCEPT !.pc = "scope", !.grant = r.id,
                                     !.paths = r.paths, !.allow = r.allow])
  <2>1. proc'[p].grant = r.id
    BY <1>2, Facts DEF Become, Idle
  <2>2. p # None /\ r.id # 0
    BY <1>0, Facts, FS_CardinalityType DEF UndoInv, LedgerOK
  <2>3. /\ LedgerOK' /\ Grants' = Grants /\ Issued' = Issued /\ Spent' = Spent
        /\ Holding' = Holding /\ Written' = Written
    BY <1>2, QuietViews
  <2>4. Grant(r.id)' = r
    BY <1>0, <2>3, GrantKept
  <2>5. Writer = None /\ Writer' = View(r)
    BY <1>2, <2>1, <2>2, <2>4 DEF Writer, View, Grant
  <2>6. View(r) \in Holding \ Spent
    BY <1>0, Views DEF Holding, Spent
  <2>7. Promise!Claim(View(r))
    BY <2>3, <2>5, <2>6 DEF Promise!Claim, Issued, Holding, Spent, Written
  <2> QED
    BY <1>0, <2>7, Views DEF Maps, Promise!Next
<1> QED
  BY <1>1, <1>2 DEF ClaimGrant

(* A file is written.                                                      *)
LEMMA MapsWrite ==
  ASSUME UndoInv, UNCHANGED <<ledger, clock, lock>>, NEW p \in Procs,
         proc[p].pc = "write", NEW q \in proc[p].paths,
         touched' = touched \cup {<<proc[p].grant, q>>},
         proc'[p].grant = proc[p].grant, \A x \in Procs \ {p} : proc'[x] = proc[x]
  PROVE  Maps
<1>0. q \in Paths
  BY Facts DEF States
<1>1. lock # None => proc'[lock].grant = proc[lock].grant
  BY Facts
<1>2. /\ LedgerOK' /\ Grants' = Grants /\ Issued' = Issued /\ Spent' = Spent
      /\ Holding' = Holding /\ Writer' = Writer
  BY <1>1, QuietViews, WriterKept
<1>3. CASE proc[p].grant = 0
  <2>1. Written' = Written
    <3>1. {t \in touched : t[1] # 0}' = {t \in touched : t[1] # 0}
      BY <1>3
    <3>2. \A w \in touched : w[1] # 0 => View(Grant(w[1]))' = View(Grant(w[1]))
      BY <1>2 DEF View, Grant
    <3> QED
      BY <3>1, <3>2 DEF Written
  <2> QED
    BY <1>2, <2>1, MappedVars
<1>4. CASE proc[p].grant # 0
  <2>1. PICK r \in Grants :
       /\ r = Grant(proc[p].grant) /\ r.id = proc[p].grant /\ r.paths = proc[p].paths
       /\ r.event = "reserve" => "consume" \in Events(r.id)
       /\ lock = p
    BY <1>4, Holder
  <2>2. Written' = Written \cup {<<View(r), q>>}
    BY <1>2, <2>1, WrittenKept
  <2>3. Writer = View(r) /\ Writer # None
    BY <1>4, <2>1, WriterIs, Views
  <2>4. View(r).files = proc[p].paths /\ View(r).once = (r.event = "reserve")
    BY <2>1 DEF View
  <2>5. View(r).once => View(r) \in Spent
    BY <2>1, <2>4 DEF Spent
  <2>6. Promise!Write(q)
    BY <1>2, <2>2, <2>3, <2>4, <2>5
       DEF Promise!Write, Issued, Holding, Spent, Written
  <2> QED
    BY <1>0, <2>6 DEF Maps, Promise!Next
<1> QED
  BY <1>3, <1>4
LEMMA BeginMaps ==
  ASSUME UndoInv, NEW p \in Procs, Begin(p)
  PROVE  Maps
<1>1. ASSUME NEW P \in Selections, NEW a \in BOOLEAN, Preview(p, P) \/ Undo(p, P, a)
      PROVE  Maps
  <2>1. \A q \in Procs \ {p} : proc'[q] = proc[q]
    BY <1>1, Facts DEF Preview, Undo, Become
  <2>2. lock # p
    BY <1>1, NotHolding DEF Preview, Undo
  <2> QED
    BY <1>1, <2>1, <2>2, MapsQuiet, Facts DEF Preview, Undo
<1>2. ASSUME NEW P \in Selections, NEW a \in BOOLEAN, Request(p, P, a)
      PROVE  Maps
  <2>1. lock = None /\ lock' = p /\ proc'[p].grant = 0 /\ UNCHANGED <<ledger, clock, touched>>
    BY <1>2, Facts DEF Request, Free, Become, Idle
  <2>2. Writer = None /\ Writer' = None
    BY <2>1 DEF Writer
  <2> QED
    BY <2>1, <2>2, QuietViews, MappedVars
<1>3. ASSUME NEW r \in Grants, Approve(p, r)
      PROVE  Maps
  <2>1. CASE State(r) = "pending" /\ ClaimGrant(p, r)
    <3>1. "consume" \notin Events(r.id)
      BY <1>3 DEF UndoInv, LedgerOK, Approve
    <3>2. r \in Live(clock)
      <4>1. Events(r.id) \cap Terminal = {} /\ ~(r.expires <= clock)
        BY <2>1 DEF State, Terminal
      <4> QED
        BY <4>1 DEF Live, UndoInv, LedgerOK
    <3> QED
      BY <1>3, <2>1, <3>1, <3>2, MapsClaim DEF Approve, Free
  <2>2. CASE Append1(Resolution("expire", r)) /\ UNCHANGED <<lock, proc>>
    BY <1>3, <2>2, MapsLapse DEF Approve, Terminal
  <2> QED
    BY <1>3, <2>1, <2>2 DEF Approve
<1>4. ASSUME NEW r \in Grants, Deny(p, r)
      PROVE  Maps
  <2>1. CASE Append1(Resolution("deny", r))
    BY <1>4, <2>1, MapsLapse DEF Deny, Terminal
  <2>2. CASE Append1(Resolution("expire", r))
    BY <1>4, <2>2, MapsLapse DEF Deny, Terminal
  <2> QED
    BY <1>4, <2>1, <2>2 DEF Deny
<1>5. ASSUME NEW r \in Grants, Execute(p, r)
      PROVE  Maps
  BY <1>5, MapsClaim DEF Execute, Free
<1> QED
  BY <1>1, <1>2, <1>3, <1>4, <1>5 DEF Begin

LEMMA AsksMaps ==
  ASSUME UndoInv, NEW p \in Procs, Reserve(p) \/ Lodge(p)
  PROVE  Maps
<1>1. CASE Reserve(p)
  <2>1. p \in Asking
    BY <1>1 DEF Reserve, At, Asking
  <2>2. PICK hashes : hashes = Hashes(proc[p].paths)
    OBVIOUS
  <2> QED
    BY <1>1, <2>1, <2>2, MapsAsk, BoundsAssumption DEF Reserve, Reserving
<1>2. CASE Lodge(p)
  <2>1. p \in Asking /\ p = lock
    BY <1>2, Facts DEF Lodge, At, Asking, ProcOK, NotWorking, Working
  <2>2. PICK hashes : hashes = Hashes(proc[p].paths)
    OBVIOUS
  <2>3. PICK allow \in BOOLEAN : allow = proc[p].allow
    BY Facts DEF States
  <2> QED
    BY <1>2, <2>1, <2>2, <2>3, MapsAsk, BoundsAssumption DEF Lodge, Reserving, Unlock
<1> QED
  BY <1>1, <1>2

(* A step of a process that keeps its grant, and what it does not say.     *)
LEMMA MapsOwn ==
  ASSUME UndoInv, UNCHANGED <<ledger, clock, lock, touched>>, NEW p \in Procs,
         NEW s, Become(p, s), s.grant = proc[p].grant
  PROVE  Maps
<1>1. \A q \in Procs : proc'[q].grant = proc[q].grant
  BY Facts DEF Become
<1> QED
  BY <1>1, MapsQuiet, Facts

LEMMA MapsGoto ==
  ASSUME UndoInv, UNCHANGED <<ledger, clock, lock, touched>>, NEW p \in Procs,
         NEW pc \in PCs, Goto(p, pc)
  PROVE  Maps
<1>1. Become(p, [proc[p] EXCEPT !.pc = pc])
  BY GotoIs
<1>2. [proc[p] EXCEPT !.pc = pc].grant = proc[p].grant
  BY Facts DEF States
<1> QED
  BY <1>1, <1>2, MapsOwn

LEMMA ScopeMaps ==
  ASSUME UndoInv, NEW p \in Procs, Scope(p)
  PROVE  Maps
<1>1. proc[p].grant # 0
  BY Facts DEF Scope, At, ProcOK, NotWorking
<1>2. PICK r \in Grants : r = Grant(proc[p].grant) /\ (proc[p].pc # "linger" => lock = p)
  BY <1>1, Holder
<1>3. CASE Plan(r.paths, r.allow) = r.paths
  <2>1. (Goto(p, "guard") \/ Goto(p, "recheck")) /\ UNCHANGED <<ledger, lock>>
    BY <1>2, <1>3 DEF Scope
  <2> QED
    BY <2>1, MapsGoto DEF Scope, PCs
<1>4. CASE Plan(r.paths, r.allow) # r.paths
  BY <1>2, <1>4, MapsLeave DEF Scope, Unlock, Terminal
<1> QED
  BY <1>3, <1>4

LEMMA GuardMaps ==
  ASSUME UndoInv, NEW p \in Procs, CheckGuard(p) \/ RecheckGuard(p)
  PROVE  Maps
<1>1. UNCHANGED <<clock, touched>>
  BY DEF CheckGuard, RecheckGuard
<1>2. CASE Refused(p)
  BY <1>1, <1>2, RefusedIs, MapsStop
<1>3. ASSUME NEW pc \in {"consume", "arm"}, Goto(p, pc), UNCHANGED <<lock, ledger>>
      PROVE  Maps
  BY <1>1, <1>3, MapsGoto DEF PCs
<1> QED
  BY <1>2, <1>3 DEF CheckGuard, RecheckGuard

LEMMA ConsumeMaps ==
  ASSUME UndoInv, NEW p \in Procs, Consume(p)
  PROVE  Maps
<1>1. proc[p].grant # 0 /\ proc[p].pc = "consume"
  BY Facts DEF Consume, At, ProcOK, NotWorking
<1>2. PICK r \in Grants :
     /\ r = Grant(proc[p].grant) /\ r.id = proc[p].grant
     /\ r.event = "reserve" /\ "consume" \notin Events(r.id) /\ lock = p
  BY <1>1, Holder
<1>3. Append1(Resolution("consume", r)) /\ UNCHANGED <<clock, touched, lock>>
  BY <1>2 DEF Consume
<1>4. /\ Grants' = Grants /\ Issued' = Issued /\ Written' = Written
      /\ Holding' = Holding /\ Spent' = Spent \cup {View(r)}
  BY <1>2, <1>3, ResolvedViews
<1>5. proc'[p].grant = proc[p].grant
  BY Facts DEF Consume, Goto, States
<1>6. Writer' = Writer
  BY <1>2, <1>3, <1>4, <1>5, WriterKept
<1>7. Writer = View(r) /\ Writer # None
  BY <1>1, <1>2, WriterIs, Views
<1>8. View(r).once /\ View(r) \notin Spent
  BY <1>2, Views DEF View, Spent
<1>9. Promise!Spend
  BY <1>4, <1>6, <1>7, <1>8 DEF Promise!Spend, Issued, Holding, Spent, Written
<1> QED
  BY <1>9 DEF Maps, Promise!Next

LEMMA WriteMaps ==
  ASSUME UndoInv, NEW p \in Procs, NEW q, Revert(p, q) \/ RevertFails(p, q)
  PROVE  Maps
<1>1. /\ proc[p].pc = "write" /\ q \in proc[p].paths
      /\ UNCHANGED <<ledger, clock, lock>>
  BY Facts DEF Revert, RevertFails, At, ProcOK
<1>2. /\ proc'[p].grant = proc[p].grant
      /\ \A x \in Procs \ {p} : proc'[x] = proc[x]
  BY Facts DEF Revert, RevertFails, Become, Goto, States
<1>3. CASE touched' = touched
  BY <1>1, <1>2, <1>3, MapsQuiet, Facts
<1>4. CASE touched' = touched \cup {<<proc[p].grant, q>>}
  BY <1>1, <1>2, <1>4, MapsWrite
<1> QED
  BY <1>3, <1>4 DEF Revert, RevertFails

LEMMA RecordMaps ==
  ASSUME UndoInv, NEW p \in Procs,
         WriteGuard(p) \/ RecordPartial(p) \/ AppendTurn(p) \/ FailRow(p) \/ ExecuteRow(p)
  PROVE  Maps
<1>1. \A x \in Procs : proc'[x].grant = proc[x].grant
  <2>1. PICK s : Become(p, s) /\ s.grant = proc[p].grant
    <3>1. ASSUME NEW x, NEW y, NEW z
          PROVE  /\ [proc[p] EXCEPT !.pc = x, !.todo = y].grant = proc[p].grant
                 /\ [proc[p] EXCEPT !.pc = x, !.since = z].grant = proc[p].grant
      BY Facts DEF States
    <3>2. ASSUME NEW s, Become(p, s), s.grant = proc[p].grant
          PROVE  \E x : Become(p, x) /\ x.grant = proc[p].grant
      BY <3>2
    <3>3. CASE WriteGuard(p)
      BY <3>1, <3>2, <3>3 DEF WriteGuard
    <3>4. CASE RecordPartial(p)
      BY <3>1, <3>2, <3>4 DEF RecordPartial
    <3>5. CASE AppendTurn(p)
      BY <3>1, <3>2, <3>5 DEF AppendTurn
    <3>6. CASE FailRow(p)
      BY <3>1, <3>2, <3>6 DEF FailRow
    <3>7. CASE ExecuteRow(p)
      BY <3>1, <3>2, <3>7 DEF ExecuteRow
    <3> QED
      BY <3>3, <3>4, <3>5, <3>6, <3>7
  <2> QED
    BY <2>1, Facts DEF Become
<1>2. lock # None => proc'[lock].grant = proc[lock].grant
  BY <1>1, Facts
<1>3. CASE UNCHANGED <<ledger, clock, lock, touched>>
  BY <1>2, <1>3, MapsQuiet
<1>4. CASE FailRow(p) /\ Append1(Resolution("fail", Grant(proc[p].grant)))
  <2>1. PICK r \in Grants : r = Grant(proc[p].grant)
    BY <1>4, Facts, Holder DEF FailRow, At, ProcOK, NotWorking
  <2> QED
    BY <1>2, <1>4, <2>1, MapsLapse DEF FailRow, Terminal
<1>5. CASE ExecuteRow(p)
  <2>1. PICK r \in Grants : r = Grant(proc[p].grant)
    BY <1>5, Facts, Holder DEF ExecuteRow, At, ProcOK, NotWorking
  <2> QED
    BY <1>5, <2>1, MapsLeave DEF ExecuteRow, Terminal, Unlock
<1> QED
  BY <1>3, <1>4, <1>5 DEF WriteGuard, RecordPartial, AppendTurn, FailRow

LEMMA EndMaps ==
  ASSUME UndoInv, NEW p \in Procs, RemoveGuard(p) \/ Crash(p)
  PROVE  Maps
<1>1. /\ Become(p, Idle) /\ lock' = IF lock = p THEN None ELSE lock
      /\ UNCHANGED <<ledger, clock, touched>>
  BY DEF RemoveGuard, Crash, Locked, Unlock
<1> QED
  BY <1>1, MapsStop

(* The clock ends grants, also that of the writer.                         *)
LEMMA WorldMaps ==
  ASSUME UndoInv, World
  PROVE  Maps
<1>1. UNCHANGED <<ledger, lock, proc, touched>>
  BY DEF World, Edit, Purge, Tick
<1>2. CASE clock' = clock
  BY <1>1, <1>2, MapsQuiet
<1>3. CASE Tick
  <2>1. /\ Grants' = Grants /\ Issued' = Issued /\ Spent' = Spent /\ Written' = Written
        /\ Writer' = Writer
    BY <1>1, QuietViews, WriterKept
  <2>2. Live(clock)' \subseteq Live(clock)
    <3>1. \A id : Events(id)' = Events(id)
      BY <1>1 DEF Events
    <3>2. \A r \in Grants : r.expires \in Nat
      BY DEF UndoInv, LedgerOK
    <3>3. clock' = clock + 1 /\ clock \in Nat
      BY <1>3, Facts DEF Tick, UndoInv
    <3>4. \A r \in Grants : r.expires > clock' => r.expires > clock
      BY <3>2, <3>3
    <3> QED
      BY <2>1, <3>1, <3>4 DEF Live
  <2>3. Holding' = Holding \ (Holding \ Holding')
    BY <2>2 DEF Holding, View
  <2>4. Promise!Lapse(Holding \ Holding')
    BY <2>1, <2>3 DEF Promise!Lapse, Issued, Holding, Spent, Written
  <2>5. Holding \ Holding' \in SUBSET Holding
    OBVIOUS
  <2> QED
    BY <2>4, <2>5 DEF Maps, Promise!Next, Holding
<1> QED
  BY <1>2, <1>3 DEF World, Edit, Purge

LEMMA InitMaps == Init => Promise!Init
<1> SUFFICES ASSUME Init PROVE Promise!Init
  OBVIOUS
<1>1. Grants = {} /\ Live(clock) = {} /\ Writer = None /\ touched = {}
  BY DEF Init, Range, Grants, Live, Writer
<1> QED
  BY <1>1 DEF Promise!Init

LEMMA NextMaps == UndoInv /\ [Next]_vars => Maps
<1> SUFFICES ASSUME UndoInv, [Next]_vars PROVE Maps
  OBVIOUS
<1>1. CASE World
  BY <1>1, WorldMaps
<1>2. ASSUME NEW p \in Procs, Begin(p) PROVE Maps
  BY <1>2, BeginMaps
<1>3. ASSUME NEW p \in Procs, Continue(p) PROVE Maps
  BY <1>3, AsksMaps, ScopeMaps, GuardMaps, ConsumeMaps, WriteMaps, RecordMaps, EndMaps
     DEF Continue
<1>4. ASSUME NEW p \in Procs, Crash(p) PROVE Maps
  BY <1>4, EndMaps
<1>5. CASE UNCHANGED vars
  BY <1>5, MapsQuiet DEF vars
<1> QED
  BY <1>1, <1>2, <1>3, <1>4, <1>5 DEF Next

(* The coordinator implements one-time grants.                             *)
THEOREM PromiseKept == Spec => KeepsPromise
<1>1. UndoInv /\ [Next]_vars => [Promise!Next]_(Promise!vars)
  BY NextMaps DEF Maps
<1> QED
  BY <1>1, InitMaps, UndoInvariant, PTL DEF Spec, KeepsPromise, Promise!Spec

-----------------------------------------------------------------------------
(* What the grants imply, and the coordinator with them.                   *)

(* Exclusive is inductive: the only step that adds a holder compares it    *)
(* with every other one.                                                   *)
LEMMA Exclusion == Promise!Spec => []Promise!Exclusive
<1>1. Promise!Init => Promise!Exclusive
  BY DEF Promise!Init, Promise!Exclusive, Promise!Holders
<1>2. Promise!Exclusive /\ [Promise!Next]_(Promise!vars) => Promise!Exclusive'
  <2> SUFFICES ASSUME Promise!Exclusive, [Promise!Next]_(Promise!vars)
               PROVE  Promise!Exclusive'
    OBVIOUS
  <2>1. ASSUME NEW g \in Promise!Grants, Promise!Issue(g)
        PROVE  Promise!Exclusive'
    <3>1. Promise!Holders' = Promise!Holders \cup {g}
      BY <2>1 DEF Promise!Issue, Promise!Holders
    <3>2. \A h \in Promise!Holders : h.files \cap g.files = {}
      BY <2>1 DEF Promise!Issue
    <3> QED
      BY <3>1, <3>2 DEF Promise!Exclusive
  <2>2. ASSUME NEW g \in Promise!Grants, Promise!Claim(g)
        PROVE  Promise!Exclusive'
    <3>1. Promise!Holders' \subseteq Promise!Holders
      BY <2>2 DEF Promise!Claim, Promise!Holders
    <3> QED
      BY <3>1 DEF Promise!Exclusive
  <2>3. ASSUME NEW S, Promise!Lapse(S) \/ Promise!Leave(S)
        PROVE  Promise!Exclusive'
    <3>1. Promise!Holders' \subseteq Promise!Holders
      BY <2>3 DEF Promise!Lapse, Promise!Leave, Promise!Holders
    <3> QED
      BY <3>1 DEF Promise!Exclusive
  <2>4. ASSUME (\E f \in Paths : Promise!Write(f)) \/ Promise!Spend \/ UNCHANGED Promise!vars
        PROVE  Promise!Exclusive'
    <3>1. Promise!Holders' = Promise!Holders
      BY <2>4 DEF Promise!Write, Promise!Spend, Promise!vars, Promise!Holders
    <3> QED
      BY <3>1 DEF Promise!Exclusive
  <2> QED
    BY <2>1, <2>2, <2>3, <2>4 DEF Promise!Next
<1> QED
  BY <1>1, <1>2, PTL DEF Promise!Spec

(* No file is written that was not granted, and a token is always spent    *)
(* before the first file is written in its name.                           *)
LEMMA GrantedWrites == Promise!Spec => []Promise!WritesGranted
<1>1. Promise!Init => Promise!WritesGranted
  BY DEF Promise!Init, Promise!WritesGranted
<1>2. Promise!WritesGranted /\ [Promise!Next]_(Promise!vars) => Promise!WritesGranted'
  <2> SUFFICES ASSUME Promise!WritesGranted, [Promise!Next]_(Promise!vars)
               PROVE  Promise!WritesGranted'
    OBVIOUS
  <2>1. Spent \subseteq Spent'
    BY DEF Promise!Next, Promise!Issue, Promise!Claim, Promise!Lapse, Promise!Leave,
           Promise!Write, Promise!Spend, Promise!vars, Spent
  <2>2. CASE UNCHANGED Written
    BY <2>1, <2>2 DEF Promise!WritesGranted, Spent, Written
  <2>3. ASSUME NEW f \in Paths, Promise!Write(f)
        PROVE  Promise!WritesGranted'
    <3>1. Written' = Written \cup {<<Writer, f>>} /\ f \in Writer.files
      BY <2>3 DEF Promise!Write, Written
    <3>2. Writer.once => Writer \in Spent'
      BY <2>1, <2>3 DEF Promise!Write, Spent
    <3>3. \A w \in Written : w[2] \in w[1].files /\ (w[1].once => w[1] \in Spent)
      BY DEF Promise!WritesGranted, Spent, Written
    <3>4. \A w \in Written' : w[2] \in w[1].files /\ (w[1].once => w[1] \in Spent')
      <4> HIDE DEF Spent, Written, Writer
      <4> QED
        BY <2>1, <3>1, <3>2, <3>3
    <3> QED
      BY <3>4 DEF Promise!WritesGranted, Spent, Written
  <2> QED
    BY <2>2, <2>3
    DEF Promise!Next, Promise!Issue, Promise!Claim, Promise!Lapse, Promise!Leave,
        Promise!Spend, Promise!vars, Written
<1> QED
  BY <1>1, <1>2, PTL DEF Promise!Spec

(* A spent token is never presented with success a second time.            *)
LEMMA OneUse == Promise!Spec => Promise!NeverTwice
<1>1. [Promise!Next]_(Promise!vars)
        => [Writer' \in {Writer, None} \/ Writer' \notin Spent]_(Promise!vars)
  BY DEF Promise!Next, Promise!Issue, Promise!Claim, Promise!Lapse, Promise!Leave,
         Promise!Write, Promise!Spend, Promise!vars, Spent
<1> QED
  BY <1>1, PTL DEF Promise!Spec, Promise!NeverTwice, Spent

(* Two grants that may still write share no file: begin and claim under    *)
(* the lock, whatever the clock and the other processes do.                *)
THEOREM HoldersApart == Spec => []Promise!Exclusive
  BY Exclusion, PromiseKept, PTL DEF KeepsPromise

(* The coordinator writes only the files of a grant, in the name of a      *)
(* token only after the row that consumes it, and never again with a token *)
(* that was consumed before.                                               *)
THEOREM TokensAreOneUse == Spec => []Promise!WritesGranted /\ Promise!NeverTwice
  BY GrantedWrites, OneUse, PromiseKept, PTL DEF KeepsPromise

(* So no live grant holds a file that another grant's executor writes:     *)
(* both would be holders in the view.                                      *)
THEOREM Uncontested == Spec => []WritesUncontested
<1>1. UndoInv /\ Promise!Exclusive => WritesUncontested
  <2> SUFFICES ASSUME UndoInv, Promise!Exclusive, NEW p \in Procs,
                      Writing(p), proc[p].grant # 0,
                      NEW r \in Live(clock), r.id # proc[p].grant
               PROVE  r.paths \cap proc[p].paths = {}
    BY DEF WritesUncontested
  <2>1. PICK g \in Grants :
       /\ g = Grant(proc[p].grant) /\ g.id = proc[p].grant /\ g.paths = proc[p].paths
       /\ lock = p
    BY Holder DEF Writing
  <2>2. Writer = View(g) /\ Writer # None
    BY <2>1, WriterIs, Views
  <2>3. {Writer, View(r)} \subseteq Promise!Holders
    BY <2>2 DEF Promise!Holders
  <2>4. View(r) # View(g)
    BY <2>1 DEF View
  <2>5. View(r).files \cap View(g).files = {}
    BY <2>2, <2>3, <2>4 DEF Promise!Exclusive
  <2> QED
    BY <2>1, <2>5 DEF View
<1> QED
  BY <1>1, HoldersApart, UndoInvariant, PTL

=============================================================================
