---------------------------- MODULE OneTimeGrants ----------------------------
(***************************************************************************)
(* What the undo coordinator promises, without ledger, lock, clock or      *)
(* processes: permissions to write files.  A grant is issued for files     *)
(* that nobody else may write, is live until it lapses, and is exercised   *)
(* by one writer at a time; a grant that is good for one use (a token) is  *)
(* spent before its writer touches a file, and is never exercised again.   *)
(* UndoCoordinator implements this module.                                 *)
(***************************************************************************)
CONSTANTS
  Files,
  Ids,   \* what tells two grants apart
  None

Grants == [id : Ids, files : SUBSET Files, once : BOOLEAN]

VARIABLES
  issued,  \* every grant ever issued
  live,    \* the grants that hold their files
  spent,   \* the one-time grants that have been used
  writer,  \* the grant in whose name somebody may write now, or None
  written  \* what was written: pairs of a grant and a file

vars == <<issued, live, spent, writer, written>>

Holders == live \cup ({writer} \ {None})

Init ==
  /\ issued = {} /\ live = {} /\ spent = {} /\ writer = None /\ written = {}

(* A grant is issued only for files that no holder has. *)
Issue(g) ==
  /\ g \notin issued
  /\ \A h \in Holders : h.files \cap g.files = {}
  /\ issued' = issued \cup {g} /\ live' = live \cup {g}
  /\ UNCHANGED <<spent, writer, written>>

(* Grants expire, are denied, fail, or have been executed. *)
Lapse(S) ==
  /\ live' = live \ S
  /\ UNCHANGED <<issued, spent, writer, written>>

Claim(g) ==
  /\ writer = None /\ g \in live \ spent
  /\ writer' = g
  /\ UNCHANGED <<issued, live, spent, written>>

Spend ==
  /\ writer # None /\ writer.once /\ writer \notin spent
  /\ spent' = spent \cup {writer}
  /\ UNCHANGED <<issued, live, writer, written>>

Write(f) ==
  /\ writer # None /\ f \in writer.files
  /\ writer.once => writer \in spent
  /\ written' = written \cup {<<writer, f>>}
  /\ UNCHANGED <<issued, live, spent, writer>>

(* The writer is done, has failed, or has died. *)
Leave(S) ==
  /\ writer' = None /\ live' = live \ S
  /\ UNCHANGED <<issued, spent, written>>

Next ==
  \/ \E g \in Grants : Issue(g) \/ Claim(g)
  \/ \E S \in SUBSET live : Lapse(S) \/ Leave(S)
  \/ \E f \in Files : Write(f)
  \/ Spend

Spec == Init /\ [][Next]_vars

-----------------------------------------------------------------------------

(* No two holders may write the same file.                                 *)
Exclusive == \A g, h \in Holders : g # h => g.files \cap h.files = {}

(* Only granted files were written, and in the name of a one-time grant    *)
(* only after it was spent.                                                *)
WritesGranted ==
  \A w \in written : /\ w[2] \in w[1].files
                     /\ w[1].once => w[1] \in spent

(* A one-time grant that was spent never gets a writer again.              *)
NeverTwice == [][writer' \in {writer, None} \/ writer' \notin spent]_vars

=============================================================================
