------------------------------ MODULE MCAttest ------------------------------
(* The instances of Attestation that TLC explores.                          *)
EXTENDS Attestation

TheHash(b) == CASE b = "b" -> "h" [] b = "c" -> "k" [] OTHER -> None

TheResults(b, v) ==
  CASE v = "good"  -> {"passed"}
    [] v = "bad"   -> {"failed"}
    [] v = "shaky" -> {"passed", "failed"}
    [] OTHER       -> {"invalid"}

TheTarget(t) == IF t = "z" THEN "it" ELSE "lib"
TheMeasured(t) == IF t = "y" THEN {"src", "tests"} ELSE {"src"}
TheScope(target) == IF target = "it" THEN {"src"} ELSE {}

Suite(x, y, z) == [t \in Tests |-> CASE t = "x" -> x [] t = "y" -> y [] t = "z" -> z]

Both == {{"lib", "it"}}

Nothing == [ derives |-> 0, captures |-> 0, verifies |-> 0, reviews |-> 0, declares |-> 0,
             coverages |-> 0, kills |-> 0, edits |-> 0, refactors |-> 0,
             crates |-> Both, versions |-> {"good"}, tests |-> {Suite("b", None, None)} ]

(* Two verifications share the extract directory while the user edits and  *)
(* commits; a process may be killed.                                       *)
Replays == [Nothing EXCEPT
  !.derives = 1, !.verifies = 2, !.edits = 2, !.kills = 1, !.versions = {"good", "shaky", "broken"}]

(* A burst is noted while runs are captured and verdicts are appended.     *)
Overlay == [Nothing EXCEPT
  !.derives = 1, !.coverages = 1, !.captures = 1, !.verifies = 1, !.edits = 2, !.kills = 1,
  !.versions = {"good", "shaky"}]

(* A claim is refuted, and then everything else happens to it.             *)
Refutation == [Nothing EXCEPT
  !.derives = 2, !.coverages = 1, !.captures = 1, !.verifies = 2, !.edits = 1,
  !.versions = {"bad", "good"}]

(* Tests are renamed, rewritten and moved between two targets.             *)
Renames == [Nothing EXCEPT
  !.derives = 2, !.captures = 1, !.refactors = 2,
  !.crates = {{"lib"}, {"lib", "it"}},
  !.tests = {Suite("b", None, None), Suite("c", None, None), Suite(None, "b", None),
             Suite("b", "b", "c"), Suite(None, None, "b"), Suite("u", "c", None)}]

(* Hand-written claims are reviewed beside a refuted one.                  *)
Humans == [Nothing EXCEPT !.declares = 2, !.reviews = 2, !.derives = 1, !.verifies = 1, !.versions = {"bad"}]

Symmetry == Permutations(Procs)

Instances == {Replays, Overlay, Refutation, Renames, Humans}
=============================================================================
