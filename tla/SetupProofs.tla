----------------------------- MODULE SetupProofs -----------------------------
(***************************************************************************)
(* What init and uninstall promise, for every set of hook events and any   *)
(* number of commands, edits of the user's and kills.                      *)
(*                                                                         *)
(* Nothing of the user's is lost (TheirsKept): a file that parses has all  *)
(* of it, and a file that a kill left torn has a whole backup, because the *)
(* backup is opened only while the file is whole (KeptInv).                *)
(*                                                                         *)
(* A command that ran to its end did what it reports (AsReported), and no  *)
(* second source of Codex hooks appears (NoSecondSource): what the steps   *)
(* that are over have done still holds of what the files will be when the  *)
(* write that is under way is through (StepsInv).                          *)
(***************************************************************************)
EXTENDS Setup, SequenceTheorems, TLAPS

InitOrder == {"scaffold", "ignore", "claude", "mcp", "codex", "codexMcp", "service"}
UninstallOrder ==
  {"unclaude", "uncodex", "untoml", "unmcp", "untomlMcp", "unservice", "archive"}
Steps == InitOrder \cup UninstallOrder

(* The steps for Codex come in pairs, and only the service comes after.    *)
InPairs(todo) ==
  \A i \in DOMAIN todo : todo[i] = "codex" =>
    /\ i + 1 \in DOMAIN todo /\ todo[i + 1] = "codexMcp"
    /\ \A j \in DOMAIN todo : j > i + 1 => todo[j] = "service"

Shaped(c) ==
  /\ c = [ op |-> c.op, flags |-> c.flags, refused |-> c.refused, edited |-> c.edited,
           stage |-> c.stage, on |-> c.on, text |-> c.text, todo |-> c.todo ]
  /\ c.op \in {"init", "uninstall"}
  /\ c.stage \in {"next", "copy", "open", "write"}

Planned(c, todo) ==
  /\ todo \in Seq(Steps) /\ InPairs(todo)
  /\ Range(todo) \subseteq (IF c.op = "init" THEN InitOrder ELSE UninstallOrder)
  /\ c.refused => c.op = "init" /\ Range(todo) \subseteq {"service"}

Running(c) ==
  /\ Shaped(c) /\ Planned(c, c.todo) /\ c.todo # << >>
  /\ c.stage # "next" => c.on \in Files /\ c.text \in TextsOf(c.on) /\ ~ c.refused

Stored(f, c) == c \in TextsOf(f) \cup {None, Torn}

TypeInv ==
  /\ file = [f \in Files |-> file[f]] /\ \A f \in Files : Stored(f, file[f])
  /\ bak = [f \in Files |-> bak[f]] /\ \A f \in Files : Stored(f, bak[f])
  /\ theirs = [f \in Files |-> theirs[f]]
  /\ cmd = Idle \/ Running(cmd)

(* What the user has put into a file is in it while it parses, and in its  *)
(* backup while it does not.                                               *)
Held(f) == theirs[f] \subseteq TheirsIn(IF file[f] = Torn THEN bak[f] ELSE file[f])

KeptInv ==
  /\ \A f \in Json : Held(f)
  /\ cmd.stage # "next" /\ cmd.on \in Json => theirs[cmd.on] \subseteq TheirsIn(cmd.text)
  /\ cmd.stage \in {"copy", "open"} => file[cmd.on] \notin {None, Torn}
  /\ cmd.stage = "open" => bak[cmd.on] = file[cmd.on]

AllMarked(c) == \A e \in Events : Marked(c, e)
NoHooks(c) == \A e \in Events : ~ Marked(c, e)
NoServer(c) == "ours" \notin Declared(c)

(* What the steps of the command c that are not due any more have done: to *)
(* the files w, to the store and to the unit.                              *)
InitDid(c, due, w, st) ==
  /\ "scaffold" \notin due => st # None
  /\ c.flags.hook /\ "claude" \notin due /\ "claude" \notin c.edited => AllMarked(w["claude"])
  /\ c.flags.hook /\ c.flags.codex /\ "codex" \notin due /\ ~ c.refused
     /\ "hooks" \notin c.edited /\ "toml" \notin c.edited =>
       AllMarked(w["hooks"]) \/ AllMarked(w["toml"])

UninstallDid(c, due, w, st, u) ==
  /\ "unclaude" \notin due /\ "claude" \notin c.edited => NoHooks(w["claude"])
  /\ "uncodex" \notin due /\ "hooks" \notin c.edited => NoHooks(w["hooks"])
  /\ "untoml" \notin due /\ "toml" \notin c.edited => NoHooks(w["toml"])
  /\ "unmcp" \notin due /\ "mcp" \notin c.edited => NoServer(w["mcp"])
  /\ "untomlMcp" \notin due /\ "toml" \notin c.edited => NoServer(w["toml"])
  /\ "unservice" \notin due /\ c.flags.service # "no" => ~ u
  /\ "archive" \notin due => st = None

Did(c, due, w, st, u) ==
  IF c.op = "init" THEN InitDid(c, due, w, st) ELSE UninstallDid(c, due, w, st, u)

(* The step that is writing counts as over, in what the file will be.      *)
Due(c) == Range(IF c.stage = "next" THEN c.todo ELSE Tail(c.todo))
Coming == IF cmd.stage = "next" THEN file ELSE [file EXCEPT ![cmd.on] = cmd.text]

StepsInv == cmd # Idle => Did(cmd, Due(cmd), Coming, store, unit)

DoneInv ==
  done # None =>
    /\ cmd = Idle
    /\ done = [op |-> done.op, flags |-> done.flags, refused |-> done.refused, edited |-> done.edited]
    /\ done.op \in {"init", "uninstall"}
    /\ Did(done, {}, file, store, unit)

PlaceInv ==
  /\ born \in Nat /\ store \in Nat \cup {None} /\ now \in Seconds
  /\ archives \in [Seconds -> Nat \cup {None}]
  /\ 1 .. born = (Range(archives) \cup {store}) \ {None}

SetupInv == TypeInv /\ KeptInv /\ PlaceInv /\ StepsInv /\ DoneInv

-----------------------------------------------------------------------------
(* What is in a text.                                                      *)

TheirHook(c, e) == e \in Listed(c) /\ \E g \in c.hooks[e] : "theirs" \in g

LEMMA TextFacts ==
  ASSUME NEW c \in Texts
  PROVE  /\ c # None /\ c # Torn
         /\ c.hooks = None \/ c.hooks \in Tables
         /\ c.servers = None \/ c.servers \in SUBSET Servers
         /\ c = [hooks |-> c.hooks, servers |-> c.servers]
<1>1. c # None /\ c # Torn
  BY AbsentAssumption
<1> QED
  BY <1>1 DEF Texts

LEMMA NothingIn ==
  ASSUME NEW c \in {None, Torn}
  PROVE  Listed(c) = {} /\ Commands(c) = {} /\ Declared(c) = {} /\ TheirsIn(c) = {} /\ OursIn(c) = {}
<1>1. Listed(c) = {} /\ Declared(c) = {}
  BY DEF Listed, Declared
<1>2. Commands(c) = {}
  BY <1>1 DEF Commands
<1> QED
  BY <1>1, <1>2 DEF TheirsIn, OursIn, Entries

LEMMA Marks ==
  ASSUME NEW c, NEW e \in Events
  PROVE  Marked(c, e) <=> e \in Listed(c) /\ \E g \in c.hooks[e] : "ours" \in g
  BY DEF Marked, Commands

(* Of the user's: what is not ours. *)
LEMMA Kept ==
  ASSUME NEW c, NEW d, \A e \in Events : TheirHook(c, e) => TheirHook(d, e),
         Declared(c) \ {"ours"} \subseteq Declared(d)
  PROVE  TheirsIn(c) \subseteq TheirsIn(d)
<1> SUFFICES ASSUME NEW x \in TheirsIn(c) PROVE x \in TheirsIn(d)
  OBVIOUS
<1>1. x \in Entries(c) /\ ~ (x[2] = "ours")
  BY DEF TheirsIn, OursIn
<1>2. CASE x \in Commands(c)
  <2>1. PICK e \in Events, w \in {"ours", "theirs"} :
          x = <<e, w>> /\ e \in Listed(c) /\ \E g \in c.hooks[e] : w \in g
    BY <1>2 DEF Commands
  <2>2. w = "theirs"
    BY <1>1, <2>1
  <2>3. TheirHook(d, e)
    BY <2>1, <2>2 DEF TheirHook
  <2>4. x \in Commands(d)
    BY <2>1, <2>2, <2>3 DEF TheirHook, Commands
  <2> QED
    BY <1>1, <2>4 DEF TheirsIn, OursIn, Entries
<1>3. CASE x \in {"server"} \X Declared(c)
  <2>1. x[2] \in Declared(d)
    BY <1>1, <1>3
  <2>2. x \in {"server"} \X Declared(d)
    BY <1>3, <2>1
  <2> QED
    BY <1>1, <2>2 DEF TheirsIn, OursIn, Entries
<1> QED
  BY <1>1, <1>2, <1>3 DEF Entries

LEMMA NothingOfOurs ==
  ASSUME NEW c, NoHooks(c), NoServer(c)
  PROVE  OursIn(c) = {}
<1> SUFFICES ASSUME NEW x \in OursIn(c) PROVE FALSE
  OBVIOUS
<1>1. x \in Entries(c) /\ x[2] = "ours"
  BY DEF OursIn
<1>2. CASE x \in Commands(c)
  <2>1. PICK e \in Events, w \in {"ours", "theirs"} : x = <<e, w>>
    BY <1>2 DEF Commands
  <2>2. <<e, "ours">> \in Commands(c)
    BY <1>1, <1>2, <2>1
  <2> QED
    BY <2>2 DEF NoHooks, Marked
<1>3. CASE x \in {"server"} \X Declared(c)
  BY <1>1, <1>3 DEF NoServer
<1> QED
  BY <1>1, <1>2, <1>3 DEF Entries

(* A change of the servers leaves the hooks as they are. *)
LEMMA SameHooks ==
  ASSUME NEW c \in Texts, NEW d \in Texts, d.hooks = c.hooks
  PROVE  /\ \A e \in Events : (Marked(d, e) <=> Marked(c, e)) /\ (TheirHook(c, e) => TheirHook(d, e))
         /\ (AllMarked(c) => AllMarked(d)) /\ (NoHooks(c) => NoHooks(d))
<1>1. Listed(d) = Listed(c)
  BY TextFacts DEF Listed
<1>2. \A e \in Events : (Marked(d, e) <=> Marked(c, e)) /\ (TheirHook(c, e) => TheirHook(d, e))
  BY <1>1, Marks DEF TheirHook
<1> QED
  BY <1>2 DEF AllMarked, NoHooks

LEMMA SameServers ==
  ASSUME NEW c \in Texts, NEW d \in Texts, d.servers = c.servers
  PROVE  Declared(d) = Declared(c)
  BY TextFacts DEF Declared

-----------------------------------------------------------------------------
(* Hooks.                                                                  *)

LEMMA Tabled ==
  ASSUME NEW c \in Texts, NEW e \in Events, e \in Listed(c)
  PROVE  c.hooks \in Tables /\ c.hooks[e] \subseteq Groups /\ c.hooks[e] # None
<1>1. c.hooks # None /\ c.hooks[e] # None
  BY DEF Listed
<1> QED
  BY <1>1, TextFacts DEF Tables

LEMMA Hooks ==
  ASSUME NEW f \in Files, f # "mcp", NEW c \in TextsOf(f)
  PROVE  /\ Hooked(c) \in TextsOf(f) /\ AllMarked(Hooked(c))
         /\ TheirsIn(c) \subseteq TheirsIn(Hooked(c)) /\ Declared(Hooked(c)) = Declared(c)
<1>1. c \in Texts /\ (f \in {"claude", "hooks"} => c.servers = None)
  BY DEF TextsOf
<1>2. CASE \A e \in Events : Marked(c, e)
  <2>1. Hooked(c) = c
    BY <1>2 DEF Hooked
  <2> QED
    BY <1>2, <2>1 DEF AllMarked
<1>3. CASE ~ \A e \in Events : Marked(c, e)
  <2>1. PICK had : had = IF c.hooks = None THEN NoEvents ELSE c.hooks
    OBVIOUS
  <2>2. had \in Tables
    BY <1>1, <2>1, TextFacts DEF NoEvents, Tables
  <2>3. PICK t : t = [e \in Events |->
                  IF Marked(c, e) THEN had[e]
                  ELSE (IF had[e] = None THEN {} ELSE had[e]) \cup {{"ours"}}]
    OBVIOUS
  <2>4. Hooked(c) = [c EXCEPT !.hooks = t]
    BY <1>3, <2>1, <2>3 DEF Hooked
  <2>5. \A e \in Events : /\ t[e] \in SUBSET Groups /\ t[e] # None
                          /\ \E g \in t[e] : "ours" \in g
                          /\ had[e] # None => had[e] \subseteq t[e]
    <3> SUFFICES ASSUME NEW e \in Events
                 PROVE  /\ t[e] \in SUBSET Groups /\ t[e] # None
                        /\ \E g \in t[e] : "ours" \in g
                        /\ had[e] # None => had[e] \subseteq t[e]
      OBVIOUS
    <3>1. had[e] = None \/ had[e] \in SUBSET Groups
      BY <2>2 DEF Tables
    <3>2. CASE Marked(c, e)
      <4>1. e \in Listed(c) /\ \E g \in c.hooks[e] : "ours" \in g
        BY <3>2, Marks
      <4>2. had = c.hooks /\ had[e] # None
        BY <2>1, <4>1 DEF Listed
      <4>3. t[e] = had[e]
        BY <2>3, <3>2
      <4> QED
        BY <3>1, <4>1, <4>2, <4>3
    <3>3. CASE ~ Marked(c, e)
      <4>1. PICK old \in SUBSET Groups : old = IF had[e] = None THEN {} ELSE had[e]
        BY <3>1
      <4>2. t[e] = old \cup {{"ours"}}
        BY <2>3, <3>3, <4>1
      <4>3. {"ours"} \in Groups
        BY DEF Groups
      <4>4. t[e] \in SUBSET Groups
        BY <4>1, <4>2, <4>3
      <4>5. t[e] # None
        BY <4>4, AbsentAssumption
      <4> QED
        BY <4>1, <4>2, <4>4, <4>5
    <3> QED
      BY <3>2, <3>3
  <2>6. t \in Tables
    BY <2>3, <2>5 DEF Tables
  <2>7. PICK d : d = [c EXCEPT !.hooks = t]
    OBVIOUS
  <2>8. d.hooks = t /\ d.servers = c.servers /\ d = [hooks |-> t, servers |-> c.servers]
    BY <1>1, <2>7, TextFacts
  <2>9. d \in Texts
    BY <1>1, <2>6, <2>8, TextFacts DEF Texts
  <2>10. t # None
    BY <2>6, AbsentAssumption
  <2>11. \A e \in Events : e \in Listed(d)
    BY <2>5, <2>8, <2>9, <2>10, TextFacts DEF Listed
  <2>12. AllMarked(d)
    BY <2>5, <2>8, <2>11, Marks DEF AllMarked
  <2>13. \A e \in Events : TheirHook(c, e) => TheirHook(d, e)
    <3> SUFFICES ASSUME NEW e \in Events, TheirHook(c, e) PROVE TheirHook(d, e)
      OBVIOUS
    <3>1. e \in Listed(c) /\ \E g \in c.hooks[e] : "theirs" \in g
      BY DEF TheirHook
    <3>2. had = c.hooks /\ had[e] # None
      BY <2>1, <3>1 DEF Listed
    <3> QED
      BY <2>5, <2>8, <2>11, <3>1, <3>2 DEF TheirHook
  <2>14. Declared(d) = Declared(c)
    BY <1>1, <2>8, <2>9, SameServers
  <2>15. TheirsIn(c) \subseteq TheirsIn(d)
    BY <2>13, <2>14, Kept
  <2>16. d \in TextsOf(f)
    BY <1>1, <2>8, <2>9 DEF TextsOf
  <2> QED
    BY <2>4, <2>7, <2>12, <2>14, <2>15, <2>16
<1> QED
  BY <1>2, <1>3

(* The groups of the user's stay, without our commands. *)
LEMMA Strips ==
  ASSUME NEW groups \in SUBSET Groups
  PROVE  /\ Stripped(groups) \in SUBSET Groups
         /\ \A g \in Stripped(groups) : "ours" \notin g
         /\ \A g \in groups : "theirs" \in g => \E h \in Stripped(groups) : "theirs" \in h
<1>1. \A g \in groups : "theirs" \in g => g \ {"ours"} \in Stripped(groups) /\ "theirs" \in g \ {"ours"}
  BY DEF Stripped
<1>2. Stripped(groups) \in SUBSET Groups
  <2>1. \A g \in groups : g \ {"ours"} \in Groups
    BY DEF Groups
  <2> QED
    BY <2>1 DEF Stripped
<1>3. \A g \in Stripped(groups) : "ours" \notin g
  BY DEF Stripped
<1> QED
  BY <1>1, <1>2, <1>3

LEMMA Unhooks ==
  ASSUME NEW f \in Files, f # "mcp", NEW c \in TextsOf(f)
  PROVE  /\ Unhooked(c) \in TextsOf(f) /\ NoHooks(Unhooked(c))
         /\ TheirsIn(c) \subseteq TheirsIn(Unhooked(c)) /\ Declared(Unhooked(c)) = Declared(c)
<1>1. c \in Texts /\ (f \in {"claude", "hooks"} => c.servers = None)
  BY DEF TextsOf
<1>2. PICK after : after = [e \in Events |->
              IF e \in Listed(c)
              THEN IF Stripped(c.hooks[e]) = {} /\ c.hooks[e] # {} THEN None ELSE Stripped(c.hooks[e])
              ELSE None]
  OBVIOUS
<1>3. Unhooked(c) = IF c.hooks = None \/ after = c.hooks THEN c
                    ELSE [c EXCEPT !.hooks = IF after = NoEvents THEN None ELSE after]
  BY <1>2 DEF Unhooked
<1>4. \A e \in Events :
        /\ after[e] = None \/ (after[e] \in SUBSET Groups /\ e \in Listed(c))
        /\ after[e] # None => \A g \in after[e] : "ours" \notin g
        /\ TheirHook(c, e) => after[e] # None /\ \E g \in after[e] : "theirs" \in g
  <2> SUFFICES ASSUME NEW e \in Events
               PROVE  /\ after[e] = None \/ (after[e] \in SUBSET Groups /\ e \in Listed(c))
                      /\ after[e] # None => \A g \in after[e] : "ours" \notin g
                      /\ TheirHook(c, e) => after[e] # None /\ \E g \in after[e] : "theirs" \in g
    OBVIOUS
  <2>1. CASE e \in Listed(c)
    <3>1. PICK groups \in SUBSET Groups : groups = c.hooks[e]
      BY <1>1, <2>1, Tabled
    <3>2. PICK rest : rest = Stripped(groups)
      OBVIOUS
    <3>3. /\ rest \in SUBSET Groups /\ \A g \in rest : "ours" \notin g
          /\ \A g \in groups : "theirs" \in g => \E h \in rest : "theirs" \in h
      BY <3>1, <3>2, Strips
    <3>4. after[e] = IF rest = {} /\ groups # {} THEN None ELSE rest
      BY <1>2, <2>1, <3>1, <3>2
    <3>5. rest # None
      BY <3>3, AbsentAssumption
    <3>6. TheirHook(c, e) => \E g \in groups : "theirs" \in g
      BY <3>1 DEF TheirHook
    <3> QED
      BY <2>1, <3>3, <3>4, <3>5, <3>6
  <2>2. CASE e \notin Listed(c)
    BY <1>2, <2>2 DEF TheirHook
  <2> QED
    BY <2>1, <2>2
<1>5. after \in Tables
  BY <1>2, <1>4 DEF Tables
<1>6. CASE c.hooks = None
  <2>1. Unhooked(c) = c /\ Listed(c) = {}
    BY <1>3, <1>6 DEF Listed
  <2> QED
    BY <2>1, Marks DEF NoHooks
<1>7. CASE after = c.hooks
  <2>1. Unhooked(c) = c
    BY <1>3, <1>7
  <2>2. NoHooks(c)
    BY <1>4, <1>7, Marks DEF NoHooks, Listed
  <2> QED
    BY <2>1, <2>2
<1>8. CASE c.hooks # None /\ after # c.hooks
  <2>1. PICK h : h = IF after = NoEvents THEN None ELSE after
    OBVIOUS
  <2>2. PICK d : d = [c EXCEPT !.hooks = h]
    OBVIOUS
  <2>3. Unhooked(c) = d
    BY <1>3, <1>8, <2>1, <2>2
  <2>4. d.hooks = h /\ d.servers = c.servers /\ d = [hooks |-> h, servers |-> c.servers]
    BY <1>1, <2>2, TextFacts
  <2>5. h = None \/ h \in Tables
    BY <1>5, <2>1
  <2>6. d \in Texts
    BY <1>1, <2>4, <2>5, TextFacts DEF Texts
  <2>7. \A e \in Events : e \in Listed(d) => h = after /\ after[e] # None
    BY <2>1, <2>4 DEF Listed
  <2>8. NoHooks(d)
    BY <1>4, <2>4, <2>7, Marks DEF NoHooks
  <2>9. \A e \in Events : TheirHook(c, e) => TheirHook(d, e)
    <3> SUFFICES ASSUME NEW e \in Events, TheirHook(c, e) PROVE TheirHook(d, e)
      OBVIOUS
    <3>1. after[e] # None /\ \E g \in after[e] : "theirs" \in g
      BY <1>4
    <3>2. h = after /\ h # None
      BY <1>5, <2>1, <3>1, AbsentAssumption DEF NoEvents
    <3> QED
      BY <2>4, <2>6, <3>1, <3>2, TextFacts DEF TheirHook, Listed
  <2>10. Declared(d) = Declared(c)
    BY <1>1, <2>4, <2>6, SameServers
  <2>11. TheirsIn(c) \subseteq TheirsIn(d)
    BY <2>9, <2>10, Kept
  <2>12. d \in TextsOf(f)
    BY <1>1, <2>4, <2>6 DEF TextsOf
  <2> QED
    BY <2>3, <2>8, <2>10, <2>11, <2>12
<1> QED
  BY <1>6, <1>7, <1>8

-----------------------------------------------------------------------------
(* Servers.                                                                *)

LEMMA Registers ==
  ASSUME NEW f \in {"mcp", "toml"}, NEW c \in TextsOf(f)
  PROVE  /\ Registered(c) \in TextsOf(f) /\ Registered(c).hooks = c.hooks
         /\ TheirsIn(c) \subseteq TheirsIn(Registered(c))
<1>1. c \in Texts /\ (f = "mcp" => c.hooks = None)
  BY DEF TextsOf
<1>2. CASE Declared(c) \cap {"ours", "foreign"} # {}
  BY <1>2 DEF Registered
<1>3. CASE Declared(c) \cap {"ours", "foreign"} = {}
  <2>1. PICK s : s = Declared(c) \cup {"ours"}
    OBVIOUS
  <2>2. PICK d : d = [c EXCEPT !.servers = s]
    OBVIOUS
  <2>3. Registered(c) = d
    BY <1>3, <2>1, <2>2 DEF Registered
  <2>4. d.hooks = c.hooks /\ d.servers = s /\ d = [hooks |-> c.hooks, servers |-> s]
    BY <1>1, <2>2, TextFacts
  <2>5. s \in SUBSET Servers
    BY <1>1, <2>1, TextFacts DEF Declared, Servers
  <2>6. d \in Texts
    BY <1>1, <2>4, <2>5, TextFacts DEF Texts
  <2>7. s # None
    BY <2>5, AbsentAssumption
  <2>8. Declared(d) = s
    BY <2>4, <2>6, <2>7, TextFacts DEF Declared
  <2>9. TheirsIn(c) \subseteq TheirsIn(d)
    <3>1. \A e \in Events : TheirHook(c, e) => TheirHook(d, e)
      BY <1>1, <2>4, <2>6, SameHooks
    <3>2. Declared(c) \ {"ours"} \subseteq Declared(d)
      BY <2>1, <2>8
    <3> QED
      BY <3>1, <3>2, Kept
  <2>10. d \in TextsOf(f)
    BY <1>1, <2>4, <2>6 DEF TextsOf
  <2> QED
    BY <2>3, <2>4, <2>9, <2>10
<1> QED
  BY <1>2, <1>3

LEMMA Unregisters ==
  ASSUME NEW f \in {"mcp", "toml"}, NEW c \in TextsOf(f)
  PROVE  /\ Unregistered(c) \in TextsOf(f) /\ Unregistered(c).hooks = c.hooks
         /\ NoServer(Unregistered(c)) /\ TheirsIn(c) \subseteq TheirsIn(Unregistered(c))
<1>1. c \in Texts /\ (f = "mcp" => c.hooks = None)
  BY DEF TextsOf
<1>2. CASE "ours" \notin Declared(c)
  BY <1>2 DEF Unregistered, NoServer
<1>3. CASE "ours" \in Declared(c)
  <2>1. PICK s : s = IF c.servers = {"ours"} THEN None ELSE c.servers \ {"ours"}
    OBVIOUS
  <2>2. PICK d : d = [c EXCEPT !.servers = s]
    OBVIOUS
  <2>3. Unregistered(c) = d
    BY <1>1, <1>3, <2>1, <2>2 DEF Unregistered
  <2>4. d.hooks = c.hooks /\ d.servers = s /\ d = [hooks |-> c.hooks, servers |-> s]
    BY <1>1, <2>2, TextFacts
  <2>5. c.servers # None /\ c.servers \in SUBSET Servers /\ Declared(c) = c.servers
    BY <1>1, <1>3, TextFacts DEF Declared
  <2>6. s = None \/ s \in SUBSET Servers
    BY <2>1, <2>5
  <2>7. d \in Texts
    BY <1>1, <2>4, <2>6, TextFacts DEF Texts
  <2>8. Declared(d) = Declared(c) \ {"ours"}
    <3>1. CASE c.servers = {"ours"}
      BY <2>1, <2>4, <2>5, <3>1 DEF Declared
    <3>2. CASE c.servers # {"ours"}
      <4>1. s = c.servers \ {"ours"} /\ s \in SUBSET Servers
        BY <2>1, <2>5, <3>2
      <4>2. s # None
        BY <4>1, AbsentAssumption
      <4> QED
        BY <2>4, <2>5, <2>7, <4>1, <4>2, TextFacts DEF Declared
    <3> QED
      BY <3>1, <3>2
  <2>9. TheirsIn(c) \subseteq TheirsIn(d)
    <3>1. \A e \in Events : TheirHook(c, e) => TheirHook(d, e)
      BY <1>1, <2>4, <2>7, SameHooks
    <3> QED
      BY <2>8, <3>1, Kept
  <2>10. d \in TextsOf(f) /\ NoServer(d)
    BY <1>1, <2>4, <2>7, <2>8 DEF TextsOf, NoServer
  <2> QED
    BY <2>3, <2>4, <2>9, <2>10
<1> QED
  BY <1>2, <1>3
-----------------------------------------------------------------------------
(* The steps of a command.                                                 *)

LEMMA Tails ==
  ASSUME NEW todo \in Seq(Steps), todo # << >>, NEW n \in Nat, n = Len(todo)
  PROVE  /\ n # 0 /\ DOMAIN todo = 1 .. n /\ Head(todo) = todo[1]
         /\ Tail(todo) \in Seq(Steps) /\ Len(Tail(todo)) = n - 1
         /\ DOMAIN Tail(todo) = 1 .. n - 1
         /\ \A i \in 1 .. n - 1 : Tail(todo)[i] = todo[i + 1]
<1>1. n # 0 /\ DOMAIN todo = 1 .. n
  BY EmptySeq, LenProperties
<1>2. Tail(todo) \in Seq(Steps) /\ Len(Tail(todo)) = n - 1
  BY HeadTailProperties
<1>3. DOMAIN Tail(todo) = 1 .. n - 1
  BY <1>2, LenProperties
<1>4. \A i \in 1 .. n - 1 : Tail(todo)[i] = todo[i + 1]
  BY <1>2, HeadTailProperties
<1> QED
  BY <1>1, <1>2, <1>3, <1>4

LEMMA Rests ==
  ASSUME NEW todo \in Seq(Steps), todo # << >>
  PROVE  /\ Tail(todo) \in Seq(Steps) /\ Head(todo) \in Range(todo)
         /\ Range(todo) = {Head(todo)} \cup Range(Tail(todo))
         /\ InPairs(todo) => InPairs(Tail(todo))
<1>1. PICK n \in Nat : n = Len(todo) /\ DOMAIN todo = 1 .. n /\ n # 0
  BY LenProperties, EmptySeq
<1>2. PICK rest : rest = Tail(todo)
  OBVIOUS
<1>3. /\ rest \in Seq(Steps) /\ DOMAIN rest = 1 .. n - 1 /\ Head(todo) = todo[1]
      /\ \A i \in 1 .. n - 1 : rest[i] = todo[i + 1]
  BY <1>1, <1>2, Tails
<1>4. Head(todo) \in Range(todo)
  BY <1>1, <1>3 DEF Range
<1>5. Range(rest) \subseteq Range(todo)
  <2>1. \A i \in 1 .. n - 1 : i + 1 \in 1 .. n
    BY <1>1
  <2> SUFFICES ASSUME NEW i \in 1 .. n - 1 PROVE rest[i] \in Range(todo)
    BY <1>3 DEF Range
  <2>2. i + 1 \in 1 .. n /\ rest[i] = todo[i + 1]
    BY <1>3, <2>1
  <2> QED
    BY <1>1, <2>2 DEF Range
<1>6. Range(todo) \subseteq {Head(todo)} \cup Range(rest)
  <2>1. \A i \in 1 .. n : i = 1 \/ (i - 1 \in 1 .. n - 1 /\ (i - 1) + 1 = i)
    BY <1>1
  <2> SUFFICES ASSUME NEW i \in 1 .. n PROVE todo[i] \in {Head(todo)} \cup Range(rest)
    BY <1>1 DEF Range
  <2>2. CASE i = 1
    BY <1>3, <2>2
  <2>3. CASE i - 1 \in 1 .. n - 1 /\ (i - 1) + 1 = i
    BY <1>3, <2>3 DEF Range
  <2> QED
    BY <2>1, <2>2, <2>3
<1>7. ASSUME InPairs(todo) PROVE InPairs(rest)
  <2> SUFFICES ASSUME NEW i \in 1 .. n - 1, rest[i] = "codex"
               PROVE  /\ i + 1 \in 1 .. n - 1 /\ rest[i + 1] = "codexMcp"
                      /\ \A j \in 1 .. n - 1 : j > i + 1 => rest[j] = "service"
    BY <1>3 DEF InPairs
  <2>1. i + 1 \in 1 .. n /\ todo[i + 1] = "codex"
    BY <1>1, <1>3
  <2>2. /\ (i + 1) + 1 \in 1 .. n /\ todo[(i + 1) + 1] = "codexMcp"
        /\ \A j \in 1 .. n : j > (i + 1) + 1 => todo[j] = "service"
    BY <1>1, <1>7, <2>1 DEF InPairs
  <2>3. i + 1 \in 1 .. n - 1
    BY <1>1, <2>2
  <2>4. \A j \in 1 .. n - 1 : j > i + 1 => j + 1 \in 1 .. n /\ j + 1 > (i + 1) + 1
    BY <1>1
  <2> QED
    BY <1>3, <2>2, <2>3, <2>4
<1> QED
  BY <1>2, <1>3, <1>4, <1>5, <1>6, <1>7

(* The registration and the service are all that follows the Codex hooks.  *)
LEMMA AfterCodex ==
  ASSUME NEW todo \in Seq(Steps), todo # << >>, InPairs(todo), Head(todo) = "codex"
  PROVE  Tail(todo) # << >> /\ Range(Tail(Tail(todo))) \subseteq {"service"}
<1>1. PICK n \in Nat : n = Len(todo)
  BY LenProperties
<1>2. PICK rest : rest = Tail(todo)
  OBVIOUS
<1>3. /\ n # 0 /\ DOMAIN todo = 1 .. n /\ todo[1] = "codex"
      /\ rest \in Seq(Steps) /\ Len(rest) = n - 1
      /\ \A i \in 1 .. n - 1 : rest[i] = todo[i + 1]
  BY <1>1, <1>2, Tails
<1>4. 1 \in 1 .. n
  BY <1>3
<1>5. 1 + 1 \in 1 .. n /\ \A j \in 1 .. n : j > 1 + 1 => todo[j] = "service"
  BY <1>3, <1>4 DEF InPairs
<1>6. n - 1 \in Nat /\ n - 1 # 0
  BY <1>5
<1>7. rest # << >>
  BY <1>3, <1>6, EmptySeq
<1>8. PICK last : last = Tail(rest)
  OBVIOUS
<1>9. /\ DOMAIN last = 1 .. (n - 1) - 1
      /\ \A i \in 1 .. (n - 1) - 1 : last[i] = rest[i + 1]
  BY <1>3, <1>6, <1>7, <1>8, Tails
<1>10. \A i \in 1 .. (n - 1) - 1 :
         i + 1 \in 1 .. n - 1 /\ (i + 1) + 1 \in 1 .. n /\ (i + 1) + 1 > 1 + 1
  BY <1>5
<1>11. \A i \in 1 .. (n - 1) - 1 : last[i] = "service"
  BY <1>3, <1>5, <1>9, <1>10
<1>12. Range(last) \subseteq {"service"}
  BY <1>9, <1>11 DEF Range
<1> QED
  BY <1>2, <1>7, <1>8, <1>12

LEMMA EmptyRange == Range(<< >>) = {}
  BY DEF Range

LEMMA Twos ==
  ASSUME NEW x \in Steps, NEW y \in Steps
  PROVE  /\ <<x, y>> \in Seq(Steps) /\ Range(<<x, y>>) = {x, y}
         /\ <<x>> \in Seq(Steps) /\ Range(<<x>>) = {x}
  BY DEF Range

LEMMA NoPair ==
  ASSUME NEW todo, "codex" \notin Range(todo)
  PROVE  InPairs(todo)
  BY DEF InPairs, Range

LEMMA Joins ==
  ASSUME NEW s \in Seq(Steps), NEW t \in Seq(Steps)
  PROVE  /\ s \o t \in Seq(Steps) /\ Range(s \o t) = Range(s) \cup Range(t)
         /\ s # << >> => s \o t # << >>
<1>1. s \o t \in Seq(Steps) /\ Len(s \o t) = Len(s) + Len(t)
  BY ConcatProperties
<1>2. s # << >> => Len(s) \in Nat \ {0} /\ Len(t) \in Nat
  BY EmptySeq, LenProperties
<1>3. s # << >> => Len(s \o t) # 0
  BY <1>1, <1>2
<1> QED
  BY <1>1, <1>3, EmptySeq, RangeConcatenation

LEMMA Pairs ==
  ASSUME NEW s \in Seq(Steps), "codex" \notin Range(s),
         NEW t \in Seq(Steps), Range(t) \subseteq {"service"}
  PROVE  InPairs((s \o <<"codex", "codexMcp">>) \o t)
<1>1. PICK two : two = <<"codex", "codexMcp">>
  OBVIOUS
<1>t. two \in Seq(Steps) /\ Len(two) = 2 /\ two[1] = "codex" /\ two[2] = "codexMcp"
  BY <1>1 DEF Steps, InitOrder
<1>2. PICK m \in Nat : m = Len(s) /\ DOMAIN s = 1 .. m
  BY LenProperties
<1>3. PICK k \in Nat : k = Len(t) /\ DOMAIN t = 1 .. k
  BY LenProperties
<1>a. PICK u : u = s \o two
  OBVIOUS
<1>4. /\ u \in Seq(Steps) /\ Len(u) = m + 2
      /\ \A i \in 1 .. m + 2 : u[i] = IF i <= m THEN s[i] ELSE two[i - m]
  <2>1. /\ u \in Seq(Steps) /\ Len(u) = Len(s) + Len(two)
        /\ \A i \in 1 .. Len(s) + Len(two) : u[i] = IF i <= Len(s) THEN s[i] ELSE two[i - Len(s)]
    BY <1>t, <1>a, ConcatProperties
  <2>2. Len(s) + Len(two) = m + 2 /\ Len(s) = m
    BY <1>t, <1>2
  <2> QED
    BY ONLY <2>1, <2>2
<1>b. PICK v : v = u \o t
  OBVIOUS
<1>5. /\ v \in Seq(Steps) /\ Len(v) = (m + 2) + k
      /\ \A i \in 1 .. (m + 2) + k : v[i] = IF i <= m + 2 THEN u[i] ELSE t[i - (m + 2)]
  <2>1. /\ v \in Seq(Steps) /\ Len(v) = Len(u) + Len(t)
        /\ \A i \in 1 .. Len(u) + Len(t) : v[i] = IF i <= Len(u) THEN u[i] ELSE t[i - Len(u)]
    BY <1>4, <1>b, ConcatProperties
  <2>2. Len(u) + Len(t) = (m + 2) + k /\ Len(u) = m + 2
    BY <1>3, <1>4
  <2> QED
    BY ONLY <2>1, <2>2
<1>6. DOMAIN v = 1 .. (m + 2) + k
  BY <1>5, LenProperties
<1>7. \A i \in 1 .. m : s[i] # "codex"
  BY <1>2 DEF Range
<1>8. \A i \in 1 .. k : t[i] = "service"
  BY <1>3 DEF Range
<1>9. \A i \in 1 .. m : v[i] # "codex"
  <2>1. \A i \in 1 .. m : i \in 1 .. m + 2 /\ i \in 1 .. (m + 2) + k /\ i <= m /\ i <= m + 2
    BY <1>2, <1>3
  <2> QED
    BY <1>4, <1>5, <1>7, <2>1
<1>10. v[m + 1] = "codex" /\ v[m + 2] = "codexMcp"
  <2>1. /\ m + 1 \in 1 .. m + 2 /\ m + 1 \in 1 .. (m + 2) + k /\ ~ (m + 1 <= m)
        /\ m + 1 <= m + 2 /\ (m + 1) - m = 1
    BY <1>2, <1>3
  <2>2. /\ m + 2 \in 1 .. m + 2 /\ m + 2 \in 1 .. (m + 2) + k /\ ~ (m + 2 <= m)
        /\ m + 2 <= m + 2 /\ (m + 2) - m = 2
    BY <1>2, <1>3
  <2> QED
    BY <1>t, <1>4, <1>5, <2>1, <2>2
<1>11. \A i \in 1 .. (m + 2) + k : i > m + 2 => v[i] = "service"
  <2>1. \A i \in 1 .. (m + 2) + k : i > m + 2 => ~ (i <= m + 2) /\ i - (m + 2) \in 1 .. k
    BY <1>2, <1>3
  <2> QED
    BY <1>5, <1>8, <2>1
<1>12. \A i \in 1 .. (m + 2) + k : i \in 1 .. m \/ i = m + 1 \/ i = m + 2 \/ i > m + 2
  BY <1>2, <1>3
<1>13. \A i \in 1 .. (m + 2) + k : v[i] = "codex" => i = m + 1
  BY <1>9, <1>10, <1>11, <1>12
<1>14. (m + 1) + 1 = m + 2 /\ m + 2 \in 1 .. (m + 2) + k
  BY <1>2, <1>3
<1>15. InPairs(v)
  BY <1>6, <1>10, <1>11, <1>13, <1>14 DEF InPairs
<1> QED
  BY <1>1, <1>a, <1>b, <1>15

LEMMA InitLists ==
  ASSUME NEW flags, NEW todo, todo = InitSteps(flags)
  PROVE  /\ todo \in Seq(Steps) /\ todo # << >> /\ InPairs(todo)
         /\ Range(todo) \subseteq InitOrder
         /\ "scaffold" \in Range(todo)
         /\ flags.hook => "claude" \in Range(todo)
         /\ flags.hook /\ flags.codex => "codex" \in Range(todo)
<1>1. PICK z \in Seq(Steps) : z = <<"scaffold", "ignore">> /\ Range(z) = {"scaffold", "ignore"} /\ z # << >>
  <2>1. <<"scaffold", "ignore">> # << >>
    BY EmptySeq
  <2> QED
    BY <2>1, Twos DEF Steps, InitOrder
<1>a. PICK a : a = IF flags.hook THEN <<"claude", "mcp">> ELSE << >>
  OBVIOUS
<1>2. /\ a \in Seq(Steps) /\ Range(a) \subseteq {"claude", "mcp"}
      /\ flags.hook => "claude" \in Range(a)
  <2>1. CASE flags.hook
    <3>1. a = <<"claude", "mcp">>
      BY <1>a, <2>1
    <3>2. "claude" \in Steps /\ "mcp" \in Steps
      BY DEF Steps, InitOrder
    <3>3. a \in Seq(Steps) /\ Range(a) = {"claude", "mcp"}
      BY <3>1, <3>2, Twos
    <3> QED
      BY <3>3
  <2>2. CASE ~ flags.hook
    <3>1. a = << >>
      BY <1>a, <2>2
    <3> QED
      BY <2>2, <3>1, EmptyRange, EmptySeq
  <2> QED
    BY <2>1, <2>2
<1>b. PICK b : b = IF flags.hook /\ flags.codex THEN <<"codex", "codexMcp">> ELSE << >>
  OBVIOUS
<1>3. /\ b \in Seq(Steps) /\ Range(b) \subseteq {"codex", "codexMcp"}
      /\ flags.hook /\ flags.codex => "codex" \in Range(b)
      /\ b = <<"codex", "codexMcp">> \/ Range(b) = {}
  <2>1. CASE flags.hook /\ flags.codex
    <3>1. b = <<"codex", "codexMcp">>
      BY <1>b, <2>1
    <3>2. "codex" \in Steps /\ "codexMcp" \in Steps
      BY DEF Steps, InitOrder
    <3>3. b \in Seq(Steps) /\ Range(b) = {"codex", "codexMcp"}
      BY <3>1, <3>2, Twos
    <3> QED
      BY <3>1, <3>3
  <2>2. CASE ~ (flags.hook /\ flags.codex)
    <3>1. b = << >>
      BY <1>b, <2>2
    <3> QED
      BY <2>2, <3>1, EmptyRange, EmptySeq
  <2> QED
    BY <2>1, <2>2
<1>4. PICK c \in Seq(Steps) : /\ c = IF Wants(flags) THEN <<"service">> ELSE << >>
                              /\ Range(c) \subseteq {"service"}
  BY Twos, EmptyRange, EmptySeq DEF Steps, InitOrder
<1>5. todo = ((z \o a) \o b) \o c
  BY <1>1, <1>a, <1>b, <1>4 DEF InitSteps
<1>6. PICK za \in Seq(Steps) : za = z \o a /\ Range(za) = Range(z) \cup Range(a) /\ za # << >>
  BY <1>1, <1>2, Joins
<1>7. PICK zab \in Seq(Steps) : zab = za \o b /\ Range(zab) = Range(za) \cup Range(b) /\ zab # << >>
  BY <1>3, <1>6, Joins
<1>8. todo = zab \o c
  BY <1>5, <1>6, <1>7
<1>9. todo \in Seq(Steps) /\ Range(todo) = Range(zab) \cup Range(c) /\ todo # << >>
  BY <1>4, <1>7, <1>8, Joins
<1>10. "codex" \notin Range(za)
  BY <1>1, <1>2, <1>6
<1>11. InPairs(todo)
  <2>1. CASE b = <<"codex", "codexMcp">>
    BY <1>4, <1>7, <1>8, <1>10, <2>1, Pairs
  <2>2. CASE Range(b) = {}
    BY <1>4, <1>7, <1>9, <1>10, <2>2, NoPair
  <2> QED
    BY <1>3, <2>1, <2>2
<1> QED
  BY <1>1, <1>2, <1>3, <1>4, <1>6, <1>7, <1>9, <1>11 DEF InitOrder

LEMMA UninstallLists ==
  ASSUME NEW flags, NEW todo, todo = UninstallSteps(flags)
  PROVE  /\ todo \in Seq(Steps) /\ todo # << >> /\ InPairs(todo)
         /\ Range(todo) \subseteq UninstallOrder
         /\ {"unclaude", "uncodex", "untoml", "unmcp", "untomlMcp", "archive"} \subseteq Range(todo)
         /\ flags.service # "no" => "unservice" \in Range(todo)
<1>1. PICK z \in Seq(Steps) :
        /\ z = <<"unclaude", "uncodex", "untoml", "unmcp", "untomlMcp">>
        /\ Range(z) = {"unclaude", "uncodex", "untoml", "unmcp", "untomlMcp"} /\ z # << >>
  <2>1. <<"unclaude", "uncodex", "untoml", "unmcp", "untomlMcp">> \in Seq(Steps)
    BY DEF Steps, UninstallOrder
  <2>2. Range(<<"unclaude", "uncodex", "untoml", "unmcp", "untomlMcp">>) =
          {"unclaude", "uncodex", "untoml", "unmcp", "untomlMcp"}
    BY DEF Range
  <2> QED
    BY <2>1, <2>2, EmptyRange
<1>2. PICK a \in Seq(Steps) : /\ a = IF flags.service = "no" THEN << >> ELSE <<"unservice">>
                              /\ Range(a) \subseteq {"unservice"}
                              /\ flags.service # "no" => "unservice" \in Range(a)
  BY Twos, EmptyRange, EmptySeq DEF Steps, UninstallOrder
<1>3. PICK b \in Seq(Steps) : b = <<"archive">> /\ Range(b) = {"archive"}
  BY Twos DEF Steps, UninstallOrder
<1>4. todo = (z \o a) \o b
  BY <1>1, <1>2, <1>3 DEF UninstallSteps
<1>5. PICK za \in Seq(Steps) : za = z \o a /\ Range(za) = Range(z) \cup Range(a) /\ za # << >>
  BY <1>1, Joins
<1>6. todo \in Seq(Steps) /\ Range(todo) = Range(za) \cup Range(b) /\ todo # << >>
  BY <1>3, <1>4, <1>5, Joins
<1>7. "codex" \notin Range(todo)
  BY <1>1, <1>2, <1>3, <1>5, <1>6
<1> QED
  BY <1>1, <1>2, <1>3, <1>5, <1>6, <1>7, NoPair DEF UninstallOrder

-----------------------------------------------------------------------------
(* What a step of a command does to its file.                              *)

Does(step, w) ==
  /\ step = "claude" => AllMarked(w["claude"])
  /\ step = "codex" => AllMarked(w["hooks"]) \/ AllMarked(w["toml"])
  /\ step = "unclaude" => NoHooks(w["claude"])
  /\ step = "uncodex" => NoHooks(w["hooks"])
  /\ step = "untoml" => NoHooks(w["toml"])
  /\ step = "unmcp" => NoServer(w["mcp"])
  /\ step = "untomlMcp" => NoServer(w["toml"])

(* No step undoes what another one of the same command has done.           *)
Undoes(step, old, new) ==
  \/ step \in InitOrder /\ AllMarked(old) /\ ~ AllMarked(new)
  \/ step \in UninstallOrder /\ NoHooks(old) /\ ~ NoHooks(new)
  \/ step \in UninstallOrder /\ NoServer(old) /\ ~ NoServer(new)

Lawful(step, f, old, new) ==
  new \in TextsOf(f) /\ TheirsIn(old) \subseteq TheirsIn(new) /\ ~ Undoes(step, old, new)

Outcome(step, it) ==
  \/ it.act = "abort"
  \/ it.act = "refuse" /\ step = "codex"
  \/ it.act = "skip" /\ Does(step, file)
  \/ /\ it.act = "write" /\ it.file \in Files /\ file[it.file] # Torn
     /\ Lawful(step, it.file, file[it.file], it.text)
     /\ Does(step, [file EXCEPT ![it.file] = it.text])

LEMMA StepNames ==
  /\ {"claude", "mcp", "codex", "codexMcp"} \cap UninstallOrder = {}
  /\ {"unclaude", "uncodex", "untoml", "unmcp", "untomlMcp"} \cap InitOrder = {}
  BY DEF InitOrder, UninstallOrder

(* A file that is not there reads as one that holds nothing.               *)
LEMMA Presents ==
  ASSUME NEW f \in Files, NEW c, Stored(f, c), c # Torn
  PROVE  /\ Present(c) \in TextsOf(f) /\ Readable(c) = Present(c)
         /\ TheirsIn(c) \subseteq TheirsIn(Present(c))
         /\ \A e \in Events : Marked(Present(c), e) <=> Marked(c, e)
         /\ Declared(Present(c)) = Declared(c)
<1>1. Readable(c) = Present(c)
  BY DEF Readable
<1>2. CASE c = None
  <2>1. Present(c) = Blank
    BY <1>2 DEF Present
  <2>2. Blank \in TextsOf(f) /\ Blank.hooks = None /\ Blank.servers = None
    BY DEF Blank, TextsOf, Texts
  <2>3. Listed(Blank) = {} /\ Declared(Blank) = {}
    BY <2>2 DEF Listed, Declared
  <2> QED
    BY <1>1, <1>2, <2>1, <2>2, <2>3, NothingIn, Marks
<1>3. CASE c # None
  BY <1>1, <1>3 DEF Present, Stored
<1> QED
  BY <1>2, <1>3

LEMMA Hooking ==
  ASSUME NEW f \in Files, f # "mcp", NEW c, Stored(f, c), c # Torn,
         NEW step \in InitOrder, step \notin UninstallOrder
  PROVE  /\ Lawful(step, f, c, Hooked(Readable(c)))
         /\ AllMarked(Hooked(Readable(c)))
<1>1. PICK p \in TextsOf(f) : p = Present(c) /\ Readable(c) = p /\ TheirsIn(c) \subseteq TheirsIn(p)
  BY Presents
<1>2. Hooked(p) \in TextsOf(f) /\ AllMarked(Hooked(p)) /\ TheirsIn(p) \subseteq TheirsIn(Hooked(p))
  BY Hooks
<1> QED
  BY <1>1, <1>2 DEF Lawful, Undoes

LEMMA Unhooking ==
  ASSUME NEW f \in Files, f # "mcp", NEW c, Stored(f, c), c # Torn,
         NEW step \in UninstallOrder, step \notin InitOrder
  PROVE  /\ Lawful(step, f, c, Unhooked(Readable(c)))
         /\ NoHooks(Unhooked(Readable(c)))
<1>1. PICK p \in TextsOf(f) : /\ p = Present(c) /\ Readable(c) = p /\ TheirsIn(c) \subseteq TheirsIn(p)
                              /\ Declared(p) = Declared(c)
  BY Presents
<1>2. /\ Unhooked(p) \in TextsOf(f) /\ NoHooks(Unhooked(p))
      /\ TheirsIn(p) \subseteq TheirsIn(Unhooked(p)) /\ Declared(Unhooked(p)) = Declared(p)
  BY Unhooks
<1> QED
  BY <1>1, <1>2 DEF Lawful, Undoes, NoServer

LEMMA Registering ==
  ASSUME NEW f \in {"mcp", "toml"}, NEW c, Stored(f, c), c # Torn,
         NEW step \in InitOrder, step \notin UninstallOrder
  PROVE  Lawful(step, f, c, Registered(Readable(c)))
<1>0. f \in Files
  BY DEF Files, Json
<1>1. PICK p \in TextsOf(f) : /\ p = Present(c) /\ Readable(c) = p /\ TheirsIn(c) \subseteq TheirsIn(p)
                              /\ \A e \in Events : Marked(p, e) <=> Marked(c, e)
  BY <1>0, Presents
<1>2. PICK r : r = Registered(p)
  OBVIOUS
<1>3. r \in TextsOf(f) /\ r.hooks = p.hooks /\ TheirsIn(p) \subseteq TheirsIn(r)
  BY <1>2, Registers
<1>4. AllMarked(p) => AllMarked(r)
  BY <1>3, SameHooks DEF TextsOf
<1>5. AllMarked(c) => AllMarked(p)
  BY <1>1 DEF AllMarked
<1> QED
  BY <1>1, <1>2, <1>3, <1>4, <1>5 DEF Lawful, Undoes

LEMMA Unregistering ==
  ASSUME NEW f \in {"mcp", "toml"}, NEW c, Stored(f, c), c # Torn,
         NEW step \in UninstallOrder, step \notin InitOrder
  PROVE  /\ Lawful(step, f, c, Unregistered(Readable(c)))
         /\ NoServer(Unregistered(Readable(c)))
<1>0. f \in Files
  BY DEF Files, Json
<1>1. PICK p \in TextsOf(f) : /\ p = Present(c) /\ Readable(c) = p /\ TheirsIn(c) \subseteq TheirsIn(p)
                              /\ \A e \in Events : Marked(p, e) <=> Marked(c, e)
  BY <1>0, Presents
<1>2. PICK r : r = Unregistered(p)
  OBVIOUS
<1>3. r \in TextsOf(f) /\ r.hooks = p.hooks /\ NoServer(r) /\ TheirsIn(p) \subseteq TheirsIn(r)
  BY <1>2, Unregisters
<1>4. NoHooks(p) => NoHooks(r)
  BY <1>3, SameHooks DEF TextsOf
<1>5. NoHooks(c) => NoHooks(p)
  BY <1>1 DEF NoHooks
<1> QED
  BY <1>1, <1>2, <1>3, <1>4, <1>5 DEF Lawful, Undoes

(* What holds of the files holds of files that say as much.                *)
LEMMA DoesAlike ==
  ASSUME NEW step, NEW v, NEW w, Does(step, v),
         \A g \in Files :
           /\ AllMarked(v[g]) => AllMarked(w[g])
           /\ NoHooks(v[g]) => NoHooks(w[g])
           /\ NoServer(v[g]) => NoServer(w[g])
  PROVE  Does(step, w)
  BY DEF Does, Files, Json

LEMMA Writing ==
  ASSUME TypeInv, NEW step, NEW f \in Files, file[f] # Torn, NEW text,
         Lawful(step, f, file[f], text), NEW it, it = Write(f, text),
         Does(step, [file EXCEPT ![f] = text])
  PROVE  Outcome(step, it)
<1>1. CASE text = Present(file[f])
  <2>1. it.act = "skip"
    BY <1>1 DEF Write
  <2>2. Stored(f, file[f])
    BY DEF TypeInv
  <2>3. /\ AllMarked(text) => AllMarked(file[f])
        /\ NoHooks(text) => NoHooks(file[f])
        /\ NoServer(text) => NoServer(file[f])
    BY <1>1, <2>2, Presents DEF AllMarked, NoHooks, NoServer
  <2>4. PICK v : v = [file EXCEPT ![f] = text]
    OBVIOUS
  <2>5. \A g \in Files : v[g] = IF g = f THEN text ELSE file[g]
    BY <2>4 DEF TypeInv
  <2>6. \A g \in Files :
          /\ AllMarked(v[g]) => AllMarked(file[g])
          /\ NoHooks(v[g]) => NoHooks(file[g])
          /\ NoServer(v[g]) => NoServer(file[g])
    BY <2>3, <2>5
  <2>7. Does(step, file)
    BY <2>4, <2>6, DoesAlike
  <2> QED
    BY <2>1, <2>7 DEF Outcome
<1>2. CASE text # Present(file[f])
  BY <1>2 DEF Write, Outcome
<1> QED
  BY <1>1, <1>2

LEMMA Intents ==
  ASSUME TypeInv, NEW step \in FileSteps, NEW it, it = Intent(step)
  PROVE  Outcome(step, it)
<1>0. \A f \in Files : /\ Stored(f, file[f])
                       /\ \A text : [file EXCEPT ![f] = text][f] = text
  BY DEF TypeInv
<1>1. CASE step = "claude"
  <2>1. CASE file["claude"] = Torn
    BY <1>1, <2>1 DEF Intent, Parsed, Abort, Outcome
  <2>2. CASE file["claude"] # Torn
    <3>1. PICK text : text = Hooked(Readable(file["claude"]))
      OBVIOUS
    <3>2. it = Write("claude", text)
      BY <1>1, <2>2, <3>1 DEF Intent, Parsed
    <3>3. Lawful(step, "claude", file["claude"], text) /\ AllMarked(text)
      BY <1>0, <1>1, <2>2, <3>1, Hooking, StepNames DEF Files, Json, InitOrder
    <3>4. Does(step, [file EXCEPT !["claude"] = text])
      BY <1>0, <1>1, <3>3 DEF Does, Files, Json
    <3> QED
      BY <2>2, <3>2, <3>3, <3>4, Writing DEF Files, Json
  <2> QED
    BY <2>1, <2>2
<1>2. ASSUME NEW f, f = IF step = "mcp" THEN "mcp" ELSE "toml", step \in {"mcp", "codexMcp"}
      PROVE  Outcome(step, it)
  <2>1. CASE file[f] = Torn
    BY <1>2, <2>1 DEF Intent, Parsed, Skip, Outcome, Does
  <2>2. CASE file[f] # Torn
    <3>1. PICK text : text = Registered(Readable(file[f]))
      OBVIOUS
    <3>2. it = Write(f, text)
      BY <1>2, <2>2, <3>1 DEF Intent, Parsed
    <3>3. f \in {"mcp", "toml"} /\ f \in Files
      BY <1>2 DEF Files, Json
    <3>4. Lawful(step, f, file[f], text)
      BY <1>0, <1>2, <2>2, <3>1, <3>3, Registering, StepNames DEF InitOrder
    <3>5. Does(step, [file EXCEPT ![f] = text])
      BY <1>2 DEF Does
    <3> QED
      BY <2>2, <3>2, <3>3, <3>4, <3>5, Writing
  <2> QED
    BY <2>1, <2>2
<1>3. CASE step = "codex"
  <2>1. CodexTarget \in {None, "hooks", "toml"}
    BY DEF CodexTarget
  <2>2. CASE file["toml"] = Torn
    BY <1>3, <2>2 DEF Intent, Parsed, Abort, Outcome
  <2>3. CASE file["toml"] # Torn /\ CodexTarget = None
    BY <1>3, <2>3 DEF Intent, Parsed, Outcome
  <2>4. CASE file["toml"] # Torn /\ CodexTarget # None
    <3>1. PICK f : f = CodexTarget /\ f \in {"hooks", "toml"} /\ f \in Files
      BY <2>1, <2>4 DEF Files, Json
    <3>2. CASE file[f] = Torn
      BY <1>3, <2>4, <3>1, <3>2 DEF Intent, Parsed, Abort, Outcome
    <3>3. CASE file[f] # Torn
      <4>1. PICK text : text = Hooked(Readable(file[f]))
        OBVIOUS
      <4>2. it = Write(f, text)
        BY <1>3, <2>4, <3>1, <3>3, <4>1 DEF Intent, Parsed
      <4>3. Lawful(step, f, file[f], text) /\ AllMarked(text)
        BY <1>0, <1>3, <3>1, <3>3, <4>1, Hooking, StepNames DEF InitOrder
      <4>4. Does(step, [file EXCEPT ![f] = text])
        BY <1>0, <1>3, <3>1, <4>3 DEF Does
      <4> QED
        BY <3>1, <3>3, <4>2, <4>3, <4>4, Writing
    <3> QED
      BY <3>2, <3>3
  <2> QED
    BY <2>2, <2>3, <2>4
<1>4. ASSUME NEW f, step \in {"unclaude", "uncodex", "untoml"},
             f = CASE step = "unclaude" -> "claude" [] step = "uncodex" -> "hooks" [] step = "untoml" -> "toml"
      PROVE  Outcome(step, it)
  <2>0. /\ f \in Files /\ f # "mcp"
        /\ it = IF file[f] = None THEN Skip
                ELSE IF Parsed(f) THEN Write(f, Unhooked(Readable(file[f]))) ELSE Abort
        /\ step \in UninstallOrder /\ step \notin InitOrder
        /\ \A w : NoHooks(w[f]) => Does(step, w)
    <3>1. CASE step = "unclaude"
      BY <1>4, <3>1, StepNames DEF Files, Json, Intent, UninstallOrder, Does
    <3>2. CASE step = "uncodex"
      BY <1>4, <3>2, StepNames DEF Files, Json, Intent, UninstallOrder, Does
    <3>3. CASE step = "untoml"
      BY <1>4, <3>3, StepNames DEF Files, Json, Intent, UninstallOrder, Does
    <3> QED
      BY <1>4, <3>1, <3>2, <3>3
  <2>1. CASE file[f] = Torn \/ file[f] = None
    <3>1. NoHooks(file[f])
      BY <2>1, NothingIn DEF NoHooks, Marked
    <3> QED
      BY <2>0, <2>1, <3>1 DEF Parsed, Abort, Skip, Outcome
  <2>2. CASE file[f] # Torn /\ file[f] # None
    <3>1. PICK text : text = Unhooked(Readable(file[f]))
      OBVIOUS
    <3>2. it = Write(f, text)
      BY <2>0, <2>2, <3>1 DEF Parsed
    <3>3. Lawful(step, f, file[f], text) /\ NoHooks(text)
      BY <1>0, <2>0, <2>2, <3>1, Unhooking
    <3>4. Does(step, [file EXCEPT ![f] = text])
      BY <1>0, <2>0, <3>3
    <3> QED
      BY <2>0, <2>2, <3>2, <3>3, <3>4, Writing
  <2> QED
    BY <2>1, <2>2
<1>5. ASSUME NEW f, step \in {"unmcp", "untomlMcp"}, f = IF step = "unmcp" THEN "mcp" ELSE "toml"
      PROVE  Outcome(step, it)
  <2>0. /\ f \in Files /\ f \in {"mcp", "toml"}
        /\ it = IF file[f] = None THEN Skip
                ELSE IF Parsed(f) THEN Write(f, Unregistered(Readable(file[f]))) ELSE Abort
        /\ step \in UninstallOrder /\ step \notin InitOrder
        /\ \A w : NoServer(w[f]) => Does(step, w)
    <3>1. CASE step = "unmcp"
      BY <1>5, <3>1, StepNames DEF Files, Json, Intent, UninstallOrder, Does
    <3>2. CASE step = "untomlMcp"
      BY <1>5, <3>2, StepNames DEF Files, Json, Intent, UninstallOrder, Does
    <3> QED
      BY <1>5, <3>1, <3>2
  <2>1. CASE file[f] = Torn \/ file[f] = None
    <3>1. NoServer(file[f])
      BY <2>1, NothingIn DEF NoServer
    <3> QED
      BY <2>0, <2>1, <3>1 DEF Parsed, Abort, Skip, Outcome
  <2>2. CASE file[f] # Torn /\ file[f] # None
    <3>1. PICK text : text = Unregistered(Readable(file[f]))
      OBVIOUS
    <3>2. it = Write(f, text)
      BY <2>0, <2>2, <3>1 DEF Parsed
    <3>3. Lawful(step, f, file[f], text) /\ NoServer(text)
      BY <1>0, <2>0, <2>2, <3>1, Unregistering
    <3>4. Does(step, [file EXCEPT ![f] = text])
      BY <1>0, <2>0, <3>3
    <3> QED
      BY <2>0, <2>2, <3>2, <3>3, <3>4, Writing
  <2> QED
    BY <2>1, <2>2
<1> QED
  BY <1>1, <1>2, <1>3, <1>4, <1>5 DEF FileSteps

-----------------------------------------------------------------------------
(* How a command goes on.                                                  *)

LEMMA DidAlike ==
  ASSUME NEW c, NEW d, d.op = c.op, d.flags = c.flags, d.refused = c.refused,
         d.edited = c.edited, NEW due, NEW w, NEW st, NEW u, Did(c, due, w, st, u)
  PROVE  Did(d, due, w, st, u)
  BY DEF Did, InitDid, UninstallDid

LEMMA DidStep ==
  ASSUME NEW c, NEW due, NEW more, NEW w, NEW v, NEW st, NEW u, Did(c, due, w, st, u),
         NEW step, step \in FileSteps, due \subseteq {step} \cup more,
         step \in (IF c.op = "init" THEN InitOrder ELSE UninstallOrder),
         Does(step, v), \A g \in Files : ~ Undoes(step, w[g], v[g])
  PROVE  Did(c, more, v, st, u)
<1>1. CASE c.op = "init"
  <2>1. \A g \in Files : AllMarked(w[g]) => AllMarked(v[g])
    BY <1>1 DEF Undoes
  <2>2. InitDid(c, due, w, st)
    BY <1>1 DEF Did
  <2>3. "scaffold" \notin more => "scaffold" \notin due
    BY DEF FileSteps
  <2>4. "claude" \notin more => "claude" \notin due \/ AllMarked(v["claude"])
    BY DEF Does
  <2>5. "codex" \notin more => "codex" \notin due \/ AllMarked(v["hooks"]) \/ AllMarked(v["toml"])
    BY DEF Does
  <2>6. InitDid(c, more, v, st)
    BY <2>1, <2>2, <2>3, <2>4, <2>5 DEF InitDid, Files, Json
  <2> QED
    BY <1>1, <2>6 DEF Did
<1>2. CASE c.op # "init"
  <2>1. \A g \in Files : (NoHooks(w[g]) => NoHooks(v[g])) /\ (NoServer(w[g]) => NoServer(v[g]))
    BY <1>2 DEF Undoes
  <2>2. UninstallDid(c, due, w, st, u)
    BY <1>2 DEF Did
  <2>3. /\ "unclaude" \notin more => "unclaude" \notin due \/ NoHooks(v["claude"])
        /\ "uncodex" \notin more => "uncodex" \notin due \/ NoHooks(v["hooks"])
        /\ "untoml" \notin more => "untoml" \notin due \/ NoHooks(v["toml"])
        /\ "unmcp" \notin more => "unmcp" \notin due \/ NoServer(v["mcp"])
        /\ "untomlMcp" \notin more => "untomlMcp" \notin due \/ NoServer(v["toml"])
    BY DEF Does
  <2>4. /\ "unservice" \notin more => "unservice" \notin due
        /\ "archive" \notin more => "archive" \notin due
    BY DEF FileSteps
  <2>5. UninstallDid(c, more, v, st, u)
    BY <2>1, <2>2, <2>3, <2>4 DEF UninstallDid, Files, Json
  <2> QED
    BY <1>2, <2>5 DEF Did
<1> QED
  BY <1>1, <1>2

LEMMA NotIdle ==
  ASSUME NEW c, Running(c)
  PROVE  c # Idle
  BY DEF Running, Shaped, Idle

LEMMA Passing ==
  ASSUME NEW c, Shaped(c), Planned(c, Tail(c.todo)), Passes(c), done = None
  PROVE  /\ cmd' = Idle \/ Running(cmd')
         /\ cmd'.stage = "next"
         /\ Did(c, Range(Tail(c.todo)), file', store', unit') => StepsInv' /\ DoneInv'
<1>1. PICK rest : rest = Tail(c.todo)
  OBVIOUS
<1>2. CASE rest = << >>
  <2>1. /\ cmd' = Idle
        /\ done' = [op |-> c.op, flags |-> c.flags, refused |-> c.refused, edited |-> c.edited]
    BY <1>1, <1>2 DEF Passes
  <2>2. Did(c, Range(rest), file', store', unit') => Did(done', {}, file', store', unit')
    BY <1>2, <2>1, DidAlike, EmptyRange
  <2>3. Did(c, Range(rest), file', store', unit') => DoneInv'
    BY <2>1, <2>2 DEF DoneInv, Shaped
  <2> QED
    BY <1>1, <2>1, <2>3 DEF StepsInv, Idle
<1>3. CASE rest # << >>
  <2>1. PICK d : d = [c EXCEPT !.todo = rest, !.stage = "next", !.on = None, !.text = None]
    OBVIOUS
  <2>2. cmd' = d /\ done' = done
    BY <1>1, <1>3, <2>1 DEF Passes
  <2>3. /\ d = [ op |-> c.op, flags |-> c.flags, refused |-> c.refused, edited |-> c.edited,
                 stage |-> "next", on |-> None, text |-> None, todo |-> rest ]
    BY <2>1 DEF Shaped
  <2>4. /\ d.op = c.op /\ d.flags = c.flags /\ d.refused = c.refused /\ d.edited = c.edited
        /\ d.stage = "next" /\ d.todo = rest /\ d.on = None /\ d.text = None
    BY <2>3
  <2>5. Shaped(d)
    BY <2>3, <2>4 DEF Shaped
  <2>6. Running(d)
    BY <1>1, <1>3, <2>4, <2>5 DEF Running, Planned
  <2>7. Did(c, Range(rest), file', store', unit') => Did(cmd', Due(cmd'), Coming', store', unit')
    <3>1. Due(cmd') = Range(rest) /\ Coming' = file'
      BY <2>2, <2>4 DEF Due, Coming
    <3> QED
      BY <2>2, <2>4, <3>1, DidAlike
  <2>8. Did(c, Range(rest), file', store', unit') => StepsInv'
    BY <2>7 DEF StepsInv, Due
  <2> QED
    BY <1>1, <2>2, <2>4, <2>6, <2>8 DEF DoneInv
<1> QED
  BY <1>2, <1>3

LEMMA KeptStill ==
  ASSUME KeptInv, UNCHANGED <<config, theirs>>, cmd'.stage = "next"
  PROVE  KeptInv'
  BY DEF KeptInv, Held, config

(* The step that is due, and what is left after it.                        *)
LEMMA Ahead ==
  ASSUME Running(cmd)
  PROVE  /\ cmd # Idle /\ Shaped(cmd)
         /\ Head(cmd.todo) \in (IF cmd.op = "init" THEN InitOrder ELSE UninstallOrder)
         /\ Head(cmd.todo) \in Range(cmd.todo)
         /\ Range(cmd.todo) = {Head(cmd.todo)} \cup Range(Tail(cmd.todo))
         /\ Planned(cmd, Tail(cmd.todo))
<1>1. PICK todo : todo = cmd.todo
  OBVIOUS
<1>2. todo \in Seq(Steps) /\ todo # << >> /\ InPairs(todo)
  BY <1>1 DEF Running, Planned
<1>3. /\ Tail(todo) \in Seq(Steps) /\ Head(todo) \in Range(todo)
      /\ Range(todo) = {Head(todo)} \cup Range(Tail(todo)) /\ InPairs(Tail(todo))
  BY <1>2, Rests
<1> QED
  BY <1>1, <1>3, NotIdle DEF Running, Planned

-----------------------------------------------------------------------------
(* Every action preserves the invariant.                                   *)

Commanded == TypeInv /\ KeptInv /\ StepsInv /\ DoneInv

LEMMA Runs ==
  ASSUME Commanded, cmd # Idle
  PROVE  Running(cmd) /\ done = None /\ Did(cmd, Due(cmd), Coming, store, unit)
  BY DEF Commanded, TypeInv, StepsInv, DoneInv

LEMMA PlaceStill ==
  ASSUME PlaceInv, UNCHANGED place, now' \in Seconds
  PROVE  PlaceInv'
  BY DEF PlaceInv, place

(* A step that leaves the files as they are.                               *)
LEMMA PassesOn ==
  ASSUME Commanded, cmd # Idle, cmd.stage = "next", Passes(cmd), UNCHANGED <<config, theirs>>,
         Did(cmd, Range(Tail(cmd.todo)), file, store', unit')
  PROVE  Commanded'
<1>1. Running(cmd) /\ done = None
  BY Runs
<1>2. /\ cmd' = Idle \/ Running(cmd')
      /\ cmd'.stage = "next"
      /\ Did(cmd, Range(Tail(cmd.todo)), file', store', unit') => StepsInv' /\ DoneInv'
  BY <1>1, Ahead, Passing
<1>3. file' = file /\ bak' = bak
  BY DEF config
<1>4. TypeInv'
  BY <1>2, <1>3 DEF Commanded, TypeInv
<1>5. KeptInv'
  BY <1>2, KeptStill DEF Commanded
<1> QED
  BY <1>2, <1>3, <1>4, <1>5 DEF Commanded

LEMMA Stops ==
  ASSUME Commanded, cmd' = Idle, UNCHANGED <<config, theirs>>, done' = None
  PROVE  Commanded'
<1>1. cmd'.stage = "next"
  BY DEF Idle
<1>2. KeptInv'
  BY <1>1, KeptStill DEF Commanded
<1> QED
  BY <1>2 DEF Commanded, TypeInv, StepsInv, DoneInv, config

LEMMA StartStep ==
  ASSUME SetupInv, NEW op \in {"init", "uninstall"}, NEW flags, Start(op, flags)
  PROVE  SetupInv'
<1>1. PICK todo : todo = IF op = "init" THEN InitSteps(flags) ELSE UninstallSteps(flags)
  OBVIOUS
<1>2. PICK c : c = [ op |-> op, flags |-> flags, refused |-> FALSE, edited |-> {},
                     stage |-> "next", on |-> None, text |-> None, todo |-> todo ]
  OBVIOUS
<1>3. /\ cmd' = c /\ done' = None /\ file' = file /\ bak' = bak /\ theirs' = theirs
      /\ store' = store /\ unit' = unit /\ UNCHANGED <<config, theirs, place>> /\ now' = now
  BY <1>1, <1>2 DEF Start, config, place
<1>4. /\ c.op = op /\ c.flags = flags /\ c.refused = FALSE /\ c.edited = {}
      /\ c.stage = "next" /\ c.todo = todo
  BY <1>2
<1>5. Shaped(c)
  BY <1>2 DEF Shaped
<1>6. Running(c) /\ Did(c, Range(todo), file, store, unit)
  <2>1. ASSUME NEW w, NEW st, NEW u, op = "init"
        PROVE  Running(c) /\ Did(c, Range(todo), w, st, u)
    <3>1. /\ todo \in Seq(Steps) /\ todo # << >> /\ InPairs(todo)
          /\ Range(todo) \subseteq InitOrder
          /\ "scaffold" \in Range(todo)
          /\ flags.hook => "claude" \in Range(todo)
          /\ flags.hook /\ flags.codex => "codex" \in Range(todo)
      BY <1>1, <2>1, InitLists
    <3>2. Running(c)
      BY <1>4, <1>5, <2>1, <3>1 DEF Running, Planned
    <3> QED
      BY <1>4, <2>1, <3>1, <3>2 DEF Did, InitDid
  <2>2. ASSUME NEW w, NEW st, NEW u, op = "uninstall"
        PROVE  Running(c) /\ Did(c, Range(todo), w, st, u)
    <3>1. /\ todo \in Seq(Steps) /\ todo # << >> /\ InPairs(todo)
          /\ Range(todo) \subseteq UninstallOrder
          /\ {"unclaude", "uncodex", "untoml", "unmcp", "untomlMcp", "archive"} \subseteq Range(todo)
          /\ flags.service # "no" => "unservice" \in Range(todo)
      BY <1>1, <2>2, UninstallLists
    <3>2. Running(c)
      BY <1>4, <1>5, <2>2, <3>1 DEF Running, Planned
    <3> QED
      BY <1>4, <2>2, <3>1, <3>2 DEF Did, UninstallDid
  <2> QED
    BY <2>1, <2>2
<1>7. KeptInv'
  BY <1>3, <1>4, KeptStill DEF SetupInv
<1>8. TypeInv'
  BY <1>3, <1>6 DEF SetupInv, TypeInv
<1>9. Due(cmd') = Range(todo) /\ Coming' = file
  BY <1>3, <1>4 DEF Due, Coming
<1>10. StepsInv'
  BY <1>3, <1>6, <1>9 DEF StepsInv
<1>11. DoneInv'
  BY <1>3 DEF DoneInv
<1>12. PlaceInv'
  BY <1>3, PlaceStill DEF SetupInv, PlaceInv
<1> QED
  BY <1>7, <1>8, <1>10, <1>11, <1>12 DEF SetupInv

LEMMA ScaffoldStep ==
  ASSUME SetupInv, Scaffold
  PROVE  SetupInv'
<1>1. /\ cmd # Idle /\ cmd.stage = "next" /\ Head(cmd.todo) = "scaffold" /\ Passes(cmd)
      /\ UNCHANGED <<config, theirs>> /\ unit' = unit /\ now' = now /\ archives' = archives
      /\ IF store = None THEN store' = born + 1 /\ born' = born + 1 ELSE UNCHANGED <<store, born>>
  BY DEF Scaffold, At
<1>2. Commanded
  BY DEF SetupInv, Commanded
<1>3. store' # None
  BY <1>1, AbsentAssumption DEF SetupInv, PlaceInv
<1>4. Did(cmd, Range(Tail(cmd.todo)), file, store', unit')
  <2>1. Running(cmd) /\ Did(cmd, Range(cmd.todo), file, store, unit)
    BY <1>1, <1>2, Runs DEF Due, Coming
  <2>2. cmd.op = "init" /\ Range(cmd.todo) = {"scaffold"} \cup Range(Tail(cmd.todo))
    BY <1>1, <2>1, Ahead DEF UninstallOrder
  <2>3. \A x \in {"claude", "codex"} : x \notin Range(Tail(cmd.todo)) => x \notin Range(cmd.todo)
    BY <2>2
  <2> QED
    BY <1>3, <2>1, <2>2, <2>3 DEF Did, InitDid
<1>5. Commanded'
  BY <1>1, <1>2, <1>4, PassesOn
<1>6. PlaceInv'
  <2>1. CASE store # None
    BY <1>1, <2>1 DEF SetupInv, PlaceInv
  <2>2. CASE store = None
    <3>1. PICK a : a = Range(archives)
      OBVIOUS
    <3>2. PICK n \in Nat : n = born
      BY DEF SetupInv, PlaceInv
    <3>3. 1 .. n = a \ {None} /\ None \notin Nat
      BY <2>2, <3>1, <3>2, AbsentAssumption DEF SetupInv, PlaceInv
    <3>4. 1 .. n + 1 = (1 .. n) \cup {n + 1}
      BY <3>2
    <3>5. 1 .. n + 1 = (a \cup {n + 1}) \ {None}
      BY <3>2, <3>3, <3>4
    <3>6. born' = n + 1 /\ store' = n + 1 /\ Range(archives') = a
      BY <1>1, <2>2, <3>1, <3>2
    <3> QED
      BY <1>1, <3>2, <3>5, <3>6 DEF SetupInv, PlaceInv
  <2> QED
    BY <2>1, <2>2
<1> QED
  BY <1>5, <1>6 DEF SetupInv, Commanded

(* The steps that touch neither the files nor the store.                   *)
LEMMA OtherSteps ==
  ASSUME SetupInv, EnsureIgnored \/ InstallService \/ RemoveService
  PROVE  SetupInv'
<1>1. PICK step : /\ cmd # Idle /\ cmd.stage = "next" /\ Head(cmd.todo) = step /\ Passes(cmd)
                  /\ UNCHANGED <<config, theirs, place>> /\ now' = now
                  /\ step \in {"ignore", "service", "unservice"}
                  /\ step = "ignore" => unit' = unit
                  /\ step = "unservice" => unit' = FALSE
  BY DEF EnsureIgnored, InstallService, RemoveService, At
<1>2. Commanded
  BY DEF SetupInv, Commanded
<1>3. Running(cmd) /\ Did(cmd, Range(cmd.todo), file, store, unit)
  BY <1>1, <1>2, Runs DEF Due, Coming
<1>4. /\ Range(cmd.todo) = {step} \cup Range(Tail(cmd.todo))
      /\ step \in (IF cmd.op = "init" THEN InitOrder ELSE UninstallOrder)
  BY <1>1, <1>3, Ahead
<1>5. \A x : x # step /\ x \notin Range(Tail(cmd.todo)) => x \notin Range(cmd.todo)
  BY <1>4
<1>6. store' = store
  BY <1>1 DEF place
<1>7. Did(cmd, Range(Tail(cmd.todo)), file, store', unit')
  <2>1. CASE cmd.op = "init"
    BY <1>1, <1>3, <1>5, <1>6, <2>1 DEF Did, InitDid
  <2>2. CASE cmd.op # "init"
    <3>1. step = "unservice"
      BY <1>1, <1>4, <2>2 DEF UninstallOrder
    <3> QED
      BY <1>1, <1>3, <1>5, <1>6, <2>2, <3>1 DEF Did, UninstallDid
  <2> QED
    BY <2>1, <2>2
<1>8. Commanded'
  BY <1>1, <1>2, <1>7, PassesOn
<1>9. PlaceInv'
  BY <1>1, PlaceStill DEF SetupInv, PlaceInv
<1> QED
  BY <1>8, <1>9 DEF SetupInv, Commanded

LEMMA ArchiveStep ==
  ASSUME SetupInv, Archive
  PROVE  SetupInv'
<1>1. /\ cmd # Idle /\ cmd.stage = "next" /\ Head(cmd.todo) = "archive"
      /\ UNCHANGED <<config, theirs>> /\ unit' = unit /\ now' = now /\ born' = born
  BY DEF Archive, At
<1>2. Commanded
  BY DEF SetupInv, Commanded
<1>3. Running(cmd) /\ done = None /\ Did(cmd, Range(cmd.todo), file, store, unit)
  BY <1>1, <1>2, Runs DEF Due, Coming
<1>4. CASE store # None /\ archives[now] # None
  <2>1. cmd' = Idle /\ done' = done /\ store' = store /\ archives' = archives
    BY <1>4 DEF Archive
  <2>2. Commanded'
    BY <1>1, <1>2, <1>3, <2>1, Stops
  <2>3. PlaceInv'
    BY <1>1, <2>1 DEF SetupInv, PlaceInv
  <2> QED
    BY <2>2, <2>3 DEF SetupInv, Commanded
<1>5. CASE ~ (store # None /\ archives[now] # None)
  <2>1. /\ Passes(cmd) /\ store' = None
        /\ archives' = IF store = None THEN archives ELSE [archives EXCEPT ![now] = store]
    BY <1>5 DEF Archive
  <2>2. /\ Range(cmd.todo) = {"archive"} \cup Range(Tail(cmd.todo))
        /\ cmd.op # "init"
    BY <1>1, <1>3, Ahead DEF InitOrder
  <2>3. \A x : x # "archive" /\ x \notin Range(Tail(cmd.todo)) => x \notin Range(cmd.todo)
    BY <2>2
  <2>4. Did(cmd, Range(Tail(cmd.todo)), file, store', unit')
    BY <1>1, <1>3, <2>1, <2>2, <2>3 DEF Did, UninstallDid
  <2>5. Commanded'
    BY <1>1, <1>2, <2>1, <2>4, PassesOn
  <2>6. PlaceInv'
    <3>1. CASE store = None
      BY <1>1, <2>1, <3>1 DEF SetupInv, PlaceInv
    <3>2. CASE store # None
      <4>1. PICK a : a = archives
        OBVIOUS
      <4>2. /\ a \in [Seconds -> Nat \cup {None}] /\ now \in Seconds /\ a[now] = None /\ store \in Nat
            /\ 1 .. born = (Range(a) \cup {store}) \ {None}
        BY <1>5, <3>2, <4>1 DEF SetupInv, PlaceInv
      <4>3. PICK b : b = [a EXCEPT ![now] = store]
        OBVIOUS
      <4>4. /\ b \in [Seconds -> Nat \cup {None}]
            /\ \A s \in Seconds : b[s] = IF s = now THEN store ELSE a[s]
        BY <4>2, <4>3
      <4>5. DOMAIN a = Seconds /\ DOMAIN b = Seconds
        BY <4>2, <4>4
      <4>6. Range(b) \ {None} = (Range(a) \cup {store}) \ {None}
        <5>1. ASSUME NEW x \in Range(b) PROVE x = store \/ x \in Range(a)
          BY <4>4, <4>5, <5>1 DEF Range
        <5>2. ASSUME NEW x \in Range(a), x # None PROVE x \in Range(b)
          <6>1. PICK s \in Seconds : x = a[s]
            BY <4>5, <5>2 DEF Range
          <6>2. s # now
            BY <4>2, <5>2, <6>1
          <6>3. b[s] = x
            BY <4>4, <6>1, <6>2
          <6> QED
            BY <4>5, <6>3 DEF Range
        <5>3. store \in Range(b)
          <6>1. b[now] = store
            BY <4>2, <4>4
          <6> QED
            BY <4>2, <4>5, <6>1 DEF Range
        <5> QED
          BY <5>1, <5>2, <5>3
      <4>7. archives' = b /\ store' = None
        BY <2>1, <3>2, <4>1, <4>3
      <4> QED
        BY <1>1, <4>2, <4>4, <4>6, <4>7 DEF SetupInv, PlaceInv
    <3> QED
      BY <3>1, <3>2
  <2> QED
    BY <2>5, <2>6 DEF SetupInv, Commanded
<1> QED
  BY <1>4, <1>5

LEMMA KillStep ==
  ASSUME SetupInv, Kill
  PROVE  SetupInv'
<1>1. /\ cmd # Idle /\ cmd' = Idle /\ UNCHANGED <<config, theirs, place>> /\ now' = now /\ done' = done
  BY DEF Kill
<1>2. Commanded
  BY DEF SetupInv, Commanded
<1>3. Commanded'
  BY <1>1, <1>2, Runs, Stops
<1>4. PlaceInv'
  BY <1>1, PlaceStill DEF SetupInv, PlaceInv
<1> QED
  BY <1>3, <1>4 DEF SetupInv, Commanded

(* What a write that is stopped leaves does not parse, or is empty.        *)
LEMMA StumpFacts ==
  ASSUME NEW f \in Files, NEW stump \in Stumps(f)
  PROVE  /\ Stored(f, stump) /\ stump # None /\ (f \in Json => stump = Torn)
<1>1. CASE f = "toml"
  <2>1. stump = Torn \/ stump = Blank
    BY <1>1 DEF Stumps
  <2>2. Blank \in TextsOf(f) /\ Blank \in Texts
    BY <1>1 DEF Blank, TextsOf, Texts
  <2> QED
    BY <1>1, <2>1, <2>2, AbsentAssumption DEF Stored, Json
<1>2. CASE f # "toml"
  BY <1>2, AbsentAssumption DEF Stumps, Stored
<1> QED
  BY <1>1, <1>2

(* The write of a step that changes its file.                              *)
LEMMA Begins ==
  ASSUME SetupInv, cmd # Idle, cmd.stage = "next", NEW step \in FileSteps, step = Head(cmd.todo),
         NEW f \in Files, file[f] # Torn, NEW text, Lawful(step, f, file[f], text),
         Does(step, [file EXCEPT ![f] = text]),
         NEW stage \in {"copy", "write"},
         cmd' = [cmd EXCEPT !.stage = stage, !.on = f, !.text = text],
         NEW stump \in Stumps(f),
         \/ file[f] = None /\ stage = "write" /\ file' = [file EXCEPT ![f] = stump] /\ bak' = bak
         \/ file[f] # None /\ stage = "copy" /\ bak' = [bak EXCEPT ![f] = stump] /\ file' = file,
         UNCHANGED <<theirs, place, now, done, unit>>
  PROVE  SetupInv'
<1>1. Commanded
  BY DEF SetupInv, Commanded
<1>2. Running(cmd) /\ done = None /\ Did(cmd, Range(cmd.todo), file, store, unit)
  BY <1>1, Runs DEF Due, Coming
<1>3. /\ Shaped(cmd) /\ Range(cmd.todo) = {step} \cup Range(Tail(cmd.todo))
      /\ step \in (IF cmd.op = "init" THEN InitOrder ELSE UninstallOrder)
      /\ step \in Range(cmd.todo)
  BY <1>2, Ahead
<1>4. PICK d : d = [cmd EXCEPT !.stage = stage, !.on = f, !.text = text]
  OBVIOUS
<1>5. d = [ op |-> cmd.op, flags |-> cmd.flags, refused |-> cmd.refused, edited |-> cmd.edited,
            stage |-> stage, on |-> f, text |-> text, todo |-> cmd.todo ]
  BY <1>3, <1>4 DEF Shaped
<1>6. /\ d.op = cmd.op /\ d.flags = cmd.flags /\ d.refused = cmd.refused /\ d.edited = cmd.edited
      /\ d.stage = stage /\ d.on = f /\ d.text = text /\ d.todo = cmd.todo
  BY <1>5
<1>7. ~ cmd.refused
  BY <1>2, <1>3 DEF Running, Planned, FileSteps
<1>8. text \in TextsOf(f) /\ TheirsIn(file[f]) \subseteq TheirsIn(text)
      /\ ~ Undoes(step, file[f], text)
  BY DEF Lawful
<1>9. Shaped(d)
  BY <1>3, <1>5, <1>6 DEF Shaped
<1>10. Running(d)
  BY <1>2, <1>6, <1>7, <1>8, <1>9 DEF Running, Planned
<1>11. PICK v : v = [file EXCEPT ![f] = text]
  OBVIOUS
<1>12. \A g \in Files : v[g] = IF g = f THEN text ELSE file[g]
  BY <1>11 DEF SetupInv, TypeInv
<1>13. Did(d, Range(Tail(cmd.todo)), v, store, unit)
  <2>1. \A g \in Files : ~ Undoes(step, file[g], v[g])
    BY <1>8, <1>12 DEF Undoes
  <2>2. PICK due, more : due = Range(cmd.todo) /\ more = Range(Tail(cmd.todo))
    OBVIOUS
  <2>3. Did(cmd, due, file, store, unit) /\ due \subseteq {step} \cup more /\ Does(step, v)
    BY <1>2, <1>3, <1>11, <2>2
  <2>4. Did(cmd, more, v, store, unit)
    BY <1>3, <2>1, <2>3, DidStep
  <2> QED
    BY <1>6, <2>2, <2>4, DidAlike
<1>14. cmd' = d /\ store' = store /\ unit' = unit /\ done' = None /\ theirs' = theirs
  BY <1>2, <1>4 DEF place
<1>15. Coming' = v
  <2>1. Coming' = [file' EXCEPT ![f] = text]
    BY <1>6, <1>14 DEF Coming
  <2>2. CASE file' = file
    BY <1>11, <2>1, <2>2
  <2>3. CASE file' = [file EXCEPT ![f] = stump]
    BY <1>11, <2>1, <2>3 DEF SetupInv, TypeInv
  <2> QED
    BY <2>2, <2>3
<1>16. StepsInv'
  BY <1>6, <1>13, <1>14, <1>15 DEF StepsInv, Due
<1>17. Stored(f, stump) /\ stump # None /\ (f \in Json => stump = Torn)
  BY StumpFacts
<1>18. \A g \in Files : /\ file'[g] = IF g = f /\ file[f] = None THEN stump ELSE file[g]
                        /\ bak'[g] = IF g = f /\ file[f] # None THEN stump ELSE bak[g]
  BY DEF SetupInv, TypeInv
<1>19. TypeInv'
  <2>1. file' = [g \in Files |-> file'[g]] /\ bak' = [g \in Files |-> bak'[g]]
    BY DEF SetupInv, TypeInv
  <2>2. \A g \in Files : Stored(g, file'[g]) /\ Stored(g, bak'[g])
    BY <1>17, <1>18 DEF SetupInv, TypeInv
  <2>3. theirs' = [g \in Files |-> theirs'[g]]
    BY <1>14 DEF SetupInv, TypeInv
  <2> QED
    BY <1>10, <1>14, <2>1, <2>2, <2>3 DEF TypeInv
<1>20. KeptInv'
  <2>1. ASSUME NEW g \in Json PROVE Held(g)'
    <3>0. g \in Files /\ Held(g) /\ theirs'[g] = theirs[g]
      BY <1>14 DEF SetupInv, KeptInv, Files
    <3>1. CASE g # f
      BY <1>18, <3>0, <3>1 DEF Held
    <3>2. CASE g = f /\ file[f] # None
      BY <1>18, <3>0, <3>2 DEF Held
    <3>3. CASE g = f /\ file[f] = None
      <4>1. theirs[g] = {}
        BY <3>0, <3>3, AbsentAssumption, NothingIn DEF Held
      <4> QED
        BY <3>0, <4>1 DEF Held
    <3> QED
      BY <3>1, <3>2, <3>3
  <2>2. f \in Json => theirs[f] \subseteq TheirsIn(text)
    BY <1>8 DEF SetupInv, KeptInv, Held
  <2>3. stage = "copy" => file'[f] \notin {None, Torn}
    BY <1>18
  <2> QED
    BY <1>6, <1>14, <2>1, <2>2, <2>3 DEF KeptInv
<1>21. DoneInv'
  BY <1>14 DEF DoneInv
<1>22. PlaceInv'
  BY PlaceStill DEF SetupInv, PlaceInv
<1> QED
  BY <1>16, <1>19, <1>20, <1>21, <1>22 DEF SetupInv

LEMMA MergeStep ==
  ASSUME SetupInv, Merge
  PROVE  SetupInv'
<1>1. PICK step \in FileSteps : cmd # Idle /\ cmd.stage = "next" /\ Head(cmd.todo) = step
  BY DEF Merge, At
<1>2. PICK it : it = Intent(step)
  OBVIOUS
<1>3. Outcome(step, it)
  BY <1>2, Intents DEF SetupInv
<1>4. UNCHANGED <<ignore, unit, place, now, left, theirs>>
  BY DEF Merge
<1>5. \/ /\ it.act = "abort" /\ cmd' = Idle /\ UNCHANGED <<config, done>>
      \/ /\ it.act = "skip" /\ Passes(cmd) /\ UNCHANGED config
      \/ /\ it.act = "refuse" /\ Passes([cmd EXCEPT !.todo = Tail(@), !.refused = TRUE])
         /\ UNCHANGED config
      \/ /\ it.act = "write" /\ UNCHANGED done
         /\ \E stump \in Stumps(it.file) :
              IF file[it.file] = None
              THEN /\ file' = [file EXCEPT ![it.file] = stump]
                   /\ cmd' = [cmd EXCEPT !.stage = "write", !.on = it.file, !.text = it.text]
                   /\ UNCHANGED bak
              ELSE /\ bak' = [bak EXCEPT ![it.file] = stump]
                   /\ cmd' = [cmd EXCEPT !.stage = "copy", !.on = it.file, !.text = it.text]
                   /\ UNCHANGED file
  BY <1>1, <1>2 DEF Merge
<1>6. Commanded
  BY DEF SetupInv, Commanded
<1>7. Running(cmd) /\ done = None /\ Did(cmd, Range(cmd.todo), file, store, unit)
  BY <1>1, <1>6, Runs DEF Due, Coming
<1>8. /\ Shaped(cmd) /\ Range(cmd.todo) = {step} \cup Range(Tail(cmd.todo))
      /\ step \in (IF cmd.op = "init" THEN InitOrder ELSE UninstallOrder)
      /\ Planned(cmd, Tail(cmd.todo))
  BY <1>1, <1>7, Ahead
<1>9. PlaceInv'
  BY <1>4, PlaceStill DEF SetupInv, PlaceInv
<1>10. CASE it.act = "abort"
  <2>1. cmd' = Idle /\ UNCHANGED <<config, theirs>> /\ done' = None
    BY <1>4, <1>5, <1>7, <1>10
  <2> QED
    BY <1>6, <1>9, <2>1, Stops DEF SetupInv, Commanded
<1>11. CASE it.act = "skip"
  <2>1. Does(step, file) /\ Passes(cmd) /\ UNCHANGED <<config, theirs>>
    BY <1>3, <1>4, <1>5, <1>11 DEF Outcome
  <2>2. \A g \in Files : ~ Undoes(step, file[g], file[g])
    BY DEF Undoes
  <2>3. Range(cmd.todo) \subseteq {step} \cup Range(Tail(cmd.todo))
    BY <1>8
  <2>4. Did(cmd, Range(Tail(cmd.todo)), file, store, unit)
    BY <1>7, <1>8, <2>1, <2>2, <2>3, DidStep
  <2>5. Commanded'
    BY <1>1, <1>4, <1>6, <2>1, <2>4, PassesOn DEF place
  <2> QED
    BY <1>9, <2>5 DEF SetupInv, Commanded
<1>12. CASE it.act = "refuse"
  <2>1. PICK c : c = [cmd EXCEPT !.todo = Tail(@), !.refused = TRUE]
    OBVIOUS
  <2>2. Passes(c) /\ UNCHANGED <<config, theirs>> /\ step = "codex"
    BY <1>3, <1>4, <1>5, <1>12, <2>1 DEF Outcome
  <2>3. c = [ op |-> cmd.op, flags |-> cmd.flags, refused |-> TRUE, edited |-> cmd.edited,
              stage |-> cmd.stage, on |-> cmd.on, text |-> cmd.text, todo |-> Tail(cmd.todo) ]
    BY <1>8, <2>1 DEF Shaped
  <2>4. /\ c.op = cmd.op /\ c.flags = cmd.flags /\ c.refused = TRUE /\ c.edited = cmd.edited
        /\ c.stage = cmd.stage /\ c.todo = Tail(cmd.todo)
    BY <2>3
  <2>5. Shaped(c)
    BY <1>8, <2>3, <2>4 DEF Shaped
  <2>6. cmd.op = "init"
    BY <1>8, <2>2 DEF UninstallOrder
  <2>7. PICK todo : todo = cmd.todo
    OBVIOUS
  <2>8. todo \in Seq(Steps) /\ todo # << >> /\ InPairs(todo) /\ Head(todo) = "codex"
    BY <1>1, <1>7, <2>2, <2>7 DEF Running, Planned
  <2>9. /\ Tail(todo) # << >> /\ Range(Tail(Tail(todo))) \subseteq {"service"}
        /\ Tail(todo) \in Seq(Steps) /\ InPairs(Tail(todo))
    BY <2>8, AfterCodex, Rests
  <2>10. /\ Tail(Tail(todo)) \in Seq(Steps) /\ InPairs(Tail(Tail(todo)))
         /\ Range(Tail(todo)) = {Head(Tail(todo))} \cup Range(Tail(Tail(todo)))
    BY <2>9, Rests
  <2>11. Planned(c, Tail(c.todo))
    BY <2>4, <2>6, <2>7, <2>9, <2>10 DEF Planned, InitOrder
  <2>12. Did(c, Range(Tail(c.todo)), file, store, unit)
    <3>1. Range(Tail(c.todo)) \subseteq {"service"}
      BY <2>4, <2>7, <2>9
    <3>2. PICK m : m = Head(Tail(todo))
      OBVIOUS
    <3>3. m = "codexMcp"
      <4>1. Tail(todo)[1] = todo[2] /\ todo[2] = "codexMcp"
        <5>1. PICK n \in Nat : n = Len(todo)
          BY <2>8, LenProperties
        <5>2. /\ n # 0 /\ DOMAIN todo = 1 .. n /\ Head(todo) = todo[1]
              /\ \A i \in 1 .. n - 1 : Tail(todo)[i] = todo[i + 1]
          BY <2>8, <5>1, Tails
        <5>3. 1 \in 1 .. n /\ 1 + 1 = 2
          BY <5>2
        <5>4. 2 \in 1 .. n /\ todo[2] = "codexMcp"
          <6>1. 1 \in DOMAIN todo /\ todo[1] = "codex"
            BY <2>8, <5>2, <5>3
          <6>2. 1 + 1 \in DOMAIN todo /\ todo[1 + 1] = "codexMcp"
            BY <2>8, <6>1 DEF InPairs
          <6> QED
            BY <5>2, <5>3, <6>2
        <5>5. 1 \in 1 .. n - 1
          BY <5>4
        <5> QED
          BY <5>2, <5>3, <5>4, <5>5
      <4>2. Head(Tail(todo)) = Tail(todo)[1]
        BY <2>9, Tails, LenProperties
      <4> QED
        BY <3>2, <4>1, <4>2
    <3>4. Range(cmd.todo) \subseteq {"codex", "codexMcp", "service"}
      BY <1>8, <2>2, <2>7, <2>9, <2>10, <3>2, <3>3
    <3> QED
      BY <1>7, <2>4, <2>6, <3>4 DEF Did, InitDid
  <2>13. /\ cmd' = Idle \/ Running(cmd')
         /\ cmd'.stage = "next"
         /\ Did(c, Range(Tail(c.todo)), file', store', unit') => StepsInv' /\ DoneInv'
    BY <1>7, <2>2, <2>5, <2>11, Passing
  <2>14. file' = file /\ bak' = bak /\ theirs' = theirs /\ store' = store /\ unit' = unit
    BY <1>4, <2>2 DEF config, place
  <2>15. TypeInv'
    BY <2>13, <2>14 DEF SetupInv, TypeInv
  <2>16. KeptInv'
    BY <2>2, <2>13, KeptStill DEF SetupInv
  <2> QED
    BY <1>9, <2>12, <2>13, <2>14, <2>15, <2>16 DEF SetupInv
<1>13. CASE it.act = "write"
  <2>0. PICK text : text = it.text
    OBVIOUS
  <2>1. PICK f \in Files : f = it.file /\ text = it.text
    BY <1>3, <1>13, <2>0 DEF Outcome
  <2>2. /\ file[f] # Torn /\ Lawful(step, f, file[f], text)
        /\ Does(step, [file EXCEPT ![f] = text])
    BY <1>3, <1>13, <2>1 DEF Outcome
  <2>3. PICK stump \in Stumps(f) :
              IF file[f] = None
              THEN /\ file' = [file EXCEPT ![f] = stump]
                   /\ cmd' = [cmd EXCEPT !.stage = "write", !.on = f, !.text = text]
                   /\ UNCHANGED bak
              ELSE /\ bak' = [bak EXCEPT ![f] = stump]
                   /\ cmd' = [cmd EXCEPT !.stage = "copy", !.on = f, !.text = text]
                   /\ UNCHANGED file
    BY <1>5, <1>13, <2>1
  <2>4. UNCHANGED <<theirs, place, now, done, unit>>
    BY <1>4, <1>5, <1>13
  <2>5. CASE file[f] = None
    BY <1>1, <2>2, <2>3, <2>4, <2>5, Begins
  <2>6. CASE file[f] # None
    BY <1>1, <2>2, <2>3, <2>4, <2>6, Begins
  <2> QED
    BY <2>5, <2>6
<1> QED
  BY <1>3, <1>10, <1>11, <1>12, <1>13 DEF Outcome

(* The files' own steps, while one is being rewritten.                     *)
LEMMA Rewrites ==
  ASSUME SetupInv, cmd.stage # "next"
  PROVE  /\ cmd # Idle /\ Running(cmd) /\ Shaped(cmd) /\ done = None /\ Commanded
         /\ cmd.on \in Files /\ cmd.text \in TextsOf(cmd.on) /\ ~ cmd.refused
         /\ Did(cmd, Range(Tail(cmd.todo)), [file EXCEPT ![cmd.on] = cmd.text], store, unit)
<1>1. cmd # Idle /\ Commanded
  BY DEF Idle, SetupInv, Commanded
<1>2. Running(cmd) /\ done = None /\ Did(cmd, Due(cmd), Coming, store, unit)
  BY <1>1, Runs
<1> QED
  BY <1>1, <1>2 DEF Running, Due, Coming

(* The write goes on to its next stage.                                    *)
LEMMA Staged ==
  ASSUME SetupInv, cmd.stage # "next", NEW stage \in {"open", "write"},
         cmd' = [cmd EXCEPT !.stage = stage],
         file' = [f \in Files |-> file'[f]], bak' = [f \in Files |-> bak'[f]],
         \A f \in Files : Stored(f, file'[f]) /\ Stored(f, bak'[f]),
         [file' EXCEPT ![cmd.on] = cmd.text] = [file EXCEPT ![cmd.on] = cmd.text],
         UNCHANGED <<theirs, place, now, done, unit>>, KeptInv'
  PROVE  SetupInv'
<1>1. /\ cmd # Idle /\ Running(cmd) /\ Shaped(cmd) /\ done = None
      /\ cmd.on \in Files /\ cmd.text \in TextsOf(cmd.on) /\ ~ cmd.refused
      /\ Did(cmd, Range(Tail(cmd.todo)), [file EXCEPT ![cmd.on] = cmd.text], store, unit)
  BY Rewrites
<1>2. PICK d : d = [cmd EXCEPT !.stage = stage]
  OBVIOUS
<1>3. d = [ op |-> cmd.op, flags |-> cmd.flags, refused |-> cmd.refused, edited |-> cmd.edited,
            stage |-> stage, on |-> cmd.on, text |-> cmd.text, todo |-> cmd.todo ]
  BY <1>1, <1>2 DEF Shaped
<1>4. /\ d.op = cmd.op /\ d.flags = cmd.flags /\ d.refused = cmd.refused /\ d.edited = cmd.edited
      /\ d.stage = stage /\ d.on = cmd.on /\ d.text = cmd.text /\ d.todo = cmd.todo
  BY <1>3
<1>5. Shaped(d)
  BY <1>1, <1>3, <1>4 DEF Shaped
<1>6. Running(d)
  BY <1>1, <1>4, <1>5 DEF Running, Planned
<1>7. cmd' = d
  BY <1>2
<1>8. TypeInv'
  BY <1>6, <1>7 DEF SetupInv, TypeInv
<1>9. Did(d, Range(Tail(cmd.todo)), [file EXCEPT ![cmd.on] = cmd.text], store, unit)
  BY <1>1, <1>4, DidAlike
<1>10. Coming' = [file EXCEPT ![cmd.on] = cmd.text] /\ Due(cmd') = Range(Tail(cmd.todo))
  BY <1>4, <1>7 DEF Coming, Due
<1>11. StepsInv'
  BY <1>7, <1>9, <1>10 DEF StepsInv, place
<1>12. DoneInv'
  BY <1>1 DEF DoneInv
<1>13. PlaceInv'
  BY PlaceStill DEF SetupInv, PlaceInv
<1> QED
  BY <1>8, <1>11, <1>12, <1>13 DEF SetupInv

LEMMA CopyStep ==
  ASSUME SetupInv, CopyBackup
  PROVE  SetupInv'
<1>1. /\ cmd.stage = "copy" /\ bak' = [bak EXCEPT ![cmd.on] = file[cmd.on]]
      /\ cmd' = [cmd EXCEPT !.stage = "open"] /\ file' = file /\ theirs' = theirs
      /\ UNCHANGED <<theirs, place, now, done, unit>>
  BY DEF CopyBackup, Rewriting
<1>2. Shaped(cmd) /\ cmd.on \in Files
  BY <1>1, Rewrites
<1>3. /\ cmd'.stage = "open" /\ cmd'.on = cmd.on /\ cmd'.text = cmd.text
  BY <1>1, <1>2 DEF Shaped
<1>4. \A f \in Files : bak'[f] = IF f = cmd.on THEN file[f] ELSE bak[f]
  BY <1>1 DEF SetupInv, TypeInv
<1>5. file[cmd.on] \notin {None, Torn}
  BY <1>1 DEF SetupInv, KeptInv
<1>6. \A f \in Files : Stored(f, file'[f]) /\ Stored(f, bak'[f])
  BY <1>1, <1>4 DEF SetupInv, TypeInv
<1>7. \A f \in Json : Held(f)'
  <2> SUFFICES ASSUME NEW f \in Json PROVE Held(f)'
    OBVIOUS
  <2>1. f \in Files /\ Held(f)
    BY DEF Files, SetupInv, KeptInv
  <2> QED
    BY <1>1, <1>4, <1>5, <2>1 DEF Held
<1>8. KeptInv'
  BY <1>1, <1>2, <1>3, <1>4, <1>5, <1>7 DEF SetupInv, KeptInv
<1>9. file' = [f \in Files |-> file'[f]] /\ bak' = [f \in Files |-> bak'[f]]
  BY <1>1 DEF SetupInv, TypeInv
<1> QED
  BY <1>1, <1>6, <1>8, <1>9, Staged

LEMMA OpenStep ==
  ASSUME SetupInv, OpenFile
  PROVE  SetupInv'
<1>1. PICK stump \in Stumps(cmd.on) :
        /\ cmd.stage = "open" /\ file' = [file EXCEPT ![cmd.on] = stump]
        /\ cmd' = [cmd EXCEPT !.stage = "write"] /\ bak' = bak /\ theirs' = theirs
        /\ UNCHANGED <<theirs, place, now, done, unit>>
  BY DEF OpenFile, Rewriting
<1>2. Shaped(cmd) /\ cmd.on \in Files
  BY <1>1, Rewrites
<1>3. /\ cmd'.stage = "write" /\ cmd'.on = cmd.on /\ cmd'.text = cmd.text
  BY <1>1, <1>2 DEF Shaped
<1>4. /\ Stored(cmd.on, stump) /\ (cmd.on \in Json => stump = Torn)
  BY <1>1, <1>2, StumpFacts
<1>5. \A f \in Files : file'[f] = IF f = cmd.on THEN stump ELSE file[f]
  BY <1>1 DEF SetupInv, TypeInv
<1>6. \A f \in Files : Stored(f, file'[f]) /\ Stored(f, bak'[f])
  BY <1>1, <1>4, <1>5 DEF SetupInv, TypeInv
<1>7. bak[cmd.on] = file[cmd.on] /\ file[cmd.on] # Torn
  BY <1>1 DEF SetupInv, KeptInv
<1>8. \A f \in Json : Held(f)'
  <2> SUFFICES ASSUME NEW f \in Json PROVE Held(f)'
    OBVIOUS
  <2>1. f \in Files /\ Held(f)
    BY DEF Files, SetupInv, KeptInv
  <2> QED
    BY <1>1, <1>4, <1>5, <1>7, <2>1 DEF Held
<1>9. KeptInv'
  BY <1>1, <1>3, <1>8 DEF SetupInv, KeptInv
<1>10. file' = [f \in Files |-> file'[f]] /\ bak' = [f \in Files |-> bak'[f]]
  BY <1>1 DEF SetupInv, TypeInv
<1>11. [file' EXCEPT ![cmd.on] = cmd.text] = [file EXCEPT ![cmd.on] = cmd.text]
  BY <1>1, <1>2 DEF SetupInv, TypeInv
<1> QED
  BY <1>1, <1>6, <1>9, <1>10, <1>11, Staged

LEMMA WriteStep ==
  ASSUME SetupInv, WriteFile
  PROVE  SetupInv'
<1>1. /\ cmd.stage = "write" /\ file' = [file EXCEPT ![cmd.on] = cmd.text] /\ Passes(cmd)
      /\ bak' = bak /\ theirs' = theirs /\ UNCHANGED <<unit, place, now>>
  BY DEF WriteFile, Rewriting
<1>2. /\ Running(cmd) /\ done = None /\ cmd.on \in Files /\ cmd.text \in TextsOf(cmd.on)
      /\ Did(cmd, Range(Tail(cmd.todo)), file', store, unit)
  BY <1>1, Rewrites
<1>3. /\ cmd' = Idle \/ Running(cmd')
      /\ cmd'.stage = "next"
      /\ Did(cmd, Range(Tail(cmd.todo)), file', store', unit') => StepsInv' /\ DoneInv'
  BY <1>1, <1>2, Ahead, Passing
<1>4. \A f \in Files : file'[f] = IF f = cmd.on THEN cmd.text ELSE file[f]
  BY <1>1 DEF SetupInv, TypeInv
<1>5. StepsInv' /\ DoneInv'
  BY <1>1, <1>2, <1>3 DEF place
<1>6. TypeInv'
  <2>1. file' = [f \in Files |-> file'[f]]
    BY <1>1 DEF SetupInv, TypeInv
  <2>2. \A f \in Files : Stored(f, file'[f])
    BY <1>2, <1>4 DEF SetupInv, TypeInv, Stored
  <2> QED
    BY <1>1, <1>3, <2>1, <2>2 DEF SetupInv, TypeInv
<1>7. cmd.text # Torn
  BY <1>2, TextFacts DEF TextsOf
<1>8. KeptInv'
  <2>1. ASSUME NEW f \in Json PROVE Held(f)'
    <3>1. f \in Files /\ Held(f)
      BY DEF Files, SetupInv, KeptInv
    <3>2. f = cmd.on => theirs[f] \subseteq TheirsIn(cmd.text)
      BY <1>1 DEF SetupInv, KeptInv
    <3> QED
      BY <1>1, <1>4, <1>7, <3>1, <3>2 DEF Held
  <2> QED
    BY <1>3, <2>1 DEF KeptInv
<1>9. PlaceInv'
  BY <1>1, PlaceStill DEF SetupInv, PlaceInv
<1> QED
  BY <1>5, <1>6, <1>8, <1>9 DEF SetupInv

-----------------------------------------------------------------------------
(* The user.                                                               *)

LEMMA DidEdited ==
  ASSUME NEW c, NEW d, NEW f, d.op = c.op, d.flags = c.flags, d.refused = c.refused,
         d.edited = c.edited \cup {f}, NEW due, NEW w, NEW v, NEW st, NEW u,
         Did(c, due, w, st, u), \A g \in Files : g # f => v[g] = w[g]
  PROVE  Did(d, due, v, st, u)
<1>1. CASE c.op = "init"
  BY <1>1 DEF Did, InitDid, Files, Json
<1>2. CASE c.op # "init"
  BY <1>2 DEF Did, UninstallDid, Files, Json
<1> QED
  BY <1>1, <1>2

LEMMA EditStep ==
  ASSUME SetupInv, NEW f \in Files, NEW text, NEW put, Edits(f, text, put),
         text \in TextsOf(f) \cup {None}, f \in Json => put \subseteq TheirsIn(text)
  PROVE  SetupInv'
<1>1. /\ cmd.stage = "next" /\ file' = [file EXCEPT ![f] = text]
      /\ theirs' = [theirs EXCEPT ![f] = put] /\ bak' = bak
      /\ cmd' = IF cmd = Idle THEN cmd ELSE [cmd EXCEPT !.edited = @ \cup {f}]
      /\ done' = IF done = None THEN None ELSE [done EXCEPT !.edited = @ \cup {f}]
      /\ UNCHANGED place /\ unit' = unit /\ now' = now
  BY DEF Edits, Between
<1>2. /\ \A g \in Files : file'[g] = IF g = f THEN text ELSE file[g]
      /\ \A g \in Files : theirs'[g] = IF g = f THEN put ELSE theirs[g]
      /\ file' = [g \in Files |-> file'[g]] /\ theirs' = [g \in Files |-> theirs'[g]]
  BY <1>1 DEF SetupInv, TypeInv
<1>3. store' = store
  BY <1>1 DEF place
<1>4. /\ cmd' = Idle \/ Running(cmd')
      /\ cmd'.stage = "next" /\ (cmd' = Idle <=> cmd = Idle) /\ StepsInv'
  <2>1. CASE cmd = Idle
    BY <1>1, <2>1 DEF StepsInv, Idle
  <2>2. CASE cmd # Idle
    <3>1. Running(cmd) /\ Did(cmd, Range(cmd.todo), file, store, unit)
      BY <1>1, <2>2, Runs DEF SetupInv, Commanded, Due, Coming
    <3>2. PICK d : d = [cmd EXCEPT !.edited = @ \cup {f}]
      OBVIOUS
    <3>3. d = [ op |-> cmd.op, flags |-> cmd.flags, refused |-> cmd.refused,
                edited |-> cmd.edited \cup {f},
                stage |-> cmd.stage, on |-> cmd.on, text |-> cmd.text, todo |-> cmd.todo ]
      BY <3>1, <3>2 DEF Running, Shaped
    <3>4. /\ d.op = cmd.op /\ d.flags = cmd.flags /\ d.refused = cmd.refused
          /\ d.edited = cmd.edited \cup {f} /\ d.todo = cmd.todo
          /\ d.stage = cmd.stage /\ d.on = cmd.on /\ d.text = cmd.text
      BY <3>3
    <3>5. Shaped(d)
      BY <3>1, <3>3, <3>4 DEF Running, Shaped
    <3>6. Running(d)
      BY <3>1, <3>4, <3>5 DEF Running, Planned
    <3>7. Did(d, Range(cmd.todo), file', store, unit)
      BY <1>2, <3>1, <3>4, DidEdited
    <3>8. cmd' = d
      BY <1>1, <2>2, <3>2
    <3>9. Due(cmd') = Range(cmd.todo) /\ Coming' = file'
      BY <1>1, <3>4, <3>8 DEF Due, Coming
    <3>10. StepsInv'
      BY <1>1, <1>3, <3>7, <3>8, <3>9 DEF StepsInv
    <3> QED
      BY <1>1, <2>2, <3>4, <3>6, <3>8, <3>10, NotIdle
  <2> QED
    BY <2>1, <2>2
<1>5. TypeInv'
  <2>1. \A g \in Files : Stored(g, file'[g])
    BY <1>2 DEF SetupInv, TypeInv, Stored
  <2> QED
    BY <1>1, <1>2, <1>4, <2>1 DEF SetupInv, TypeInv
<1>6. KeptInv'
  <2>1. ASSUME NEW g \in Json PROVE Held(g)'
    <3>1. g \in Files /\ Held(g)
      BY DEF Files, SetupInv, KeptInv
    <3>2. text # Torn
      BY AbsentAssumption DEF TextsOf
    <3> QED
      BY <1>1, <1>2, <3>1, <3>2 DEF Held
  <2> QED
    BY <1>4, <2>1 DEF KeptInv
<1>7. DoneInv'
  <2>1. CASE done = None
    BY <1>1, <2>1 DEF DoneInv
  <2>2. CASE done # None
    <3>1. /\ cmd = Idle /\ Did(done, {}, file, store, unit) /\ done.op \in {"init", "uninstall"}
          /\ done = [op |-> done.op, flags |-> done.flags, refused |-> done.refused, edited |-> done.edited]
      BY <2>2 DEF SetupInv, DoneInv
    <3>2. PICK d : d = [done EXCEPT !.edited = @ \cup {f}]
      OBVIOUS
    <3>3. d = [op |-> done.op, flags |-> done.flags, refused |-> done.refused, edited |-> done.edited \cup {f}]
      BY <3>1, <3>2
    <3>4. /\ d.op = done.op /\ d.flags = done.flags /\ d.refused = done.refused
          /\ d.edited = done.edited \cup {f}
      BY <3>3
    <3>5. Did(d, {}, file', store, unit)
      BY <1>2, <3>1, <3>4, DidEdited
    <3>6. done' = d /\ cmd' = Idle
      BY <1>1, <1>4, <2>2, <3>1, <3>2
    <3> QED
      BY <1>1, <1>3, <3>1, <3>3, <3>4, <3>5, <3>6 DEF DoneInv
  <2> QED
    BY <2>1, <2>2
<1>8. PlaceInv'
  BY <1>1, PlaceStill DEF SetupInv, PlaceInv
<1> QED
  BY <1>4, <1>5, <1>6, <1>7, <1>8 DEF SetupInv

LEMMA Uses ==
  ASSUME NEW f, NEW text, NEW put, Edits(f, text, put),
         "edits" \in DOMAIN left, left["edits"] \in Nat
  PROVE  left' # left
  BY DEF Edits, Use

LEMMA HookAdded ==
  ASSUME SetupInv, NEW f \in Files, NEW e \in Events, AddHook(f, e)
  PROVE  SetupInv' /\ \E text, put : Edits(f, text, put)
<1>1. PICK c : c = Present(file[f])
  OBVIOUS
<1>2. PICK had : had = IF c.hooks = None THEN NoEvents ELSE c.hooks
  OBVIOUS
<1>3. PICK groups : groups = IF had[e] = None THEN {} ELSE had[e]
  OBVIOUS
<1>4. PICK g : /\ f # "mcp" /\ file[f] # Torn
               /\ g \in {groups \cup {{"theirs"}}}
                         \cup {(groups \ {h}) \cup {h \cup {"theirs"}} : h \in groups}
               /\ Edits(f, [c EXCEPT !.hooks = [had EXCEPT ![e] = g]], theirs[f] \cup {<<e, "theirs">>})
  BY <1>1, <1>2, <1>3 DEF AddHook
<1>5. c \in TextsOf(f) /\ TheirsIn(file[f]) \subseteq TheirsIn(c)
  BY <1>1, <1>4, Presents DEF SetupInv, TypeInv
<1>6. c \in Texts /\ (f \in {"claude", "hooks"} => c.servers = None)
  BY <1>5 DEF TextsOf
<1>7. had \in Tables
  BY <1>2, <1>6, TextFacts DEF NoEvents, Tables
<1>8. groups \in SUBSET Groups
  BY <1>3, <1>7 DEF Tables
<1>9. g \in SUBSET Groups /\ \E h \in g : "theirs" \in h
  <2>1. CASE g = groups \cup {{"theirs"}}
    <3>1. {"theirs"} \in Groups /\ {"theirs"} \in g /\ "theirs" \in {"theirs"}
      BY <2>1 DEF Groups
    <3> QED
      BY <1>8, <2>1, <3>1
  <2>2. CASE \E h \in groups : g = (groups \ {h}) \cup {h \cup {"theirs"}}
    <3>1. PICK h \in groups : g = (groups \ {h}) \cup {h \cup {"theirs"}}
      BY <2>2
    <3>2. PICK k : k = h \cup {"theirs"}
      OBVIOUS
    <3>3. k \in Groups /\ "theirs" \in k
      BY <1>8, <3>2 DEF Groups
    <3>4. g = (groups \ {h}) \cup {k}
      BY <3>1, <3>2
    <3> QED
      BY <1>8, <3>3, <3>4
  <2> QED
    BY <1>4, <2>1, <2>2
<1>10. PICK t : t = [had EXCEPT ![e] = g]
  OBVIOUS
<1>11. t \in Tables /\ t[e] = g /\ \A x \in Events : x # e => t[x] = had[x]
  BY <1>7, <1>9, <1>10 DEF Tables
<1>12. PICK text : text = [c EXCEPT !.hooks = t]
  OBVIOUS
<1>13. text.hooks = t /\ text.servers = c.servers /\ text = [hooks |-> t, servers |-> c.servers]
  BY <1>6, <1>12, TextFacts
<1>14. text \in Texts
  BY <1>6, <1>11, <1>13, TextFacts DEF Texts
<1>15. text \in TextsOf(f)
  BY <1>4, <1>6, <1>13, <1>14 DEF TextsOf
<1>16. text.hooks # None /\ g # None
  BY <1>9, <1>11, <1>13, AbsentAssumption
<1>17. \A x \in Events : x \in Listed(text) <=> t[x] # None
  BY <1>13, <1>14, <1>16, TextFacts DEF Listed
<1>18. TheirHook(text, e)
  <2>1. e \in Listed(text) /\ text.hooks[e] = g
    BY <1>11, <1>13, <1>16, <1>17
  <2> QED
    BY <1>9, <2>1 DEF TheirHook
<1>19. \A x \in Events : TheirHook(c, x) => TheirHook(text, x)
  <2> SUFFICES ASSUME NEW x \in Events, TheirHook(c, x), x # e PROVE TheirHook(text, x)
    BY <1>18
  <2>1. x \in Listed(c) /\ \E h \in c.hooks[x] : "theirs" \in h
    BY DEF TheirHook
  <2>2. had = c.hooks /\ had[x] # None
    BY <1>2, <2>1 DEF Listed
  <2>3. x \in Listed(text) /\ text.hooks[x] = c.hooks[x]
    BY <1>11, <1>13, <1>17, <2>2
  <2> QED
    BY <2>1, <2>3 DEF TheirHook
<1>20. Declared(text) = Declared(c)
  BY <1>6, <1>13, <1>14, SameServers
<1>21. TheirsIn(c) \subseteq TheirsIn(text)
  BY <1>19, <1>20, Kept
<1>22. <<e, "theirs">> \in TheirsIn(text)
  <2>1. <<e, "theirs">> \in Commands(text)
    BY <1>18 DEF TheirHook, Commands
  <2>2. ~ (<<e, "theirs">>[2] = "ours")
    OBVIOUS
  <2> QED
    BY <2>1, <2>2 DEF TheirsIn, OursIn, Entries
<1>23. f \in Json => theirs[f] \cup {<<e, "theirs">>} \subseteq TheirsIn(text)
  BY <1>4, <1>5, <1>21, <1>22 DEF SetupInv, KeptInv, Held
<1>24. Edits(f, text, theirs[f] \cup {<<e, "theirs">>})
  BY <1>4, <1>10, <1>12
<1> QED
  BY <1>15, <1>23, <1>24, EditStep

LEMMA ServerAdded ==
  ASSUME SetupInv, NEW f \in Files, NEW w \in Servers, AddServer(f, w)
  PROVE  SetupInv' /\ \E text, put : Edits(f, text, put)
<1>1. PICK c : c = Present(file[f])
  OBVIOUS
<1>2. PICK s : s = (IF w = "foreign" THEN Declared(c) \ {"ours"} ELSE Declared(c)) \cup {w}
  OBVIOUS
<1>3. /\ f \in {"mcp", "toml"} /\ file[f] # Torn /\ w # "ours"
      /\ Edits(f, [c EXCEPT !.servers = s], theirs[f] \cup {<<"server", w>>})
  BY <1>1, <1>2 DEF AddServer
<1>4. c \in TextsOf(f) /\ TheirsIn(file[f]) \subseteq TheirsIn(c)
  BY <1>1, <1>3, Presents DEF SetupInv, TypeInv
<1>5. c \in Texts /\ (f = "mcp" => c.hooks = None)
  BY <1>4 DEF TextsOf
<1>6. Declared(c) \subseteq Servers
  BY <1>5, TextFacts DEF Declared
<1>7. s \in SUBSET Servers /\ Declared(c) \ {"ours"} \subseteq s /\ w \in s
  BY <1>2, <1>6
<1>8. PICK text : text = [c EXCEPT !.servers = s]
  OBVIOUS
<1>9. text.hooks = c.hooks /\ text.servers = s /\ text = [hooks |-> c.hooks, servers |-> s]
  BY <1>5, <1>8, TextFacts
<1>10. text \in Texts
  BY <1>5, <1>7, <1>9, TextFacts DEF Texts
<1>11. s # None
  BY <1>7, AbsentAssumption
<1>12. Declared(text) = s
  BY <1>9, <1>10, <1>11, TextFacts DEF Declared
<1>13. \A e \in Events : TheirHook(c, e) => TheirHook(text, e)
  BY <1>5, <1>9, <1>10, SameHooks
<1>14. Declared(c) \ {"ours"} \subseteq Declared(text)
  BY <1>7, <1>12
<1>15. TheirsIn(c) \subseteq TheirsIn(text)
  BY <1>13, <1>14, Kept
<1>16. <<"server", w>> \in TheirsIn(text)
  BY <1>3, <1>7, <1>12 DEF TheirsIn, OursIn, Entries
<1>17. text \in TextsOf(f)
  BY <1>3, <1>5, <1>9, <1>10 DEF TextsOf
<1>18. f \in Json => theirs[f] \cup {<<"server", w>>} \subseteq TheirsIn(text)
  BY <1>3, <1>4, <1>15, <1>16 DEF SetupInv, KeptInv, Held
<1>19. Edits(f, text, theirs[f] \cup {<<"server", w>>})
  BY <1>3, <1>8
<1> QED
  BY <1>17, <1>18, <1>19, EditStep

LEMMA UserStep ==
  ASSUME SetupInv,
         \/ \E f \in Files, e \in Events : AddHook(f, e)
         \/ \E f \in Files, w \in Servers : AddServer(f, w)
         \/ \E f \in Files : Delete(f) \/ Restore(f)
  PROVE  SetupInv' /\ \E f, text, put : Edits(f, text, put)
<1>1. CASE \E f \in Files, e \in Events : AddHook(f, e)
  BY <1>1, HookAdded
<1>2. CASE \E f \in Files, w \in Servers : AddServer(f, w)
  BY <1>2, ServerAdded
<1>3. ASSUME NEW f \in Files, Delete(f) PROVE SetupInv' /\ \E text, put : Edits(f, text, put)
  <2>1. Edits(f, None, {})
    BY <1>3 DEF Delete
  <2> QED
    BY <2>1, EditStep
<1>4. ASSUME NEW f \in Files, Restore(f) PROVE SetupInv' /\ \E text, put : Edits(f, text, put)
  <2>1. bak[f] \notin {None, Torn} /\ Edits(f, bak[f], TheirsIn(bak[f]))
    BY <1>4 DEF Restore
  <2>2. bak[f] \in TextsOf(f)
    BY <2>1 DEF SetupInv, TypeInv, Stored
  <2> QED
    BY <2>1, <2>2, EditStep
<1> QED
  BY <1>1, <1>2, <1>3, <1>4

LEMMA ClockStep ==
  ASSUME SetupInv, NEW second \in Seconds, SetClock(second)
  PROVE  SetupInv'
<1>1. /\ UNCHANGED <<config, theirs, place, cmd, done, unit>> /\ now' = second
      /\ file' = file /\ bak' = bak /\ store' = store
  BY DEF SetClock, config, place
<1>2. PlaceInv'
  BY <1>1, PlaceStill DEF SetupInv
<1>3. Coming' = Coming
  BY <1>1 DEF Coming
<1>4. TypeInv' /\ StepsInv' /\ DoneInv'
  BY <1>1, <1>3 DEF SetupInv, TypeInv, StepsInv, DoneInv
<1>5. KeptInv'
  BY <1>1 DEF SetupInv, KeptInv, Held
<1> QED
  BY <1>2, <1>4, <1>5 DEF SetupInv

LEMMA SetupInit == Init => SetupInv
<1> SUFFICES ASSUME Init PROVE SetupInv
  OBVIOUS
<1>1. /\ file \in [Files -> {None, Blank}] /\ bak = [f \in Files |-> None]
      /\ theirs = [f \in Files |-> {}] /\ cmd = Idle /\ done = None
      /\ store = None /\ born = 0 /\ now = 1 /\ archives = [s \in Seconds |-> None]
  BY DEF Init
<1>2. \A f \in Files : Blank \in TextsOf(f)
  BY DEF Blank, TextsOf, Texts
<1>3. TypeInv
  BY <1>1, <1>2 DEF TypeInv, Stored
<1>4. KeptInv
  BY <1>1 DEF KeptInv, Held, Idle, Files
<1>5. PlaceInv
  <2>1. Range(archives) \subseteq {None}
    BY <1>1 DEF Range
  <2>2. 1 .. 0 = {}
    OBVIOUS
  <2> QED
    BY <1>1, <2>1, <2>2 DEF PlaceInv, Seconds
<1> QED
  BY <1>1, <1>3, <1>4, <1>5 DEF SetupInv, StepsInv, DoneInv

LEMMA SetupNext == SetupInv /\ [Next]_vars => SetupInv'
<1> SUFFICES ASSUME SetupInv, [Next]_vars PROVE SetupInv'
  OBVIOUS
<1>1. CASE \E op \in {"init", "uninstall"}, flags \in left.flags : Start(op, flags)
  BY <1>1, StartStep
<1>2. CASE Scaffold
  BY <1>2, ScaffoldStep
<1>3. CASE EnsureIgnored \/ InstallService \/ RemoveService
  BY <1>3, OtherSteps
<1>4. CASE Merge
  BY <1>4, MergeStep
<1>5. CASE CopyBackup
  BY <1>5, CopyStep
<1>6. CASE OpenFile
  BY <1>6, OpenStep
<1>7. CASE WriteFile
  BY <1>7, WriteStep
<1>8. CASE Archive
  BY <1>8, ArchiveStep
<1>9. CASE Kill
  BY <1>9, KillStep
<1>10. CASE \/ \E f \in Files, e \in Events : AddHook(f, e)
            \/ \E f \in Files, w \in Servers : AddServer(f, w)
            \/ \E f \in Files : Delete(f) \/ Restore(f)
  BY <1>10, UserStep
<1>11. CASE \E second \in Seconds : SetClock(second)
  BY <1>11, ClockStep
<1>12. CASE UNCHANGED vars
  <2>1. /\ UNCHANGED <<config, theirs, place, cmd, done, unit, now>>
        /\ file' = file /\ bak' = bak /\ store' = store
    BY <1>12 DEF vars, config, place
  <2>2. Coming' = Coming
    BY <2>1 DEF Coming
  <2> QED
    BY <2>1, <2>2 DEF SetupInv, TypeInv, StepsInv, DoneInv, KeptInv, Held, PlaceInv, place
<1> QED
  BY <1>1, <1>2, <1>3, <1>4, <1>5, <1>6, <1>7, <1>8, <1>9, <1>10, <1>11, <1>12 DEF Next

LEMMA SetupHolds == Spec => []SetupInv
  BY SetupInit, SetupNext, PTL DEF Spec

(* Whatever the user has put into a JSON file that agentrec also writes is *)
(* in the file or in the backup beside it: no merge, no removal and no     *)
(* kill in the middle of either loses it.                                  *)
THEOREM NothingLost == Spec => []TheirsKept
<1>1. SetupInv => TheirsKept
  BY DEF SetupInv, KeptInv, Held, TheirsKept, Survives
<1> QED
  BY <1>1, SetupHolds, PTL

(* A command that ran to its end did what it reports: the hooks are in, or *)
(* nothing of ours is anywhere and every store that was is in an archive.  *)
THEOREM ReportsHold == Spec => []AsReported
<1>1. SetupInv => AsReported
  <2> SUFFICES ASSUME SetupInv, done # None PROVE AsReported
    BY DEF AsReported
  <2>1. /\ done.op \in {"init", "uninstall"} /\ Did(done, {}, file, store, unit)
    BY DEF SetupInv, DoneInv
  <2>2. CASE done.op = "init"
    <3>1. InitDid(done, {}, file, store)
      BY <2>1, <2>2 DEF Did
    <3>2. store # None
      BY <3>1 DEF InitDid
    <3>3. done.flags.hook /\ {"claude"} \cap done.edited = {} => \A e \in Events : Marked(file["claude"], e)
      BY <3>1 DEF InitDid, AllMarked
    <3>4. done.flags.hook /\ done.flags.codex /\ ~ done.refused /\ {"hooks", "toml"} \cap done.edited = {} =>
            \E f \in {"hooks", "toml"} : \A e \in Events : Marked(file[f], e)
      BY <3>1 DEF InitDid, AllMarked
    <3> QED
      BY <2>2, <3>2, <3>3, <3>4 DEF AsReported
  <2>3. CASE done.op = "uninstall"
    <3>1. UninstallDid(done, {}, file, store, unit)
      BY <2>1, <2>3 DEF Did
    <3>2. ASSUME NEW f \in Files, {f} \cap done.edited = {} PROVE OursIn(file[f]) = {}
      <4>1. Stored(f, file[f]) /\ f \notin done.edited
        BY <3>2 DEF SetupInv, TypeInv
      <4>2. CASE file[f] \in {None, Torn}
        BY <4>2, NothingIn
      <4>3. CASE file[f] \in TextsOf(f)
        <5>1. NoHooks(file[f])
          <6>1. CASE f = "mcp"
            <7>1. Listed(file[f]) = {}
              BY <4>3, <6>1 DEF TextsOf, Listed
            <7> QED
              BY <7>1, Marks DEF NoHooks
          <6>2. CASE f # "mcp"
            BY <3>1, <4>1, <6>2 DEF UninstallDid, Files, Json
          <6> QED
            BY <6>1, <6>2
        <5>2. NoServer(file[f])
          <6>1. CASE f \in {"claude", "hooks"}
            BY <4>3, <6>1 DEF TextsOf, Declared, NoServer
          <6>2. CASE f \notin {"claude", "hooks"}
            BY <3>1, <4>1, <6>2 DEF UninstallDid, Files, Json
          <6> QED
            BY <6>1, <6>2
        <5> QED
          BY <5>1, <5>2, NothingOfOurs
      <4> QED
        BY <4>1, <4>2, <4>3 DEF Stored
    <3>3. store = None /\ (done.flags.service # "no" => ~ unit)
      BY <3>1 DEF UninstallDid
    <3>4. 1 .. born = Range(archives) \ {None}
      BY <3>3 DEF SetupInv, PlaceInv
    <3> QED
      BY <2>3, <3>2, <3>3, <3>4 DEF AsReported
  <2> QED
    BY <2>1, <2>2, <2>3
<1> QED
  BY <1>1, SetupHolds, PTL

(* The write of an init makes no second source.                            *)
LEMMA OneSource ==
  ASSUME TypeInv, NEW step \in {"claude", "mcp", "codex", "codexMcp"},
         NEW it, it = Intent(step), it.act = "write",
         NEW f \in Files, f = it.file, NEW text, text = it.text,
         Both([file EXCEPT ![f] = text])
  PROVE  Both(file)
<1>0. /\ \A g, t : Write(g, t).act = "write" => Write(g, t).file = g /\ Write(g, t).text = t
      /\ Abort.act # "write" /\ Skip.act # "write"
  BY DEF Write, Abort, Skip
<1>1. PICK v : v = [file EXCEPT ![f] = text]
  OBVIOUS
<1>2. /\ \A g \in Files : v[g] = IF g = f THEN text ELSE file[g]
      /\ \A g \in Files : Stored(g, file[g])
  BY <1>1 DEF TypeInv
<1>3. v["hooks"] # None /\ v["toml"] \notin {None, Torn} /\ v["toml"].hooks # None
  BY <1>1 DEF Both
<1>4. "hooks" \in Files /\ "toml" \in Files
  BY DEF Files, Json
<1>5. CASE step \in {"claude", "mcp"}
  <2>1. f = step
    BY <1>0, <1>5 DEF Intent
  <2> QED
    BY <1>2, <1>3, <1>4, <1>5, <2>1 DEF Both
<1>6. CASE step = "codex"
  <2>1. file["toml"] # Torn /\ CodexTarget # None /\ f = CodexTarget
    BY <1>0, <1>6 DEF Intent, Parsed
  <2>2. CASE f = "hooks"
    <3>1. ~ (file["toml"] # None /\ file["toml"].hooks # None)
      BY <2>1, <2>2 DEF CodexTarget
    <3> QED
      BY <1>2, <1>3, <1>4, <2>2, <3>1
  <2>3. CASE f = "toml"
    <3>1. file["hooks"] = None
      BY <2>1, <2>3 DEF CodexTarget
    <3> QED
      BY <1>2, <1>3, <1>4, <2>3, <3>1
  <2> QED
    BY <2>1, <2>2, <2>3 DEF CodexTarget
<1>7. CASE step = "codexMcp"
  <2>1. /\ file["toml"] # Torn /\ f = "toml" /\ text = Registered(Readable(file["toml"]))
    BY <1>0, <1>7 DEF Intent, Parsed
  <2>2. PICK p : p = Present(file["toml"])
    OBVIOUS
  <2>3. p \in TextsOf("toml") /\ Readable(file["toml"]) = p
    BY <1>2, <1>4, <2>1, <2>2, Presents
  <2>4. text.hooks = p.hooks
    BY <2>1, <2>3, Registers
  <2>5. file["hooks"] # None /\ p.hooks # None
    BY <1>2, <1>3, <1>4, <2>1, <2>4
  <2>6. file["toml"] # None /\ file["toml"] = p
    BY <2>2, <2>5 DEF Present, Blank
  <2> QED
    BY <2>1, <2>5, <2>6 DEF Both
<1> QED
  BY <1>5, <1>6, <1>7

LEMMA EditsCounted ==
  Spec => []("edits" \in DOMAIN left /\ left["edits"] \in Nat)
<1> DEFINE Counted == "edits" \in DOMAIN left /\ left["edits"] \in Nat
<1>1. Init => Counted
  BY BoundsAssumption DEF Init
<1>2. Counted /\ [Next]_vars => Counted'
  <2> SUFFICES ASSUME Counted, [Next]_vars PROVE Counted'
    OBVIOUS
  <2>1. ASSUME NEW what, Use(what) PROVE Counted'
    BY <2>1 DEF Use
  <2>2. CASE UNCHANGED left
    BY <2>2
  <2>3. left' = left \/ \E what : Use(what)
    BY DEF Next, vars, Start, Scaffold, EnsureIgnored, Merge, CopyBackup, OpenFile, WriteFile,
       InstallService, RemoveService, Archive, Kill, AddHook, AddServer, Delete, Restore, Edits,
       SetClock
  <2> QED
    BY <2>1, <2>2, <2>3
<1> QED
  BY <1>1, <1>2, PTL DEF Spec

(* Codex warns of hooks in two files: what init sets out to write never    *)
(* makes a second representation beside one that is there, and an init     *)
(* that refused because both are there leaves both alone to its end.       *)
THEOREM NoneBeside == Spec => NoSecondSource
<1> DEFINE Counted == "edits" \in DOMAIN left /\ left["edits"] \in Nat
           Sources == left = left' /\ cmd.op = "init" =>
             /\ cmd.stage = "next" /\ cmd'.stage # "next" =>
                  (Both([file EXCEPT ![cmd'.on] = cmd'.text]) => Both(file))
             /\ cmd.refused => file'["toml"] = file["toml"] /\ file'["hooks"] = file["hooks"]
<1>1. SetupInv /\ Counted /\ [Next]_vars => [Sources]_vars
  <2> SUFFICES ASSUME SetupInv, Counted, Next, left = left', cmd.op = "init"
               PROVE  /\ cmd.stage = "next" /\ cmd'.stage # "next" =>
                           (Both([file EXCEPT ![cmd'.on] = cmd'.text]) => Both(file))
                      /\ cmd.refused => file' = file
    BY DEF vars
  <2>1. cmd # Idle /\ Commanded
    BY DEF Idle, SetupInv, Commanded
  <2>2. /\ Running(cmd) /\ done = None /\ Shaped(cmd) /\ Planned(cmd, Tail(cmd.todo))
        /\ Head(cmd.todo) \in Range(cmd.todo) /\ Head(cmd.todo) \in InitOrder
    BY <2>1, Runs, Ahead
  <2>3. Passes(cmd) => cmd'.stage = "next"
    BY <2>2, Passing
  <2>4. CASE Merge
    <3>1. PICK step \in FileSteps : cmd.stage = "next" /\ Head(cmd.todo) = step
      BY <2>4 DEF Merge, At
    <3>2. step \in {"claude", "mcp", "codex", "codexMcp"} /\ ~ cmd.refused
      BY <2>2, <3>1 DEF FileSteps, InitOrder, Running, Planned
    <3>3. PICK it : it = Intent(step)
      OBVIOUS
    <3>4. CASE it.act = "write"
      <4>1. PICK f \in Files : f = it.file
        BY <3>3, <3>4, Intents DEF Outcome, SetupInv
      <4>2. PICK text : text = it.text
        OBVIOUS
      <4>3. \E stage \in {"copy", "write"} : cmd' = [cmd EXCEPT !.stage = stage, !.on = f, !.text = text]
        BY <2>4, <3>1, <3>3, <3>4, <4>1, <4>2 DEF Merge
      <4>4. cmd'.on = f /\ cmd'.text = text
        BY <2>2, <4>3 DEF Shaped
      <4> QED
        BY <3>2, <3>3, <3>4, <4>1, <4>2, <4>4, OneSource DEF SetupInv
    <3>5. CASE it.act # "write"
      <4>1. \/ cmd' = Idle \/ Passes(cmd)
            \/ Passes([cmd EXCEPT !.todo = Tail(@), !.refused = TRUE])
        BY <2>4, <3>1, <3>3, <3>5 DEF Merge
      <4>2. Passes([cmd EXCEPT !.todo = Tail(@), !.refused = TRUE]) => cmd'.stage = "next"
        <5>1. PICK c : c = [cmd EXCEPT !.todo = Tail(@), !.refused = TRUE]
          OBVIOUS
        <5>2. c = [ op |-> cmd.op, flags |-> cmd.flags, refused |-> TRUE, edited |-> cmd.edited,
                    stage |-> cmd.stage, on |-> cmd.on, text |-> cmd.text, todo |-> Tail(cmd.todo) ]
          BY <2>2, <5>1 DEF Shaped
        <5>3. PICK d : d = [c EXCEPT !.todo = Tail(c.todo), !.stage = "next", !.on = None, !.text = None]
          OBVIOUS
        <5>4. d.stage = "next"
          BY <5>2, <5>3
        <5>5. Passes(c) => cmd' = Idle \/ cmd' = d
          BY <5>3 DEF Passes
        <5> QED
          BY <5>1, <5>4, <5>5 DEF Idle
      <4> QED
        BY <2>3, <3>2, <4>1, <4>2 DEF Idle
    <3> QED
      BY <3>4, <3>5
  <2>5. CASE CopyBackup \/ OpenFile \/ WriteFile
    BY <2>2, <2>5 DEF CopyBackup, OpenFile, WriteFile, Rewriting, Running
  <2>6. CASE Scaffold \/ EnsureIgnored \/ InstallService \/ RemoveService
    BY <2>3, <2>6 DEF Scaffold, EnsureIgnored, InstallService, RemoveService, config
  <2>7. CASE Archive
    BY <2>3, <2>7 DEF Archive, Idle, config
  <2>8. CASE Kill
    BY <2>8 DEF Kill, Idle, config
  <2>9. CASE \/ \E f \in Files, e \in Events : AddHook(f, e)
             \/ \E f \in Files, w \in Servers : AddServer(f, w)
             \/ \E f \in Files : Delete(f) \/ Restore(f)
    BY <2>9, UserStep, Uses
  <2>10. CASE \E second \in Seconds : SetClock(second)
    BY <2>10 DEF SetClock, config
  <2>11. CASE \E op \in {"init", "uninstall"}, flags \in left.flags : Start(op, flags)
    BY <2>1, <2>11 DEF Start
  <2> QED
    BY <2>4, <2>5, <2>6, <2>7, <2>8, <2>9, <2>10, <2>11 DEF Next
<1> QED
  BY <1>1, SetupHolds, EditsCounted, PTL DEF Spec, NoSecondSource

=============================================================================
