------------------------------ MODULE LogView ------------------------------
(* A client that pages through the turns, the entries of one turn, or the  *)
(* hits of a search (view.rs, search.rs, and the tools of mcpcmd.rs that   *)
(* call them once per page) while the log grows, a turn is merged into a   *)
(* later one, purge --log-duplicates rewrites the file, and purge removes  *)
(* prompts.                                                                *)
EXTENDS TurnLog

CONSTANTS
  Limits,   \* page sizes a client asks for
  Budget    \* payload lines in one answer of agentrec_diff

VARIABLES
  reader,   \* "got", "upto" and "steady" are history: what it was given, and when
  prompt    \* whether the store has the prompt that every agent's turn has

viewVars == <<reader, prompt>>

NotReading ==
  [ pc |-> "idle", query |-> None, cursor |-> None, limit |-> 0, got |-> << >>,
    spent |-> 0, upto |-> 0, steady |-> TRUE ]

(* TurnQuery, SearchQuery, DiffQuery. A search is for something that every *)
(* field of a turn has.                                                    *)
Turns(all) == [kind |-> "turns", all |-> all]
Search == [kind |-> "search"]
Diff(id) == [kind |-> "diff", id |-> id]

-----------------------------------------------------------------------------
(* The rows of a query, in the order of the file: the key that a cursor    *)
(* names, which row it is, and whether the query lets it through.          *)

Row(key, what, n, selected) == [key |-> key, what |-> what, n |-> n, selected |-> selected]

Selected(all, t) == all \/ (t.id \notin Superseded(log) /\ t.kind # "git")

Agent(t) == t.kind = "rich"

(* MatchField; the paths of a turn are numbered from 1. *)
PromptField == -1
ToolField == 0

Hits(t) ==
  LET hit(field) == Row(t.id, <<t.n, field>>, t.n, TRUE) IN
    (IF Agent(t) /\ prompt THEN << hit(PromptField) >> ELSE << >>)
      \o (IF Agent(t) THEN << hit(ToolField) >> ELSE << >>)
      \o [k \in DOMAIN t.files |-> hit(k)]

Entries(id) ==
  LET t == Resolve(log, id) IN
    IF t = None THEN << >>
    ELSE [k \in DOMAIN t.files |-> Row(t.files[k].path, k, t.n, TRUE)]

Rows(q) ==
  CASE q.kind = "turns"  -> [i \in DOMAIN log |-> Row(log[i].id, log[i].n, log[i].n, Selected(q.all, log[i]))]
    [] q.kind = "search" -> FlattenSeq([i \in DOMAIN log |-> Hits(log[i])])
    [] q.kind = "diff"   -> Entries(q.id)

Resolvable(q) == q.kind = "diff" => Resolve(log, q.id) # None

-----------------------------------------------------------------------------
(* Cursors.                                                                *)

Places(rows, key) == SelectSeq([i \in DOMAIN rows |-> i], LAMBDA i : rows[i].key = key)

(* The cursor after a row: its key, and how many rows before have it too.  *)
CursorAt(rows, i) ==
  [key |-> rows[i].key, occurrence |-> Len(Places(SubSeq(rows, 1, i - 1), rows[i].key))]

FirstPlace(rows, c) ==  \* mutant: the first row of the key stands for the cursor
  IF Places(rows, c.key) = << >> THEN None ELSE Places(rows, c.key)[1]

(* The row a cursor names today, among all rows and not only the selected  *)
(* ones; None when it is gone.                                             *)
PlaceOf(rows, c) ==
  IF c.occurrence < Len(Places(rows, c.key)) THEN Places(rows, c.key)[c.occurrence + 1] ELSE None

Resumes(q, cursor) == IF cursor = None THEN 0 ELSE PlaceOf(Rows(q), cursor)

(* History: once the records `kept` are all that is left, a cursor whose   *)
(* row, or one of its key before it, is gone names a row that its client   *)
(* has not been given, if one of that key has stayed.                      *)
Slides(q, cursor, kept) ==
  LET rows == Rows(q)
      of(I) == {i \in I : rows[i].key = cursor.key}
      from == Resumes(q, cursor)
  IN  /\ cursor # None /\ from # None
      /\ \E i \in of(1 .. from) : rows[i].n \notin kept
      /\ \E i \in of(from + 1 .. Len(rows)) : rows[i].n \in kept

Rest(q, cursor) ==
  LET rows == Rows(q)
      from == Resumes(q, cursor)
  IN  SelectSeq([i \in DOMAIN rows |-> i], LAMBDA i : i > from /\ rows[i].selected)

-----------------------------------------------------------------------------
(* The answers.                                                            *)

(* payload_lines. *)
PayloadLines(e) ==
  LET lines(c) == IF c = None THEN 0 ELSE Len(c) IN Max({1, lines(e.before) + lines(e.after)})

Cost(q, page) ==
  IF q.kind # "diff" THEN 0
  ELSE FoldLeft(LAMBDA sum, i : sum + PayloadLines(Resolve(log, q.id).files[Rows(q)[i].what]), 0, page)

Deliver(q, cursor, limit) ==
  LET rows == Rows(q)
      rest == Rest(q, cursor)
      page == SubSeq(rest, 1, Min({limit, Len(rest)}))
      last == Len(rest) <= limit
  IN  reader' = [ reader EXCEPT
        !.pc     = IF last THEN "end" ELSE "paging",
        !.query  = q,
        !.cursor = IF last THEN None ELSE CursorAt(rows, Last(page)),
        !.got    = @ \o [k \in DOMAIN page |-> rows[page[k]].what],
        !.spent  = IF Len(page) = 1 THEN 0 ELSE Cost(q, page),
        !.upto   = written ]

Asking(q, cursor) ==
  \/ reader.pc = "idle" /\ cursor = None
  \/ reader.pc = "paging" /\ q = reader.query /\ cursor = reader.cursor

(* A page of at most so many rows. *)
Page(q, cursor, limit) ==
  /\ Asking(q, cursor) /\ Resolvable(q) /\ Resumes(q, cursor) # None
  /\ Deliver(q, cursor, limit)

(* How many entries fit: diff_tool asks for all of them first. *)
Admitted(q, cursor) ==
  LET rest == Rest(q, cursor)
      fits == {k \in 1 .. Len(rest) : Cost(q, SubSeq(rest, 1, k)) <= Budget}
  IN  Max({1} \cup fits)

(* agentrec_diff: everything, when it fits; otherwise it asks again, for   *)
(* the entries that did, and reads the log a second time.                  *)
Admit(q, cursor) ==
  /\ q.kind = "diff" /\ Asking(q, cursor) /\ Resolvable(q) /\ Resumes(q, cursor) # None
  /\ IF Admitted(q, cursor) >= Len(Rest(q, cursor))
     THEN Deliver(q, cursor, Len(Rest(q, cursor)))
     ELSE reader' = [reader EXCEPT !.pc = "admitted", !.query = q, !.cursor = cursor,
                                   !.limit = Admitted(q, cursor)]

Bounded ==
  /\ reader.pc = "admitted" /\ Resolvable(reader.query) /\ Resumes(reader.query, reader.cursor) # None
  /\ Deliver(reader.query, reader.cursor, reader.limit)

(* CursorError::Stale, DiffError::Lookup. *)
Refused ==
  /\ reader.pc \in {"paging", "admitted"}
  /\ ~ Resolvable(reader.query) \/ Resumes(reader.query, reader.cursor) = None
  /\ reader' = [reader EXCEPT !.pc = "stale"]

Queries == {Turns(FALSE), Turns(TRUE), Search} \cup {Diff(id) : id \in Ids(log)}

Read ==
  /\ \/ \E q \in Queries, cursor \in {None, reader.cursor} :
          \/ \E limit \in Limits : q.kind # "diff" /\ Page(q, cursor, limit)
          \/ Admit(q, cursor)
     \/ Bounded
     \/ Refused
  /\ UNCHANGED prompt

(* The prompt blob is removed, or a turn with the same prompt puts it back.*)
PromptBlob(stored) ==
  /\ prompt' = stored
  /\ reader' = [reader EXCEPT !.steady = @ /\ (prompt = stored \/ reader.pc = "idle")]

(* Records are removed. *)
RecordsLeft(kept) ==
  /\ reader' = [reader EXCEPT !.steady = @ /\ (reader.pc # "idle" =>
                                             ~ Slides(reader.query, reader.cursor, kept))]
  /\ UNCHANGED prompt

-----------------------------------------------------------------------------

(* A client that paged to the end without an error was given no row twice, *)
(* and every row that is selected by then unless it was appended after its *)
(* last page: whatever was appended or merged between its pages, and what  *)
(* purge removed, with one exception. A cursor counts the rows of its id;  *)
(* when a record at or before its row is removed and a row of that id      *)
(* after it stays, which takes three records of one id or two that a       *)
(* search hits several times, it stands for a later row and those between  *)
(* are passed over. A search numbers the hits of a turn by those that are  *)
(* left, and keeps this only while the prompts do. No answer of            *)
(* agentrec_diff holds more than the budget, but for an entry that does so *)
(* alone.                                                                  *)
PagesComplete ==
  /\ reader.steady => IsInjective(reader.got)
  /\ reader.pc = "end" /\ reader.steady =>
       \A row \in Range(Rows(reader.query)) :
         row.selected => row.what \in Range(reader.got) \/ row.n > reader.upto
  /\ reader.spent <= Budget

(* What search.rs says of its cursors: the contract of the others "applies *)
(* unchanged".                                                             *)
SearchComplete ==
  reader.pc = "end" =>
    \A row \in Range(Rows(reader.query)) :
      row.selected => row.what \in Range(reader.got) \/ row.n > reader.upto

(* What the description of agentrec_log says: "newest first".              *)
NewestFirst ==
  reader.query # None /\ reader.query.kind = "turns" =>
    \A i, j \in DOMAIN reader.got : i < j => reader.got[i] > reader.got[j]
=============================================================================
