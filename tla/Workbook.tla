----------------------------- MODULE Workbook -----------------------------
(***************************************************************************)
(* A spreadsheet as documents/sheet.py sees it: tabs that are listed in one *)
(* request and changed in the next, and comments whose cells are not in    *)
(* Google's answer, so that they are looked up in an export of the whole   *)
(* file (_cellmap.py) and remembered until the Sheet writes.  Other people *)
(* add, rename and delete tabs, insert rows and comment meanwhile.         *)
(*                                                                         *)
(* A column does not move in this model, so a cell is a row.  The author,  *)
(* the text and the second of a comment are its key.                       *)
(***************************************************************************)
EXTENDS Integers, Sequences, FiniteSets, SequencesExt

CONSTANTS
  Titles, NoTitle,   \* titles of tabs, and the title of none
  Casefold,          \* the form in which two titles are the same
  Keys,              \* author, text and second of a comment
  MaxIds,            \* the tabs and comments there ever are
  MaxRow,
  MaxOthers          \* the steps other people take

ASSUME WorkbookAssumption ==
  /\ NoTitle \notin Titles /\ Titles \subseteq DOMAIN Casefold
  \* The tab that a new spreadsheet has is called what no other title is taken for.
  /\ \E t \in Titles : \A u \in Titles : Casefold[t] = Casefold[u] => u = t
  /\ MaxIds \in Nat \ {0} /\ MaxRow \in Nat \ {0} /\ MaxOthers \in Nat

VARIABLES
  tabs,      \* the tabs in sheet order: id and title
  pins,      \* the comments: id, key, tab and row
  ids,       \* the last id given to a tab or a comment
  cell_map,  \* Sheet._cell_map_cache: comment ids to rows and titles, or NoMap
  job,       \* the operation under way
  answer,    \* what the last comments_by_cell returned
  others     \* steps other people have taken: in all, since the last export, since the last
             \* look; and whether that export lacked a part

bookVars == <<tabs, pins, ids, cell_map, job, answer, others>>

NoMap == <<"none">>
Idle == [at |-> "idle", row |-> 0, title |-> NoTitle, todo |-> {}, found |-> {}, roots |-> {},
         id |-> 0, place |-> 0, named |-> {}, blind |-> FALSE]
NoAnswer == [row |-> 0, wanted |-> NoTitle, found |-> {}, unplaced |-> 0, blind |-> FALSE]

TabIds == {tabs[i].id : i \in DOMAIN tabs}
TitleOf(id) == (CHOOSE i \in DOMAIN tabs : tabs[i].id = id)
Same(a, b) == Casefold[a] = Casefold[b]

BookInit ==
  /\ tabs = <<[id |-> 1, title |-> CHOOSE t \in Titles : \A u \in Titles : Same(t, u) => u = t]>>
  /\ pins = {} /\ ids = 1
  /\ cell_map = NoMap /\ job = Idle /\ answer = NoAnswer
  /\ others = [all |-> 0, exported |-> FALSE, looked |-> FALSE, partial |-> FALSE]

-----------------------------------------------------------------------------
(* The lookup of cells. *)

\* What an export says of the comments: one root each, on the title of its tab or
\* on none where the relationship graph cannot be read; the part of a tab may be
\* missing because it is over the size budget.
parse_xlsx_comments(readable, named) ==
  {[key |-> p.key, row |-> p.row,
    tab |-> IF p.tab \in named THEN tabs[TitleOf(p.tab)].title ELSE NoTitle, id |-> p.id] :
     p \in {q \in pins : q.tab \in readable}}

\* A comment is where the only root with its key is; two roots tell nothing.
match_locations(roots, live) ==
  LET Candidates(p) == {r \in roots : r.key = p.key}
      sure == {p \in live : Cardinality(Candidates(p)) = 1}
  IN  [c \in {p.id : p \in sure} |->
         LET r == CHOOSE x \in Candidates(CHOOSE p \in sure : p.id = c) : TRUE
         IN  [row |-> r.row, tab |-> r.tab]]

\* comments_by_cell lists the comments, and each is located as it is wrapped.
FindAt(row, title) ==
  /\ job.at = "idle"
  /\ job' = [Idle EXCEPT !.at = "list", !.row = row, !.title = title]
  /\ answer' = NoAnswer
  /\ UNCHANGED <<tabs, pins, ids, cell_map, others>>

ListComments ==
  /\ job.at = "list"
  /\ job' = [job EXCEPT !.at = "place", !.todo = {p.id : p \in pins}]
  /\ others' = [others EXCEPT !.looked = FALSE]
  /\ UNCHANGED <<tabs, pins, ids, cell_map, answer>>

\* The map is there: look the rest up in it.
Locate ==
  /\ job.at = "place" /\ cell_map # NoMap
  /\ job' = [job EXCEPT !.at = "narrow", !.todo = {},
               !.found = @ \cup {[id |-> c, tab |-> cell_map[c].tab] :
                                   c \in {d \in job.todo \cap DOMAIN cell_map :
                                            cell_map[d].row = job.row}}]
  /\ UNCHANGED <<tabs, pins, ids, cell_map, answer, others>>

\* No map: export, then list again.
Export ==
  /\ job.at = "place" /\ cell_map = NoMap /\ job.todo # {}
  /\ \E readable \in SUBSET TabIds : \E named \in SUBSET readable :
       /\ job' = [job EXCEPT !.at = "match", !.roots = parse_xlsx_comments(readable, named)]
       /\ others' = [others EXCEPT !.exported = FALSE, !.partial = readable # TabIds]
  /\ UNCHANGED <<tabs, pins, ids, cell_map, answer>>

Match ==
  /\ job.at = "match"
  /\ cell_map' = match_locations(job.roots, pins)
  /\ job' = [job EXCEPT !.at = "place", !.roots = {}]
  /\ UNCHANGED <<tabs, pins, ids, answer, others>>

give_up_on(c) == job.todo \ {c}

\* A comment whose export or listing fails has no location; nothing is remembered,
\* so that the next one tries again.
Unplaceable ==
  /\ job.at = "match" \/ (job.at = "place" /\ cell_map = NoMap)
  /\ \E c \in job.todo :
       job' = [job EXCEPT !.at = "place", !.todo = give_up_on(c), !.roots = {}, !.blind = TRUE]
  /\ UNCHANGED <<tabs, pins, ids, cell_map, answer, others>>

NothingToPlace ==
  /\ job.at = "place" /\ cell_map = NoMap /\ job.todo = {}
  /\ job' = [job EXCEPT !.at = "narrow"]
  /\ UNCHANGED <<tabs, pins, ids, cell_map, answer, others>>

\* The title of the first tab that is the one asked for, or none.
resolve_tab(title) ==
  LET hits == {i \in DOMAIN tabs : Same(tabs[i].title, title)}
  IN  IF hits = {} THEN {}
      ELSE {tabs[CHOOSE i \in hits : \A j \in hits : i <= j].title}

\* Mutant: the comments without a tab are counted after the tab has narrowed.
counted_after_narrowing(found, wanted) ==
  Cardinality({c \in found : c.tab = NoTitle /\ (wanted = NoTitle \/ c.tab = wanted)})
\* The comments at the cell whose tab is unknown are counted before the tab narrows.
unplaced(found, wanted) == Cardinality({c \in found : c.tab = NoTitle})

\* The tool: list the tabs, refuse an unknown one, narrow, and say what is unplaced.
Narrow ==
  /\ job.at = "narrow"
  /\ \E wanted \in IF job.title = NoTitle THEN {NoTitle} ELSE resolve_tab(job.title) :
       answer' = [row |-> job.row, wanted |-> wanted, blind |-> job.blind \/ others.partial,
                  found |-> {c.id : c \in {d \in job.found : wanted \in {NoTitle, d.tab}}},
                  unplaced |-> unplaced(job.found, wanted)]
  /\ job' = Idle
  /\ UNCHANGED <<tabs, pins, ids, cell_map, others>>

\* The tab is not there, or one of the requests failed: the tool answers an error.
GiveUp ==
  /\ job.at \in {"list", "narrow"}
  /\ job' = Idle /\ answer' = NoAnswer
  /\ UNCHANGED <<tabs, pins, ids, cell_map, others>>

-----------------------------------------------------------------------------
(* What the Sheet changes.  Each forgets the map before it sends. *)

clash_exactly(title) == \E i \in DOMAIN tabs : tabs[i].title = title
clash(title) == \E i \in DOMAIN tabs : Same(tabs[i].title, title)

\* add_tab looks whether the name is taken, and then sends.
AddTab(title) ==
  /\ job.at = "idle" /\ ids < MaxIds /\ ~clash(title)
  /\ job' = [Idle EXCEPT !.at = "send add", !.title = title]
  /\ others' = [others EXCEPT !.looked = FALSE] /\ answer' = NoAnswer
  /\ UNCHANGED <<tabs, pins, ids, cell_map>>

\* Google makes another title of one that is taken to the letter.
SendAdd ==
  /\ job.at = "send add"
  /\ cell_map' = NoMap /\ job' = Idle /\ answer' = NoAnswer
  /\ \/ /\ ids < MaxIds
        /\ \E title \in IF clash_exactly(job.title)
                          THEN {t \in Titles : ~clash(t)} ELSE {job.title} :
             /\ tabs' = Append(tabs, [id |-> ids + 1, title |-> title])
             /\ ids' = ids + 1
     \/ UNCHANGED <<tabs, ids>>
  /\ UNCHANGED <<pins, others>>

\* delete_tab looks the id up under the name.
DeleteTab(title) ==
  /\ job.at = "idle" /\ clash(title)
  /\ LET hits == {i \in DOMAIN tabs : Same(tabs[i].title, title)}
         first == CHOOSE i \in hits : \A j \in hits : i <= j
     IN  job' = [Idle EXCEPT !.at = "send delete", !.title = title, !.id = tabs[first].id,
                             !.place = first, !.named = {tabs[i].id : i \in hits}]
  /\ others' = [others EXCEPT !.looked = FALSE] /\ answer' = NoAnswer
  /\ UNCHANGED <<tabs, pins, ids, cell_map>>

\* Mutant: a tab is deleted by where it was, not by its id.
victim_by_position == {i \in DOMAIN tabs : i = job.place}
victim == {i \in DOMAIN tabs : tabs[i].id = job.id}

\* Google deletes by id, and never the only tab.
SendDelete ==
  /\ job.at = "send delete"
  /\ cell_map' = NoMap /\ job' = Idle /\ answer' = NoAnswer
  /\ \/ \E i \in victim :
          /\ Len(tabs) > 1
          /\ tabs' = RemoveAt(tabs, i)
          /\ pins' = {p \in pins : p.tab # tabs[i].id}
     \/ UNCHANGED <<tabs, pins>>
  /\ UNCHANGED <<ids, others>>

Shifted(tab) == {IF p.tab = tab THEN [p EXCEPT !.row = @ + 1] ELSE p : p \in pins}

forgets_the_map == cell_map' = NoMap

\* update, append_rows, clear and batch_update: the last may insert a row.  The
\* request may fail and have been carried out.
Write(tab) ==
  /\ job.at = "idle" /\ \A p \in pins : p.row < MaxRow
  /\ forgets_the_map
  /\ pins' \in {pins, Shifted(tab)}
  /\ answer' = NoAnswer
  /\ UNCHANGED <<tabs, ids, job, others>>

\* A comment made through the API is filed at the first cell, whatever it links to.
CreateComment(key) ==
  /\ job.at = "idle" /\ ids < MaxIds
  /\ pins' = pins \cup {[id |-> ids + 1, key |-> key, tab |-> tabs[1].id, row |-> 1]}
  /\ ids' = ids + 1
  /\ cell_map' = NoMap /\ answer' = NoAnswer
  /\ UNCHANGED <<tabs, job, others>>

\* reload, or another Sheet of the same file.
Reload ==
  /\ job.at = "idle" /\ cell_map # NoMap
  /\ cell_map' = NoMap /\ answer' = NoAnswer
  /\ UNCHANGED <<tabs, pins, ids, job, others>>

-----------------------------------------------------------------------------
(* Other people. *)

Somebody ==
  /\ others.all < MaxOthers
  /\ others' = [others EXCEPT !.all = @ + 1, !.exported = TRUE, !.looked = TRUE]
  /\ answer' = NoAnswer
  /\ UNCHANGED <<cell_map, job>>

TheyComment(key, i, row) ==
  /\ Somebody /\ ids < MaxIds
  /\ pins' = pins \cup {[id |-> ids + 1, key |-> key, tab |-> tabs[i].id, row |-> row]}
  /\ ids' = ids + 1 /\ UNCHANGED tabs

TheyDelete(p) == Somebody /\ pins' = pins \ {p} /\ UNCHANGED <<tabs, ids>>

TheyInsert(tab) ==
  /\ Somebody /\ \A p \in pins : p.row < MaxRow
  /\ pins' = Shifted(tab) /\ UNCHANGED <<tabs, ids>>

TheyRename(i, title) ==
  /\ Somebody /\ \A j \in DOMAIN tabs \ {i} : ~Same(tabs[j].title, title)
  /\ tabs' = [tabs EXCEPT ![i].title = title]
  /\ UNCHANGED <<pins, ids>>

TheyAddTab(title) ==
  /\ Somebody /\ ~clash(title) /\ ids < MaxIds
  /\ tabs' = <<[id |-> ids + 1, title |-> title]>> \o tabs
  /\ ids' = ids + 1 /\ UNCHANGED pins

TheyDeleteTab(i) ==
  /\ Somebody /\ Len(tabs) > 1
  /\ tabs' = RemoveAt(tabs, i) /\ pins' = {p \in pins : p.tab # tabs[i].id}
  /\ UNCHANGED ids

JobStep ==
  \/ ListComments \/ Locate \/ Export \/ Match \/ Unplaceable \/ NothingToPlace \/ Narrow
  \/ GiveUp \/ SendAdd \/ SendDelete

BookNext ==
  \/ \E row \in 1 .. MaxRow, title \in Titles \cup {NoTitle} : FindAt(row, title)
  \/ JobStep
  \/ \E title \in Titles : AddTab(title) \/ DeleteTab(title)
  \/ \E tab \in TabIds : Write(tab)
  \/ \E key \in Keys : CreateComment(key)
  \/ Reload
  \/ \E key \in Keys, i \in DOMAIN tabs, row \in 1 .. MaxRow : TheyComment(key, i, row)
  \/ \E p \in pins : TheyDelete(p)
  \/ \E tab \in TabIds : TheyInsert(tab)
  \/ \E i \in DOMAIN tabs, title \in Titles : TheyRename(i, title)
  \/ \E title \in Titles : TheyAddTab(title)
  \/ \E i \in DOMAIN tabs : TheyDeleteTab(i)

BookSpec == BookInit /\ [][BookNext]_bookVars
BookFairness == WF_bookVars(JobStep)
=============================================================================
