------------------------------ MODULE DocTabs ------------------------------
(***************************************************************************)
(* A Google Doc as documents/doc.py sees it: tabs that nest, each with a    *)
(* body of its own, read whole in one request (_content.py) and written by *)
(* character index in the next, while other people type, add tabs and      *)
(* delete them.  The tools (mcp/_tools/content_write.py) make one write and *)
(* some list the tabs after it.                                            *)
(*                                                                         *)
(* A text is a sequence of pieces, each one index wide; its final newline   *)
(* is not in the sequence.                                                 *)
(***************************************************************************)
EXTENDS Integers, Sequences, FiniteSets, SequencesExt

CONSTANTS
  Pieces,      \* pieces of text
  MaxTabId,    \* the tabs there ever are
  MaxText,     \* the pieces of one tab
  MaxMeddling  \* the steps other people take

ASSUME DocAssumption == {MaxTabId, MaxText, MaxMeddling} \subseteq Nat \ {0}

VARIABLES
  doc_tabs,  \* the tabs: id, parent (0 for none) and text; siblings in this order
  last_tab,  \* the last tab id given
  write,     \* the write under way
  meddled    \* the steps other people have taken, and whether one since the write began

docVars == <<doc_tabs, last_tab, write, meddled>>

Quiet == [at |-> "idle", op |-> "none", asked |-> 0, target |-> 0, index |-> 0,
          until |-> 0, piece |-> "none", only |-> 0, before |-> <<>>]

DocInit ==
  /\ doc_tabs = <<[id |-> 1, parent |-> 0, text |-> <<>>]>> /\ last_tab = 1
  /\ write = Quiet
  /\ meddled = [steps |-> 0, since |-> FALSE]

-----------------------------------------------------------------------------
(* Reading the tabs of a response, depth-first. *)

DocIds(ts) == {ts[i].id : i \in DOMAIN ts}
TabOf(ts, id) == ts[CHOOSE i \in DOMAIN ts : ts[i].id = id]

\* Mutant: the children of tabs are left out.
top_level_only(ts) == SelectSeq(ts, LAMBDA t : t.parent = 0)
\* Every tab in document order, a child after its parent and before the parent's
\* next sibling.  Ids grow from parent to child.
walk(ts) ==
  LET Under[p \in DocIds(ts) \cup {0}] ==
        FlattenSeq([k \in DOMAIN ts |->
                      IF ts[k].parent = p THEN <<ts[k]>> \o Under[ts[k].id] ELSE <<>>])
  IN  Under[0]

\* The index one past the final newline.
end_of(text) == Len(text) + 2
doc_tab_end_indices(ts) ==
  LET w == walk(ts) IN [k \in DOMAIN w |-> [id |-> w[k].id, end |-> end_of(w[k].text)]]


-----------------------------------------------------------------------------
(* What Google does with a request; 0 is a request without a tab id. *)

first_of(ts) == SelectInSeq(ts, LAMBDA t : t.parent = 0)
addressed(id) == IF id = 0 THEN doc_tabs[first_of(doc_tabs)].id ELSE id
Accepts(id, index) ==
  /\ addressed(id) \in DocIds(doc_tabs)
  /\ index \in 1 .. Len(TabOf(doc_tabs, addressed(id)).text) + 1

WithText(id, text) ==
  [i \in DOMAIN doc_tabs |->
     IF doc_tabs[i].id = addressed(id) THEN [doc_tabs[i] EXCEPT !.text = text] ELSE doc_tabs[i]]

insertText(id, index, piece) ==
  LET text == TabOf(doc_tabs, addressed(id)).text
  IN  WithText(id, SubSeq(text, 1, index - 1) \o <<piece>> \o SubSeq(text, index, Len(text)))

deleteContentRange(id, start, end) ==
  LET text == TabOf(doc_tabs, addressed(id)).text
  IN  WithText(id, SubSeq(text, 1, start - 1) \o SubSeq(text, end, Len(text)))

\* A tab and everything nested in it.
Nested(ts, id) ==
  LET Up[i \in DocIds(ts)] == i = id \/ (TabOf(ts, i).parent # 0 /\ Up[TabOf(ts, i).parent])
  IN  {i \in DocIds(ts) : Up[i]}
\* What is left when it is deleted: the others, in the order they were in.
Without(ts, id) ==
  LET left == {i \in DOMAIN ts : ts[i].id \notin Nested(ts, id)}
      Orders == {order \in [1 .. Cardinality(left) -> left] :
                   \A j, k \in DOMAIN order : j < k => order[j] < order[k]}
  IN  {[k \in DOMAIN order |-> ts[order[k]]] : order \in Orders}

-----------------------------------------------------------------------------
(* The writes. *)

Begin(next) ==
  /\ write.at = "idle"
  /\ write' = next
  /\ meddled' = [meddled EXCEPT !.since = FALSE]
  /\ UNCHANGED <<doc_tabs, last_tab>>

\* insert_text takes the index from its caller, delete_range a span.
insert_text(piece, at, tab) ==
  Begin([Quiet EXCEPT !.at = "send", !.op = "insert", !.asked = tab, !.target = tab,
                      !.index = at, !.piece = piece])

delete_range(start, end, tab) ==
  Begin([Quiet EXCEPT !.at = "send", !.op = "delete", !.asked = tab, !.target = tab,
                      !.index = start, !.until = end])

\* There is no replace_range: a caller composes it of the two, naming the tab in both.
ReplaceRange(piece, start, end, tab) ==
  Begin([Quiet EXCEPT !.at = "send", !.op = "replace", !.asked = tab, !.target = tab,
                      !.index = start, !.until = end, !.piece = piece, !.before = doc_tabs])

\* append_text first reads where the tabs end.
append_text(piece, tab) ==
  Begin([Quiet EXCEPT !.at = "read", !.op = "append", !.asked = tab, !.piece = piece])

tab_to_append_to(end) == end.id

index_to_append_at(end) == IF end.end > 2 THEN end.end - 1 ELSE 1

\* The end of the document is that of its only tab; of several, of the one named.
ReadEnds ==
  /\ write.at = "read"
  /\ LET ends == doc_tab_end_indices(doc_tabs)
         match == {k \in DOMAIN ends : write.asked = ends[k].id
                                       \/ (write.asked = 0 /\ Len(ends) = 1)}
     IN  IF match = {}
           THEN write' = Quiet
           ELSE LET end == ends[CHOOSE k \in match : TRUE]
                IN  write' = [write EXCEPT !.at = "send", !.target = tab_to_append_to(end),
                                !.index = index_to_append_at(end), !.only = end.id]
  /\ meddled' = [meddled EXCEPT !.since = FALSE]
  /\ UNCHANGED <<doc_tabs, last_tab>>

SendInsert ==
  /\ write.at = "send" /\ write.op \in {"insert", "append"}
  /\ Accepts(write.target, write.index)
  /\ doc_tabs' = insertText(write.target, write.index, write.piece)
  /\ write' = Quiet /\ UNCHANGED <<last_tab, meddled>>

SendDeleteRange ==
  /\ write.at = "send" /\ write.op \in {"delete", "replace"}
  /\ Accepts(write.target, write.index) /\ Accepts(write.target, write.until)
  /\ doc_tabs' = deleteContentRange(write.target, write.index, write.until)
  /\ \/ write' = Quiet
     \/ write.op = "replace" /\ write' = [write EXCEPT !.at = "insert"]
  /\ UNCHANGED <<last_tab, meddled>>

\* Mutant: the request does not say which tab.
location_without_tab(tab) == 0
location(tab) == tab

\* The second half of a replacement; it is not sent when the answer to the first
\* is lost.
SendReplacement ==
  /\ write.at = "insert"
  /\ Accepts(location(write.target), write.index)
  /\ doc_tabs' = insertText(location(write.target), write.index, write.piece)
  /\ write' = Quiet /\ UNCHANGED <<last_tab, meddled>>

\* Google does not know the tab, or the index is outside it; or nothing came back
\* of a request that was not carried out.
Refused ==
  /\ write.at \in {"send", "insert"}
  /\ write' = Quiet
  /\ UNCHANGED <<doc_tabs, last_tab, meddled>>

\* replace_text works on the text of every tab at once, whatever it says there.
replace_text(find, replacement) ==
  /\ write.at = "idle"
  /\ doc_tabs' = [i \in DOMAIN doc_tabs |->
       [doc_tabs[i] EXCEPT !.text = [k \in DOMAIN @ |-> IF @[k] = find THEN replacement ELSE @[k]]]]
  /\ UNCHANGED <<last_tab, write, meddled>>

\* The tools list the tabs after these two.
add_tab ==
  /\ write.at = "idle" /\ last_tab < MaxTabId
  /\ doc_tabs' = Append(doc_tabs, [id |-> last_tab + 1, parent |-> 0, text |-> <<>>])
  /\ last_tab' = last_tab + 1 /\ UNCHANGED <<write, meddled>>

delete_tab(id) ==
  /\ write.at = "idle"
  /\ doc_tabs' \in Without(doc_tabs, id) \ {<<>>}
  /\ UNCHANGED <<last_tab, write, meddled>>

-----------------------------------------------------------------------------
(* Other people. *)

Meddle ==
  /\ meddled.steps < MaxMeddling
  /\ meddled' = [steps |-> meddled.steps + 1, since |-> TRUE]
  /\ UNCHANGED write

TheyType(id, index, piece) ==
  /\ Meddle /\ Accepts(id, index)
  /\ doc_tabs' = insertText(id, index, piece) /\ UNCHANGED last_tab

\* A tab of theirs comes first among its siblings, or is nested in another.
TheyAddDocTab(parent) ==
  /\ Meddle /\ last_tab < MaxTabId
  /\ doc_tabs' = <<[id |-> last_tab + 1, parent |-> parent, text |-> <<>>]>> \o doc_tabs
  /\ last_tab' = last_tab + 1

TheyDeleteDocTab(id) ==
  /\ Meddle
  /\ doc_tabs' \in Without(doc_tabs, id) \ {<<>>} /\ UNCHANGED last_tab

WriteStep == ReadEnds \/ SendInsert \/ SendDeleteRange \/ SendReplacement \/ Refused

Roomy == \A i \in DOMAIN doc_tabs : Len(doc_tabs[i].text) < MaxText

DocNext ==
  \/ \E piece \in Pieces, tab \in DocIds(doc_tabs) \cup {0} :
       /\ Roomy
       /\ \/ append_text(piece, tab)
          \/ \E at \in 1 .. MaxText : insert_text(piece, at, tab)
          \/ \E start, end \in 1 .. MaxText + 1 :
               start < end /\ ReplaceRange(piece, start, end, tab)
  \/ \E tab \in DocIds(doc_tabs) \cup {0}, start, end \in 1 .. MaxText + 1 :
       start < end /\ delete_range(start, end, tab)
  \/ WriteStep
  \/ \E find, replacement \in Pieces : find # replacement /\ replace_text(find, replacement)
  \/ add_tab
  \/ \E id \in DocIds(doc_tabs) : delete_tab(id) \/ TheyDeleteDocTab(id)
  \/ \E id \in DocIds(doc_tabs), index \in 1 .. MaxText, piece \in Pieces :
       Roomy /\ TheyType(id, index, piece)
  \/ \E parent \in DocIds(doc_tabs) \cup {0} : TheyAddDocTab(parent)

DocSpec == DocInit /\ [][DocNext]_docVars
=============================================================================
