------------------------- MODULE DocTabsProperties -------------------------
(***************************************************************************)
(* What the callers of a Doc rely on.                                      *)
(***************************************************************************)
EXTENDS DocTabs

\* The types of the variables; a tab's parent is a tab that was there before it, and the
\* index an append is about to be sent to is the end of its tab unless somebody else has
\* changed the document since its reading.
DocTypeOK ==
  /\ \A i \in DOMAIN doc_tabs :
       /\ doc_tabs[i].id \in 1 .. last_tab /\ doc_tabs[i].text \in Seq(Pieces)
       /\ doc_tabs[i].parent = 0 \/ (/\ doc_tabs[i].parent < doc_tabs[i].id
                                     /\ doc_tabs[i].parent \in DocIds(doc_tabs))
  /\ doc_tabs # <<>> /\ last_tab \in 1 .. MaxTabId
  /\ write.at \in {"idle", "read", "send", "insert"} /\ write.index \in 0 .. MaxText + 1
  /\ write.op = "append" /\ write.at = "send" /\ ~meddled.since =>
       \E i \in DOMAIN doc_tabs :
         doc_tabs[i].id = write.target /\ write.index = Len(doc_tabs[i].text) + 1

\* However tabs were added, nested and deleted, a reading covers every tab once, a
\* tab is followed by all that is nested in it, and siblings keep their order
\* (_content.py:50-62, 103-112; doc.py:166-177).
ReadsEveryTab ==
  LET w == walk(doc_tabs)
      Place(id) == CHOOSE k \in DOMAIN w : w[k].id = id
  IN  /\ Len(w) = Len(doc_tabs) /\ ToSet(w) = ToSet(doc_tabs)
      /\ \A i \in DOMAIN w :
           LET inside == Nested(w, w[i].id)
           IN  inside = {w[j].id : j \in i .. i + Cardinality(inside) - 1}
      /\ \A i, j \in DOMAIN doc_tabs :
           i < j /\ doc_tabs[i].parent = doc_tabs[j].parent =>
             Place(doc_tabs[i].id) < Place(doc_tabs[j].id)

Others(ts, us, id) ==
  {t \in {ts[i] : i \in DOMAIN ts} : t.id # id} = {t \in {us[i] : i \in DOMAIN us} : t.id # id}

Appends == write.op = "append" /\ write.at = "send" /\ write'.at = "idle" /\ doc_tabs' # doc_tabs

\* Text that is appended comes after all the text there was, unless somebody
\* changed the document between the reading and the writing (doc.py:85-129, #391).
AppendsAtTheEnd ==
  [][Appends /\ ~meddled.since =>
       TabOf(doc_tabs', write.only).text = TabOf(doc_tabs, write.only).text \o <<write.piece>>]_docVars

\* Whoever adds, moves or deletes tabs meanwhile, an append changes no tab but the
\* one that was named, or that was the only one when it looked (doc.py:108-128).
AppendsNowhereElse ==
  [][Appends => /\ Others(doc_tabs, doc_tabs', write.only)
                /\ write.asked \in {0, write.only}]_docVars

\* A replacement composed of a deletion and an insertion changes the named tab
\* and no other, and puts the piece where the span was (doc.py:64-83, #390).
ReplacesInOneTab ==
  [][write.at = "insert" /\ doc_tabs' # doc_tabs /\ write'.at = "idle" /\ ~meddled.since
       /\ write.asked # 0 =>
       LET text == TabOf(write.before, write.asked).text
       IN  /\ Others(write.before, doc_tabs', write.asked)
           /\ TabOf(doc_tabs', write.asked).text =
                SubSeq(text, 1, write.index - 1) \o <<write.piece>>
                \o SubSeq(text, write.until, Len(text))]_docVars

\* Text lands where the caller said, whatever the tabs and the people in them do
\* (documents/doc.py:64-144).
LandsWhereSaid == AppendsAtTheEnd /\ AppendsNowhereElse /\ ReplacesInOneTab
=============================================================================
