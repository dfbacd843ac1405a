------------------------ MODULE WorkbookProperties ------------------------
(***************************************************************************)
(* What the callers of a Sheet rely on.                                    *)
(***************************************************************************)
EXTENDS Workbook

\* The types of the variables.
BookTypeOK ==
  /\ tabs \in Seq([id : Nat, title : Titles]) /\ tabs # <<>> /\ ids <= MaxIds
  /\ pins \subseteq [id : Nat, key : Keys, tab : TabIds, row : 1 .. MaxRow]
  /\ cell_map # NoMap =>
       \A c \in DOMAIN cell_map : cell_map[c] \in [row : 1 .. MaxRow, tab : Titles \cup {NoTitle}]
  /\ job.at \in {"idle", "list", "place", "match", "narrow", "send add", "send delete"}

At(p, row, wanted) ==
  p.row = row /\ (wanted = NoTitle \/ tabs[TitleOf(p.tab)].title = wanted)
NoTwins == \A p, q \in pins : p.key = q.key => p = q
Unmeddled == answer # NoAnswer /\ ~others.exported

\* A comment that is said to be at a cell is there, unless somebody else changed
\* the file since the export: whatever this Sheet wrote since, and however the
\* requests before it ended (sheet.py:233-292, _cellmap.py:219-233).
FoundIsThere ==
  Unmeddled /\ (answer.blind => NoTwins) =>
    \A p \in pins : p.id \in answer.found => At(p, answer.row, answer.wanted)

\* A cell that is reported without comments and without unplaced ones has none: it
\* is the check before a cell is overwritten (sheet.py:270-292, mcp/_tools/comments.py:600-629).  Two comments of
\* one key, and an export that failed, are left out: nothing in the answer tells.
ClearIsClear ==
  Unmeddled /\ ~others.looked /\ ~answer.blind /\ answer.unplaced = 0 /\ NoTwins
  => \A p \in pins : At(p, answer.row, answer.wanted) => p.id \in answer.found

\* A tab this Sheet adds bears a name that no tab bore that was there when it
\* looked, in any spelling that Sheets takes for the same (sheet.py:143-163).
AddsNoTwin ==
  [][Len(tabs') > Len(tabs) /\ job.at = "send add" /\ job' = Idle /\ ~others.looked =>
       \A i \in DOMAIN tabs : ~Same(tabs[i].title, tabs'[Len(tabs')].title)]_bookVars

\* The tab this Sheet deletes bore the name asked for when the name was looked up,
\* whatever other people did to tabs and names since (sheet.py:165-181).
DeletesTheNamed ==
  [][job.at = "send delete" /\ job' = Idle =>
       TabIds \ {tabs'[i].id : i \in DOMAIN tabs'} \subseteq job.named]_bookVars

\* What comments_by_cell answers is so, of the comments it finds at a cell and of those
\* it does not (documents/sheet.py:233-292, _cellmap.py:219-233).
LookupIsSound == FoundIsThere /\ ClearIsClear

\* Tabs are made and deleted by name though Google goes by id, and people rename and
\* delete tabs between the look and the request (documents/sheet.py:143-181).
TabsByName == AddsNoTwin /\ DeletesTheNamed
=============================================================================
