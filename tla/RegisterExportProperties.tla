---------------------- MODULE RegisterExportProperties ---------------------
(***************************************************************************)
(* What the readers of a register rely on.                                 *)
(***************************************************************************)
EXTENDS RegisterExport

Made(c) == export[c].at = "deliver"
Rows(c) == {export[c].rows[i] : i \in DOMAIN export[c].rows}

\* The types of the variables: a row names a tab or none, and holds the text of one
\* cell or the texts of several.
ExportTypeOK ==
  /\ present \subseteq TabNames /\ present # {} /\ second \in 1 .. MaxSecond
  /\ \A c \in Calls : \A r \in Rows(c) :
       /\ r.tab \in TabNames \cup {NoName}
       /\ r.cell_text \subseteq TabNames \cup {NoName}
       /\ r.cell_text = {} \/ (r.by_tab = {} /\ Cardinality(r.cell_text) = 1)
  /\ \A f, g \in disk : f.name = g.name => f = g

\* A row that names a tab the spreadsheet had when its tabs were read shows the cell
\* on that tab or nothing, whatever was deleted between the requests; a row never
\* shows one cell of several it might be (_export.py:193-211).
CellTextIsOfItsTab ==
  \A c \in Calls : \A r \in Rows(c) :
    /\ r.tab \in export[c].tabs => r.cell_text \subseteq {r.tab, NoName}
    /\ r.cell /\ r.tab = NoName /\ r.cell_text # {} => Cardinality(export[c].tabs) = 1

\* The shortfall that a register reports is the number of its rows on a cell whose
\* tab it leaves open, and a register that reports none has none (_export.py:241-281).
ShortfallCounted ==
  \A c \in Calls : Made(c) =>
    LET open == Cardinality({r \in Rows(c) : r.cell /\ r.tab = NoName /\ r.cell_text = {}})
    IN  {v \in export[c].caveats : v[1] = "unplaced"}
          = IF open = 0 THEN {} ELSE {<<"unplaced", open>>}

\* Whatever was empty on every row, a register that is written can be filled in and
\* handed back: the columns that apply_comment_actions reads are all there
\* (_export.py:499-516).
CanBeHandedBack ==
  \A c \in Calls : Made(c) =>
    {"thread_id", "reply_comment", "resolve_comment", "delete_comment",
     "reply_comment_completed", "resolve_comment_completed", "delete_comment_completed"}
      \subseteq used_columns(export[c].rows)

\* A file that was there when an export chose its name is not written over, unless it
\* was made in the very second the export names its file after (_export.py:377-432).
OverwritesOnlyInARace ==
  [][\A f \in disk \ disk' : \E c \in Calls :
       /\ export[c].at = "write" /\ export'[c].at = "over" /\ export[c].target = f.name
       /\ f \notin export[c].seen \/ \E i \in DOMAIN f.name.stamps : f.name.stamps[i] = export[c].stamp
    ]_exportVars

\* The rows, the caveats and the columns of one register say the same, and what the
\* spreadsheet said when it was read (_export.py:176-281, 499-516).
RegisterIsSound == CellTextIsOfItsTab /\ ShortfallCounted /\ CanBeHandedBack
=============================================================================
