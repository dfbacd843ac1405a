-------------------------- MODULE RegisterExport ---------------------------
(***************************************************************************)
(* export_comments (mcp/_tools/comments.py) and the register it makes       *)
(* (_export.py): the comments of a spreadsheet are listed and located in    *)
(* one moment, the tabs and the cells are read in later ones, and the rows *)
(* go to the caller, to a file on this machine or to a new spreadsheet.     *)
(* Two calls may run at once, other programs write files, and somebody      *)
(* renames and deletes tabs.                                                *)
(*                                                                         *)
(* What a cell holds is told by the tab it was read from; a file by who     *)
(* wrote it.                                                                *)
(***************************************************************************)
EXTENDS Integers, Sequences, FiniteSets, SequencesExt

CONSTANTS
  Calls,       \* the calls there are
  TabNames, NoName,
  Threads,     \* the comments: id, number of replies, and the tab: a name, Unsaid or Fileless
  Unsaid,      \* on a cell, but the export does not say on which tab
  Fileless,    \* about the whole file
  Given,       \* the file names callers give; NoName for none
  Wanted,      \* the destinations each call may ask for
  LocalWrite, OpenpyxlInstalled,   \* the calls whose server may write here, and has openpyxl
  MaxSecond

ASSUME ExportAssumption ==
  /\ IsFiniteSet(TabNames) /\ TabNames # {} /\ MaxSecond \in Nat \ {0}
  /\ NoName \notin TabNames \cup {Unsaid, Fileless} /\ {Unsaid, Fileless} \cap TabNames = {}
  /\ Unsaid # Fileless
  /\ IsFiniteSet(Threads)
  /\ \A t \in Threads : t \in [id : {t.id}, replies : Nat, tab : TabNames \cup {Unsaid, Fileless}]
  /\ \A t, u \in Threads : t.id = u.id => t = u
  /\ LocalWrite \subseteq Calls /\ OpenpyxlInstalled \subseteq Calls

VARIABLES
  present,   \* the tabs of the spreadsheet
  export,    \* the calls: where they are, what they have read, where they write
  disk,      \* the directory of the registers: names and their writer
  drive,     \* the spreadsheets the calls have made: their call, and whether filled
  second     \* the clock

exportVars == <<present, export, disk, drive, second>>

Unborn == [at |-> "unborn", dest |-> "none", given |-> NoName, located |-> {}, tabs |-> {},
           rows |-> <<>>, caveats |-> {}, target |-> <<>>, stamp |-> 0,
           seen |-> {}]

ExportInit ==
  /\ present = TabNames
  /\ export = [c \in Calls |-> Unborn]
  /\ disk = {} /\ drive = {} /\ second = 1

\* A call's record with some of its fields anew.
With(call, fields) ==
  [x \in DOMAIN Unborn |-> IF x \in DOMAIN fields THEN fields[x] ELSE call[x]]
Step(c, fields) == export' = [export EXCEPT ![c] = With(@, fields)]
\* A call that is over keeps nothing, and one that writes knows only where to.
Over(c) == export' = [export EXCEPT ![c] = [Unborn EXCEPT !.at = "over"]]

-----------------------------------------------------------------------------
(* The rows. *)

\* Mutant: a cell whose tab is unknown is read on the first tab.
reads_the_first_tab(tab, tabs) == IF tab \in tabs THEN {tab} ELSE {CHOOSE t \in tabs : TRUE}
\* The tab a cell is read on: the one the comment is known to be on, the only one,
\* or all of them.
reads_on(tab, tabs) ==
  IF tab \in tabs THEN {tab} ELSE tabs

keeps_any(tab, tabs) == tab \in tabs \/ Cardinality(tabs) = 1
\* The tab a row names: the comment's, unless there are others and it is not there.
keeps_tab(tab, tabs) == tab \in TabNames /\ keeps_any(tab, tabs)

comment_row(t, tabs, grids) ==
  LET on_cell == t.tab # Fileless
      on == IF on_cell THEN reads_on(t.tab, tabs) ELSE {}
  IN  [id |-> <<t.id, 0>>, reply_to |-> 0, cell |-> on_cell,
       tab |-> IF keeps_tab(t.tab, tabs) THEN t.tab ELSE NoName,
       cell_text |-> IF Cardinality(on) = 1 THEN {grids[x] : x \in on} ELSE {},
       by_tab |-> IF Cardinality(on) > 1 THEN {<<x, grids[x]>> : x \in on} ELSE {}]
\* A reply carries no cell of its own.
reply_row(t, k) ==
  [id |-> <<t.id, k>>, reply_to |-> t.id, cell |-> FALSE, tab |-> NoName,
   cell_text |-> {}, by_tab |-> {}]

\* One row for a comment and one for each of its replies.
rows_of(t, tabs, grids) ==
  <<comment_row(t, tabs, grids)>> \o [k \in 1 .. t.replies |-> reply_row(t, k)]

unplaced_in(rows, located) == Cardinality({i \in DOMAIN rows : rows[i].by_tab # {}})

\* The comments come in the order in which they were listed, which may be any.
comment_rows(located, tabs, grids) ==
  LET order == SetToSeq(located)
      rows == FlattenSeq([i \in DOMAIN order |-> rows_of(order[i], tabs, grids)])
      unplaced == unplaced_in(rows, located)
  IN  [rows |-> rows,
       caveats |-> (IF located # {} /\ ~\E i \in DOMAIN rows : rows[i].cell
                      THEN {<<"none mapped", 0>>} ELSE {})
                   \cup (IF unplaced > 0 THEN {<<"unplaced", unplaced>>} ELSE {})]

REPORTED == {"thread_id", "reply_to", "text", "tab", "cell", "cell_text", "cell_text_by_tab"}
TO_FILL_IN == {"reply_comment", "resolve_comment", "delete_comment"}
COMPLETED == {"reply_comment_completed", "resolve_comment_completed",
              "delete_comment_completed"}

Fills(row, column) ==
  \/ column \in {"thread_id", "text"}
  \/ column = "reply_to" /\ row.reply_to # 0
  \/ column = "tab" /\ row.tab # NoName
  \/ column = "cell" /\ row.cell
  \/ column = "cell_text" /\ row.cell_text # {}
  \/ column = "cell_text_by_tab" /\ row.by_tab # {}

\* The columns that carry something, and those somebody is to fill in.
used_columns(rows) ==
  IF rows = <<>> THEN REPORTED \cup TO_FILL_IN \cup COMPLETED
  ELSE TO_FILL_IN \cup COMPLETED
       \cup {c \in REPORTED : \E i \in DOMAIN rows : Fills(rows[i], c)}

-----------------------------------------------------------------------------
(* Where the register goes. *)

\* A name: what was given, or the document's with the moment in it; then the moment
\* again where the name was taken.  The suffix is that of the destination.
Name(base, stamps, suffix) == [base |-> base, stamps |-> stamps, suffix |-> suffix]
Taken(name) == \E f \in disk : f.name = name

as_given(given, dest, stamp) ==
  IF given = NoName THEN Name("document", <<stamp>>, dest) ELSE Name(given, <<>>, dest)
resolve_export_path(given, dest, stamp) ==
  LET target == as_given(given, dest, stamp)
  IN  IF Taken(target) THEN [target EXCEPT !.stamps = Append(@, stamp)] ELSE target

ExportComments(c, dest, given) ==
  /\ export[c].at = "unborn"
  /\ Step(c, [at |-> "list", dest |-> dest, given |-> given])
  /\ UNCHANGED <<present, disk, drive, second>>

\* The comments with their cells; or none has a cell, for want of an export.
ListThreads(c) ==
  /\ export[c].at = "list"
  /\ \E mapped \in BOOLEAN :
       Step(c, [at |-> "tabs",
                located |-> {IF mapped THEN t ELSE [t EXCEPT !.tab = Fileless] :
                               t \in {u \in Threads : u.tab \notin TabNames \ present}}])
  /\ UNCHANGED <<present, disk, drive, second>>

\* Each tab is read in a request of its own; one that cannot be read counts as empty.
ReadTabs(c) ==
  /\ export[c].at = "tabs"
  /\ Step(c, [at |-> "cells", tabs |-> present])
  /\ UNCHANGED <<present, disk, drive, second>>

ReadCells(c) ==
  /\ export[c].at = "cells"
  /\ \E readable \in SUBSET (export[c].tabs \cap present) :
       LET grids == [t \in export[c].tabs |-> IF t \in readable THEN t ELSE NoName]
           made == comment_rows(export[c].located, export[c].tabs, grids)
       IN  Step(c, [at |-> "deliver", rows |-> made.rows, caveats |-> made.caveats])
  /\ UNCHANGED <<present, disk, drive, second>>

Deliver(c) ==
  /\ export[c].at = "deliver" /\ export[c].dest \in {"rows", "csv"}
  /\ Over(c)
  /\ UNCHANGED <<present, disk, drive, second>>

\* A name is chosen by looking what is there, and then the file is written.
ChooseName(c) ==
  /\ export[c].at = "deliver" /\ export[c].dest \in {"file", "xlsx"} /\ c \in LocalWrite
  /\ LET target == resolve_export_path(export[c].given, export[c].dest, second)
     IN  export' = [export EXCEPT ![c] =
                      With(Unborn, [at |-> "write", target |-> target, stamp |-> second, seen |-> disk])]
  /\ UNCHANGED <<present, disk, drive, second>>

\* Without openpyxl a workbook is refused once its name is chosen (ExportFails).
WriteRegister(c) ==
  /\ export[c].at = "write"
  /\ export[c].target.suffix = "xlsx" => c \in OpenpyxlInstalled
  /\ disk' = {f \in disk : f.name # export[c].target} \cup {[name |-> export[c].target, by |-> c]}
  /\ Over(c)
  /\ UNCHANGED <<present, drive, second>>

\* A formatted workbook is uploaded whole; without openpyxl a spreadsheet is made,
\* opened and filled.
UploadSheet(c) ==
  /\ export[c].at = "deliver" /\ export[c].dest = "sheet"
  /\ drive' = drive \cup {[by |-> c, filled |-> c \in OpenpyxlInstalled]}
  /\ IF c \in OpenpyxlInstalled THEN Over(c) ELSE export' = [export EXCEPT ![c] = [Unborn EXCEPT !.at = "fill"]]
  /\ UNCHANGED <<present, disk, second>>

FillSheet(c) ==
  /\ export[c].at = "fill"
  /\ drive' = {IF s.by = c THEN [s EXCEPT !.filled = TRUE] ELSE s : s \in drive}
  /\ Over(c)
  /\ UNCHANGED <<present, disk, second>>

\* A request fails, writing is switched off, or the disk is full: what was made stays.
ExportFails(c) ==
  /\ export[c].at \notin {"unborn", "over"}
  /\ Over(c)
  /\ UNCHANGED <<present, disk, drive, second>>

-----------------------------------------------------------------------------
(* The others. *)

Tick ==
  /\ second < MaxSecond /\ second' = second + 1
  /\ UNCHANGED <<present, export, disk, drive>>

SomebodyWrites(given) ==
  /\ ~Taken(Name(given, <<>>, "file"))
  /\ disk' = disk \cup {[name |-> Name(given, <<>>, "file"), by |-> NoName]}
  /\ UNCHANGED <<present, export, drive, second>>

SomebodyDeletesTab(t) ==
  /\ present \ {t} # {} /\ t \in present
  /\ present' = present \ {t}
  /\ UNCHANGED <<export, disk, drive, second>>

CallStep(c) ==
  \/ ListThreads(c) \/ ReadTabs(c) \/ ReadCells(c) \/ Deliver(c) \/ ChooseName(c)
  \/ WriteRegister(c) \/ UploadSheet(c) \/ FillSheet(c) \/ ExportFails(c)

ExportNext ==
  \/ \E c \in Calls : \/ \E dest \in Wanted[c], given \in Given : ExportComments(c, dest, given)
                      \/ CallStep(c)
  \/ Tick
  \/ \E given \in Given \ {NoName} : SomebodyWrites(given)
  \/ \E t \in TabNames : SomebodyDeletesTab(t)

ExportSpec == ExportInit /\ [][ExportNext]_exportVars
=============================================================================
