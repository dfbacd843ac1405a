----------------------------- MODULE MCWorkspace -----------------------------
(***************************************************************************)
(* The library's components on small instances.  They share Google and no  *)
(* state of their own, so in a behaviour one of them moves, chosen at the  *)
(* start, and the others stay as they begin.                               *)
(***************************************************************************)
EXTENDS GoogleCallsProperties, WorkbookProperties, DocTabsProperties, PassageProperties,
        RegisterExportProperties, ThreadToolsProperties, DriveFilesProperties,
        SharingProperties, FileLabelsProperties, DemonstrationProperties

VARIABLE part   \* the component that moves

-----------------------------------------------------------------------------
(* Values of constants that a .cfg cannot write. *)

MCHints == {NoHint, -5, 0, 3600}

\* Two titles that differ in case.
MCCasefold == ("Data" :> "data") @@ ("notes" :> "notes") @@ ("Notes" :> "notes") @@ ("none" :> "none")

\* Paragraphs and headings in which quotes repeat, overlap themselves, cross elements and
\* end at newlines, and tables with rows enough to be cut.
Par(text) == [kind |-> "paragraph", level |-> NotAHeading, rows |-> <<text>>]
HeadingOf(level, text) == [kind |-> "paragraph", level |-> level, rows |-> <<text>>]
TableOf(rows) == [kind |-> "table", level |-> NotAHeading, rows |-> rows]
MCElements ==
  {Par(<<"a", "n">>), Par(<<"b", "a", "n">>), Par(<<"n">>), Par(<<"c", "c", "c", "n">>),
   HeadingOf(0, <<"a", "n">>), HeadingOf(1, <<"h", "n">>), HeadingOf(2, <<"b", "n">>),
   TableOf(<<<<"a", "n">>, <<"b", "n", "c", "n">>>>), TableOf(<<<<"c", "n">>>>),
   [kind |-> "other", level |-> NotAHeading, rows |-> <<>>]}
MCQuotes == {<<"a">>, <<"n">>, <<"c">>, <<"c", "c">>, <<"b", "a">>, <<"a", "n", "b">>, <<"n", "h">>}

\* A thread on a tab with a reply, and one whose tab the export does not say.
MCThreads == {[id |-> 1, replies |-> 1, tab |-> "Sum"], [id |-> 2, replies |-> 0, tab |-> "?"]}
MCWanted == ("c1" :> {"file", "xlsx", "sheet"}) @@ ("c2" :> {"rows", "file", "sheet"})

\* Two people of one name, one of them without an address.
MCMail == ("ann" :> "ann@x") @@ ("pat" :> "pat@x") @@ ("pat2" :> "no mail")
MCNameOf == ("ann" :> "Ann") @@ ("pat" :> "Pat") @@ ("pat2" :> "Pat")
\* A list with a file that is not there yet, and one that repeats an id.
MCIdLists == {<<1, 2, 4>>, <<3, 1, 1>>}

\* One address spelled two ways.
MCLower == ("a" :> "a") @@ ("b" :> "b") @@ ("B" :> "b")

MCTypes == <<"document", "spreadsheet", "presentation">>
MCEnabled == {"file.create", "content.write", "comment.create", "comment.reply", "comment.delete",
              "file.share", "file.trash"}
\* Everything enabled, and a server that cannot trash, share or delete comments.
MCPostures == {MCEnabled, MCEnabled \ {"file.trash", "file.share", "comment.delete"}}

-----------------------------------------------------------------------------
wvars == <<part, callVars, bookVars, docVars, passageVars, exportVars, threadVars, fileVars,
           sharingVars, labelVars, demoVars>>

Parts == {"calls", "workbook", "document", "passage", "export", "threads", "files", "sharing",
          "labels", "demonstration"}

WInit ==
  /\ part \in Parts
  /\ CallInit /\ BookInit /\ DocInit /\ PassageInit /\ ExportInit /\ ThreadInit /\ FilesInit
  /\ SharingInit /\ LabelsInit /\ DemoInit

WNext ==
  \/ /\ part = "calls" /\ CallNext
     /\ UNCHANGED <<part, bookVars, docVars, passageVars, exportVars, threadVars, fileVars, sharingVars, labelVars, demoVars>>
  \/ /\ part = "workbook" /\ BookNext
     /\ UNCHANGED <<part, callVars, docVars, passageVars, exportVars, threadVars, fileVars, sharingVars, labelVars, demoVars>>
  \/ /\ part = "document" /\ DocNext
     /\ UNCHANGED <<part, callVars, bookVars, passageVars, exportVars, threadVars, fileVars, sharingVars, labelVars, demoVars>>
  \/ /\ part = "passage" /\ PassageNext
     /\ UNCHANGED <<part, callVars, bookVars, docVars, exportVars, threadVars, fileVars, sharingVars, labelVars, demoVars>>
  \/ /\ part = "export" /\ ExportNext
     /\ UNCHANGED <<part, callVars, bookVars, docVars, passageVars, threadVars, fileVars, sharingVars, labelVars, demoVars>>
  \/ /\ part = "threads" /\ ThreadNext
     /\ UNCHANGED <<part, callVars, bookVars, docVars, passageVars, exportVars, fileVars, sharingVars, labelVars, demoVars>>
  \/ /\ part = "files" /\ FilesNext
     /\ UNCHANGED <<part, callVars, bookVars, docVars, passageVars, exportVars, threadVars, sharingVars, labelVars, demoVars>>
  \/ /\ part = "sharing" /\ SharingNext
     /\ UNCHANGED <<part, callVars, bookVars, docVars, passageVars, exportVars, threadVars, fileVars, labelVars, demoVars>>
  \/ /\ part = "labels" /\ LabelsNext
     /\ UNCHANGED <<part, callVars, bookVars, docVars, passageVars, exportVars, threadVars, fileVars, sharingVars, demoVars>>
  \/ /\ part = "demonstration" /\ DemoNext
     /\ UNCHANGED <<part, callVars, bookVars, docVars, passageVars, exportVars, threadVars, fileVars, sharingVars, labelVars>>

WSpec == WInit /\ [][WNext]_wvars /\ CallFairness /\ BookFairness

\* Whatever Google answers and however often it fails, every request comes back to the
\* tool that made it, and every operation of a Sheet ends (_errors.py:89-105, documents/sheet.py:233-292).
ComesToAnEnd == (call.at # "idle" \/ job.at # "idle") ~> (call.at = "idle" /\ job.at = "idle")

\* The types of the variables of all the components.
WorkspaceTypeOK ==
  /\ CallTypeOK /\ BookTypeOK /\ DocTypeOK /\ PassageTypeOK /\ ExportTypeOK /\ ThreadTypeOK
  /\ FilesTypeOK /\ SharingTypeOK /\ LabelsTypeOK /\ DemoTypeOK
=============================================================================
