---------------------------- MODULE PolicyGate ----------------------------
(***************************************************************************)
(* What a running server may do to Drive: an operator writes environment   *)
(* variables, the server starts from them or refuses to (mcp/_config.py,   *)
(* allowlist.py), and from then on every call of a Backend method passes   *)
(* the gate of policy.py before it reaches Google (backend.py).            *)
(*                                                                         *)
(* A file is an id, and what a call does to it is the set of the aspects   *)
(* of the file that it changes.  The environment is read once, when the    *)
(* process starts, so an edit of it is an edit before the next Start.      *)
(***************************************************************************)
EXTENDS FiniteSets

CONSTANTS
  Files,         \* the files there are
  NewFiles,      \* the ids Drive gives to files made later
  NoFile,        \* the argument of a call that names no file
  Environments   \* what an operator may write

ASSUME PolicyAssumption ==
  /\ Files \cap NewFiles = {}
  /\ NoFile \notin Files \cup NewFiles

Ids == Files \cup NewFiles

VARIABLES
  server,   \* the running server: its policy, and the text it was started from
  files,    \* the files that exist
  made,     \* the files this server has made
  known,    \* the files whose names this server has told its client
  did       \* what the last step did to Drive: a file, an aspect of it, and by which method

vars == <<server, files, made, known, did>>

-----------------------------------------------------------------------------
(* Capabilities and profiles. *)

ALL_CAPABILITIES ==
  {"comment.create", "comment.reply", "comment.resolve", "comment.edit", "comment.delete",
   "content.write", "content.delete", "file.create", "file.update", "file.trash", "file.share"}

Talk == {"comment.create", "comment.reply", "comment.resolve"}
Work == Talk \cup {"content.write", "file.create", "file.update", "file.trash"}

PROFILES == [reader |-> {}, commenter |-> Talk, writer |-> Work,
             fileOrganizer |-> Work \cup {"comment.edit", "comment.delete", "content.delete"},
             organizer |-> ALL_CAPABILITIES]
PROFILE_ALIASES == [editor |-> "writer", full |-> "organizer"]

NoProfile == "unset"
\* Google's interface labels and typos are not spellings of a profile.
Spellings == DOMAIN PROFILES \cup DOMAIN PROFILE_ALIASES
resolve_profile(name) ==
  IF name \in DOMAIN PROFILES THEN name ELSE PROFILE_ALIASES[name]

-----------------------------------------------------------------------------
(* The environment.  A list is the set of its lines, none if it is unset.  *)

Line == [is : {"*", "note", "unusable"}, id : {NoFile}] \cup [is : {"url"}, id : Ids]
Setting == [legacy : BOOLEAN, read_only : BOOLEAN,
            profile : STRING,
            explicit : BOOLEAN, capabilities : SUBSET STRING,
            read : SUBSET Line, modify : SUBSET Line]
ASSUME EnvironmentAssumption == Environments \subseteq Setting

Scope == [all_files : BOOLEAN, ids : SUBSET Ids]
everything == [all_files |-> TRUE, ids |-> {}]
allows(scope, f) == scope.all_files \/ f \in scope.ids

Says(lines, kind) == \E l \in lines : l.is = kind
UrlIds(lines) == {l.id : l \in {x \in lines : x.is = "url"}}

\* A line of * ends the parse; without one, an unusable line or no entry at all
\* is an error, and the server does not start.
Parses(lines) ==
  \/ lines = {} \/ Says(lines, "*")
  \/ Says(lines, "url") /\ ~Says(lines, "unusable")

\* Unset means every file.
scope_from_env(lines) ==
  IF lines = {} \/ Says(lines, "*")
    THEN everything ELSE [all_files |-> FALSE, ids |-> UrlIds(lines)]

any_entry(entries) == entries

\* The explicit list: every entry a capability, "default" or "all"; or "none" alone.
Entries == ALL_CAPABILITIES \cup {"default", "all"}
Explicit(entries) ==
  IF entries \cap {"default", "all"} # {} THEN ALL_CAPABILITIES
  ELSE entries \cap ALL_CAPABILITIES

\* An explicit list wins over a profile, and neither means everything.
Enabled(e) ==
  IF e.explicit THEN Explicit(e.capabilities)
  ELSE IF e.profile # NoProfile THEN PROFILES[resolve_profile(e.profile)]
  ELSE ALL_CAPABILITIES

\* settings_from_env raises nothing.
Starts(e) ==
  /\ ~e.legacy
  /\ e.explicit => e.capabilities = {"none"} \/ e.capabilities \subseteq Entries
  /\ e.profile \in Spellings \cup {NoProfile}
  /\ Parses(e.read) /\ Parses(e.modify)

Policy == [enabled : SUBSET ALL_CAPABILITIES, read : Scope, modify : Scope]
policy_from_env(e) ==
  [enabled |-> Enabled(e), read |-> scope_from_env(e.read), modify |-> scope_from_env(e.modify)]

\* A read-only workspace gets an empty policy in place of the configured one:
\* no capability, and the scopes that an empty policy has by default.
effective(e) ==
  IF e.read_only THEN [enabled |-> {}, read |-> everything, modify |-> everything]
  ELSE policy_from_env(e)

-----------------------------------------------------------------------------
(* The gates: what each Backend method costs, and which list applies.      *)

READS_FILE ==
  {"get_file_metadata", "list_permissions", "list_access_proposals", "list_file_labels",
   "list_comments", "get_comment", "export_file", "download_file", "get_document",
   "get_spreadsheet", "get_sheet_notes", "get_values", "get_presentation"}
READS_LISTING == {"get_about_user", "get_drive", "get_label_definition", "search_files"}
CommentEdits == {"update_comment", "update_reply"}
CommentDeletes == {"delete_comment", "delete_reply"}
Shares == {"create_permission", "update_permission", "delete_permission",
           "resolve_access_proposal"}
ContentDeletes == {"sheets_delete_tab", "docs_delete_tab", "docs_delete_range"}
ContentWrites ==
  {"sheets_add_tab", "docs_add_tab", "docs_batch_update", "sheets_values_update",
   "sheets_values_append", "sheets_values_clear", "sheets_batch_update",
   "slides_batch_update", "accept_suggestion"}
Creates == {"create_file", "copy_file"}
\* On one existing file: everything else that changes something.
Changes == CommentEdits \cup CommentDeletes \cup Shares \cup ContentDeletes \cup ContentWrites
           \cup {"create_comment", "create_cell_anchored_comment", "create_reply",
                 "update_file_metadata", "trash_file"}
\* What these carry is the caller's: the library's batch_update passes any requests.
RawBatches == {"docs_batch_update", "sheets_batch_update", "slides_batch_update"}
_GATES == READS_FILE \cup READS_LISTING \cup Creates \cup Changes
\* A method somebody adds to the backend and to no gate.
Ungated == {"a method without a gate"}

reply_gate_by_name(action) == "comment.reply"
_reply_gate(action) == IF action THEN "comment.resolve" ELSE "comment.reply"

delete_by_editing(m, action) ==
  CASE m \in {"create_comment", "create_cell_anchored_comment"} -> "comment.create"
    [] m = "create_reply" -> _reply_gate(action)
    [] m \in CommentEdits -> "comment.edit"
    [] m \in CommentDeletes -> "comment.delete"
    [] m \in ContentWrites \cup ContentDeletes -> "content.write"
    [] m \in Creates -> "file.create"
    [] m = "update_file_metadata" -> "file.update"
    [] m = "trash_file" -> "file.trash"
    [] OTHER -> "file.share"

\* The capability a change costs.
Capability(m, action) ==
  CASE m \in {"create_comment", "create_cell_anchored_comment"} -> "comment.create"
    [] m = "create_reply" -> _reply_gate(action)
    [] m \in CommentEdits -> "comment.edit"
    [] m \in CommentDeletes -> "comment.delete"
    [] m \in ContentWrites -> "content.write"
    [] m \in ContentDeletes -> "content.delete"
    [] m \in Creates -> "file.create"
    [] m = "update_file_metadata" -> "file.update"
    [] m = "trash_file" -> "file.trash"
    [] OTHER -> "file.share"

capability_only(m, f, action) ==
  /\ m \in _GATES
  /\ m \in Changes \cup Creates => Capability(m, action) \in server.policy.enabled

\* PolicyBackend.__getattr__: fail closed on an unlisted method, then the
\* capability, then the list.  A copy reads its source; a new file and the
\* account axis have no file to check.
guarded(m, f, action) ==
  /\ m \in _GATES
  /\ m \in Changes \cup Creates => Capability(m, action) \in server.policy.enabled
  /\ m \in READS_FILE \cup {"copy_file"} => allows(server.policy.read, f)
  /\ m \in Changes => allows(server.policy.modify, f)

unfiltered(page) == page
\* A listing has no file to check, so its results are filtered by the read list.
_filter_listing(page) == {f \in page : allows(server.policy.read, f)}

-----------------------------------------------------------------------------
(* What Google does when the call arrives. *)

Aspect == {"comment", "reply", "resolved", "comment text", "comment gone", "content",
           "structure", "name", "place", "trashed", "access", "proposals", "made", "gone"}

\* The aspects a method changes if it succeeds; which of them depends on what
\* it is asked.  An action-reply also puts a visible reply on the thread, and
\* accepting a proposal grants access.  A raw batch deletes tabs and ranges as
\* well as it writes, and a spreadsheet's title is the name of its file.
Effects(m, action) ==
  CASE m = "create_comment" -> {{"comment"}}
    [] m = "create_reply" -> {IF action THEN {"reply", "resolved"} ELSE {"reply"}}
    [] m \in CommentEdits -> {{"comment text"}}
    [] m \in CommentDeletes -> {{"comment gone"}}
    [] m = "sheets_batch_update" -> {{"content"}, {"structure", "content"}, {"name"}}
    [] m \in {"docs_batch_update", "slides_batch_update"} ->
         {{"content"}, {"structure", "content"}}
    [] m \in ContentWrites \ (RawBatches \cup {"accept_suggestion"}) -> {{"content"}}
    [] m \in ContentDeletes -> {{"structure", "content"}}
    [] m = "update_file_metadata" -> {{"name"}, {"place"}, {"name", "place"}}
    [] m = "trash_file" -> {{"trashed"}}
    [] m = "resolve_access_proposal" -> {{"proposals"}, {"proposals", "access"}}
    [] m \in Shares \ {"resolve_access_proposal"} -> {{"access"}}
    [] m \in Ungated -> {{"gone"}}
    [] OTHER -> {{}}

\* The calls whose answer carries the file's name.
NamesFile == {"get_file_metadata", "get_document", "get_presentation",
              "update_file_metadata", "trash_file"}

-----------------------------------------------------------------------------
Down == [up |-> FALSE,
         policy |-> [enabled |-> {}, read |-> everything, modify |-> everything],
         from |-> [legacy |-> FALSE, read_only |-> FALSE, profile |-> NoProfile,
                   explicit |-> FALSE, capabilities |-> {}, read |-> {}, modify |-> {}]]

Init ==
  /\ server = Down /\ files = Files
  /\ made = {} /\ known = {} /\ did = {}

Start(e) ==
  /\ ~server.up /\ Starts(e)
  /\ server' = [up |-> TRUE, policy |-> effective(e), from |-> e]
  /\ made' = {} /\ known' = {} /\ did' = {}
  /\ UNCHANGED files

Stop ==
  /\ server.up /\ server' = Down
  /\ made' = {} /\ known' = {} /\ did' = {}
  /\ UNCHANGED files

\* A call about one file passes the gate.  Google may refuse it, or do it and
\* lose the answer.
Call(m, f, action) ==
  /\ server.up /\ guarded(m, f, action)
  /\ \E aspects \in Effects(m, action) \cup {{}} : did' = {f} \X aspects \X {m}
  /\ \/ known' = IF m \in NamesFile THEN known \cup {f} ELSE known
     \/ UNCHANGED known
  /\ UNCHANGED <<server, files, made>>

\* A new file, from nothing or from a copy of f.
Create(m, f, new) ==
  /\ server.up /\ guarded(m, f, FALSE)
  /\ m = "create_file" <=> f = NoFile
  /\ files' = files \cup {new} /\ made' = made \cup {new}
  /\ did' = {<<new, "made", m>>}
  /\ \/ known' = known \cup {new}
     \/ UNCHANGED known
  /\ UNCHANGED server

\* One page of a listing of the account.
Search(page) ==
  /\ server.up /\ guarded("search_files", NoFile, FALSE)
  /\ known' = known \cup _filter_listing(page)
  /\ did' = {}
  /\ UNCHANGED <<server, files, made>>

Next ==
  \/ \E e \in Environments : Start(e)
  \/ Stop
  \/ \E m \in READS_FILE \cup Changes \cup Ungated, f \in files, action \in BOOLEAN :
       Call(m, f, action)
  \/ \E m \in Creates, f \in files \cup {NoFile}, new \in NewFiles \ files : Create(m, f, new)
  \/ \E page \in SUBSET files : Search(page)

Spec == Init /\ [][Next]_vars
=============================================================================
