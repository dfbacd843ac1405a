--------------------------- MODULE Demonstration ---------------------------
(***************************************************************************)
(* The demonstration (demo/): a plan that makes a folder, a document, a    *)
(* spreadsheet and a deck in somebody's Drive, exercises every operation   *)
(* on each, takes back what it granted and trashes what it made, run step  *)
(* by step; and the question at its end, which may become a public issue.  *)
(*                                                                         *)
(* The steps that change a file's text, or only read, are one step each.   *)
(***************************************************************************)
EXTENDS Naturals, Sequences, FiniteSets, SequencesExt

CONSTANTS
  TYPES,            \* the kinds of files, in their order
  NoKind,
  Postures,         \* sets of capabilities a server may have enabled
  MaxFaults         \* bound: the steps of a run that fail or are declined

\* The plan has eight places to trash a file in.
_MAX_CLEANUP == 8

ASSUME DemoAssumption ==
  /\ TYPES \in Seq(ToSet(TYPES)) \ {<<>>} /\ 2 * Len(TYPES) + 1 <= _MAX_CLEANUP
  /\ NoKind \notin ToSet(TYPES) /\ MaxFaults \in Nat

VARIABLES
  way,       \* how it was started: attended or not, keep, the address and where it is from
  at,        \* the step it is at
  on_drive,  \* Drive: the files made, and the kinds whose file is shared
  state,     \* what the steps have captured: ids, permissions, comment and register
  faults,    \* the steps that failed or were declined, with the file they were about
  feedback   \* the closing question

demoVars == <<way, at, on_drive, state, faults, feedback>>

File(k, copy) == [of |-> k, copy |-> copy]
Folder == File(NoKind, FALSE)
Kinds == ToSet(TYPES)
FilesMade == {Folder} \cup {File(k, copy) : k \in Kinds, copy \in BOOLEAN}

DemoInit ==
  /\ way = [auto |-> FALSE, keep |-> FALSE, share_with |-> FALSE, from_env |-> FALSE, enabled |-> {}]
  /\ at = 0 /\ faults = {} /\ feedback = [at |-> "not asked", said |-> "nothing"]
  /\ on_drive = [files |-> [f \in FilesMade |-> "absent"], shared |-> {}, commented |-> {}]
  /\ state = [ids |-> {}, perms |-> {}, comment_id |-> NoKind, register |-> NoKind]

-----------------------------------------------------------------------------
(* The plan. *)

Plain(tool, file, requires, optional) ==
  [tool |-> tool, file |-> file, requires |-> requires, optional |-> optional, index |-> 0]

account_opening == <<Plain("create_file", Folder, "file.create", FALSE)>>

content_steps(k) ==
  <<Plain("create_file", File(k, FALSE), "file.create", FALSE),
    Plain("edit", File(k, FALSE), "content.write", k = TYPES[Len(TYPES)])>>

comment_steps(k) ==
  <<Plain("create_comment", File(k, FALSE), "comment.create", FALSE),
    Plain("change_comment", File(k, FALSE), "comment.reply", FALSE),
    Plain("delete_comment", File(k, FALSE), "comment.delete", FALSE)>>

\* Mutant: every register is applied to the file made first.
register_applied_to_the_first(k) ==
  <<Plain("export_comments", File(k, FALSE), "none", TRUE),
    Plain("apply_comment_actions", File(TYPES[1], FALSE), "comment.reply", TRUE)>>
register_steps(k) ==
  <<Plain("export_comments", File(k, FALSE), "none", TRUE),
    Plain("apply_comment_actions", File(k, FALSE), "comment.reply", TRUE)>>

file_steps(k) == <<Plain("copy_file", File(k, TRUE), "file.create", FALSE)>>

\* What is granted is downgraded and taken back.
sharing_steps(k) ==
  <<Plain("share_file", File(k, FALSE), "file.share", TRUE),
    Plain("update_file_permission", File(k, FALSE), "file.share", TRUE),
    Plain("unshare_file", File(k, FALSE), "file.share", TRUE)>>

per_type(k) == content_steps(k) \o comment_steps(k) \o register_steps(k) \o file_steps(k) \o sharing_steps(k)

account_closing == <<Plain("search_files", Folder, "none", FALSE)>>

Originals == [i \in DOMAIN TYPES |-> File(TYPES[i], FALSE)]
Copies == [i \in DOMAIN TYPES |-> File(TYPES[i], TRUE)]
\* Those of some files whose ids are known, in their order.
Known(files, s) ==
  FlattenSeq([i \in DOMAIN files |-> IF files[i] \in s.ids THEN <<files[i]>> ELSE <<>>])

\* Mutant: the folder is the first to be trashed.
folder_first(s) == Known(<<Folder>> \o Originals \o Copies, s)
\* Everything made that is known, the folder last.
targets(s) == Known(Originals \o Copies \o <<Folder>>, s)

trash_step(tool, index) == [Plain(tool, Folder, "file.trash", TRUE) EXCEPT !.index = index]
cleanup(keep) ==
  IF keep THEN <<>>
  ELSE <<trash_step("trash_file", 1), trash_step("untrash_file", 1)>> \o
       [i \in 1 .. _MAX_CLEANUP |-> trash_step("trash_file", i)]

build_steps(keep) ==
  account_opening \o FlattenSeq([i \in DOMAIN TYPES |-> per_type(TYPES[i])]) \o
  account_closing \o cleanup(keep)
Plan == [keep \in BOOLEAN |-> build_steps(keep)]

-----------------------------------------------------------------------------
(* One step. *)

\* Whether an earlier step has left what this one needs; else it is skipped.
ready(step) ==
  LET known == File(step.file.of, FALSE) \in state.ids IN
  CASE step.tool \in {"trash_file", "untrash_file"} -> step.index <= Len(targets(state))
    [] step.tool \in {"create_file", "search_files"} -> TRUE
    [] step.tool \in {"change_comment", "delete_comment"} -> known /\ state.comment_id # NoKind
    [] step.tool = "apply_comment_actions" -> known /\ state.register # NoKind
    [] step.tool = "share_file" -> known /\ way.share_with
    [] OTHER -> known

\* Whether Drive can do it: a comment or a grant has to be of that file.
possible(step) ==
  LET k == step.file.of IN
  CASE step.tool \in {"change_comment", "delete_comment"} -> state.comment_id = k /\ k \in on_drive.commented
    [] step.tool \in {"update_file_permission", "unshare_file"} -> k \in state.perms /\ k \in on_drive.shared
    [] OTHER -> TRUE

about(step) == IF step.index = 0 THEN step.file ELSE targets(state)[step.index]

carried_out(step) ==
  LET k == step.file.of IN
  CASE step.tool \in {"create_file", "copy_file"} -> [on_drive EXCEPT !.files[step.file] = "there"]
    [] step.tool = "trash_file" -> [on_drive EXCEPT !.files[about(step)] = "trashed"]
    [] step.tool = "untrash_file" -> [on_drive EXCEPT !.files[about(step)] = "there"]
    [] step.tool = "share_file" -> [on_drive EXCEPT !.shared = @ \cup {k}]
    [] step.tool = "unshare_file" -> [on_drive EXCEPT !.shared = @ \ {k}]
    [] step.tool = "create_comment" -> [on_drive EXCEPT !.commented = @ \cup {k}]
    [] step.tool = "delete_comment" -> [on_drive EXCEPT !.commented = @ \ {k}]
    [] OTHER -> on_drive

captures(step) ==
  LET k == step.file.of IN
  CASE step.tool \in {"create_file", "copy_file"} -> [state EXCEPT !.ids = @ \cup {step.file}]
    [] step.tool = "share_file" -> [state EXCEPT !.perms = @ \cup {k}]
    [] step.tool = "create_comment" -> [state EXCEPT !.comment_id = k]
    [] step.tool = "export_comments" -> [state EXCEPT !.register = k]
    [] OTHER -> state

Current == Plan[way.keep][at]
Blame(step, outcome) ==
  /\ Cardinality(faults) < MaxFaults
  /\ faults' = faults \cup {[tool |-> step.tool, file |-> about(step), at |-> at, outcome |-> outcome]}

\* The outcome of a step whose capability is on and that has what it needs.
Carried(step) ==
  \/ on_drive' = carried_out(step) /\ state' = captures(step) /\ UNCHANGED faults
  \/ UNCHANGED <<on_drive, state>> /\ Blame(step, "failed")
  \/ on_drive' = carried_out(step) /\ UNCHANGED state /\ Blame(step, "answer lost")

_one ==
  /\ at \in DOMAIN Plan[way.keep] /\ feedback.at = "not asked"
  /\ at' = at + 1
  /\ IF Current.requires \notin way.enabled \cup {"none"} \/ ~ready(Current) \/ ~possible(Current)
       THEN UNCHANGED <<on_drive, state, faults>>
       ELSE \/ Carried(Current)
            \/ ~way.auto /\ Blame(Current, "declined") /\ UNCHANGED <<on_drive, state>>
  /\ UNCHANGED <<way, feedback>>

\* `q` at a prompt: the run ends where it is.
Stop_ ==
  /\ at \in DOMAIN Plan[way.keep] /\ ~way.auto /\ feedback.at = "not asked"
  /\ feedback' = [feedback EXCEPT !.at = "stopped"] /\ UNCHANGED <<way, at, on_drive, state, faults>>

\* The address of the environment counts only where somebody is asked.
shared_with(auto, from_env, address) == address /\ ~(auto /\ from_env)

\* The command line: what it asks for, and what is made of it.
main(auto, keep, from, enabled) ==
  /\ at' = 1
  /\ way' = [auto |-> auto, keep |-> keep, from_env |-> from = "environment", enabled |-> enabled,
             share_with |-> shared_with(auto, from = "environment", from # "nowhere")]
  /\ UNCHANGED <<on_drive, state, faults, feedback>>

-----------------------------------------------------------------------------
(* The closing question (_feedback). *)

RunOver == at > 0 /\ at \notin DOMAIN Plan[way.keep] /\ feedback.at # "stopped"

\* Only a yes is one.
agreed(answer) == answer = "yes"

Ask_(answer) ==
  /\ feedback' = [at |-> IF answer = "words" THEN "shown" ELSE "skipped", said |-> answer]
  /\ UNCHANGED <<way, at, on_drive, state, faults>>

PostIt(answer) ==
  /\ feedback' = [at |-> IF agreed(answer) THEN "agreed" ELSE "not posted", said |-> answer]
  /\ UNCHANGED <<way, at, on_drive, state, faults>>

\* gh files it, or, when it cannot, the address to file it by hand is shown.
file_issue(filed) ==
  /\ feedback.at = "agreed"
  /\ feedback' = [feedback EXCEPT !.at = IF filed THEN "posted" ELSE "url shown"]
  /\ UNCHANGED <<way, at, on_drive, state, faults>>

DemoNext ==
  \/ /\ at = 0
     /\ \E auto, keep \in BOOLEAN, from \in {"nowhere", "environment", "--share"}, enabled \in Postures :
          main(auto, keep, from, enabled)
  \/ _one \/ Stop_
  \/ /\ RunOver /\ feedback.at = "not asked" /\ ~way.auto
     /\ \E answer \in {"words", "enter", "end of input"} : Ask_(answer)
  \/ /\ feedback.at = "shown"
     /\ \E answer \in {"yes", "no", "enter", "end of input"} : PostIt(answer)
  \/ \E filed \in BOOLEAN : file_issue(filed)

DemoSpec == DemoInit /\ [][DemoNext]_demoVars
=============================================================================
