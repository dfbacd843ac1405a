---------------------- MODULE DemonstrationProperties ----------------------
(***************************************************************************)
(* What somebody who lends their Drive to the demonstration relies on.     *)
(***************************************************************************)
EXTENDS Demonstration

Faulty(tools, f) == \E x \in faults : x.tool \in tools /\ x.file = f

\* The types of the variables; what has been captured was made.
DemoTypeOK ==
  /\ at \in 0 .. Len(Plan[FALSE]) + 1 /\ Cardinality(faults) <= MaxFaults
  /\ \A f \in state.ids : on_drive.files[f] # "absent"
  /\ on_drive.shared \cup on_drive.commented \subseteq Kinds

\* A run that nobody stopped leaves nothing of what it made outside the trash, unless it
\* was asked to, may not trash, lost the answer to the creation, or the last attempt to
\* trash that very file failed or was declined (demo/_plan.py:497-535).
NothingIsLeftBehind ==
  RunOver /\ ~way.keep /\ "file.trash" \in way.enabled =>
    \A f \in FilesMade : on_drive.files[f] = "there" => Faulty({"create_file", "copy_file", "trash_file"}, f)

\* Every grant the demonstration makes is taken back before the run is over, unless the
\* answer to it was lost or taking it back failed or was declined (demo/_plan.py:424-457).
GrantsAreTakenBack ==
  RunOver => \A k \in on_drive.shared : Faulty({"share_file", "unshare_file"}, File(k, FALSE))

\* Nobody is given access by an unattended run because of the environment
\* (demo/_cli.py:75-83).
NobodyIsSharedWithUnasked == on_drive.shared # {} => ~(way.auto /\ way.from_env)

\* The folder goes to the trash only when every file in it has gone or was tried: a
\* child left in a trashed folder is loose in the Drive (demo/_plan.py:521-528).
ChildrenGoFirst ==
  [][on_drive'.files[Folder] = "trashed" /\ on_drive.files[Folder] = "there" /\ state.ids # {Folder} =>
       \A f \in state.ids \ {Folder} : on_drive.files[f] = "trashed" \/ Faulty({"trash_file"}, f)]_demoVars

\* The register applied to a file is the one exported from it, unless that export
\* failed, was declined or left no answer (demo/_plan.py:338-368).
RegisterIsItsOwn ==
  [][at' = at + 1 /\ at > 0 /\ Current.tool = "apply_comment_actions" /\ ready(Current) =>
       \/ state.register = Current.file.of
       \/ Faulty({"export_comments"}, Current.file)]_demoVars

\* Nothing is posted but what somebody typed, was shown and said yes to, and nothing by
\* an unattended run (demo/_cli.py:131-169).
PostedWithConsent ==
  feedback.at \in {"agreed", "posted", "url shown"} => feedback.said = "yes" /\ ~way.auto /\ RunOver

\* The demonstration takes back what it made and what it granted, the folder last
\* (demo/_plan.py:424-457, 497-535).
TakesBackWhatItMade == []NothingIsLeftBehind /\ []GrantsAreTakenBack /\ ChildrenGoFirst

\* What it does to others it has been asked to do, and what it applies to a file comes
\* from that file (demo/_plan.py:338-368, demo/_cli.py:57-83, 131-169).
ActsAsAsked == []NobodyIsSharedWithUnasked /\ []PostedWithConsent /\ RegisterIsItsOwn
=============================================================================
