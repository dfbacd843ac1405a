----------------------- MODULE PolicyGateProperties -----------------------
(***************************************************************************)
(* What an operator may rely on who wrote an environment and knows Drive's *)
(* own words, and has not read the table of gates.                         *)
(***************************************************************************)
EXTENDS PolicyGate

\* The types of the variables.
TypeOK ==
  /\ server.up \in BOOLEAN /\ server.policy \in Policy
  /\ files \subseteq Ids /\ made \subseteq files /\ known \subseteq files
  /\ did \subseteq files \X Aspect \X (Changes \cup Creates)

\* Which capabilities, by the notes an operator reads (CAPABILITY_NOTES,
\* policy.py:119-200), let a call change an aspect of a file.
Grants ==
  [a \in Aspect |->
     CASE a = "comment" -> {"comment.create"}
       [] a = "reply" -> {"comment.reply", "comment.resolve"}
       [] a = "resolved" -> {"comment.resolve"}
       [] a = "comment text" -> {"comment.edit"}
       [] a = "comment gone" -> {"comment.delete"}
       [] a = "content" -> {"content.write", "content.delete"}
       [] a = "structure" -> {"content.delete"}
       [] a \in {"name", "place"} -> {"file.update"}
       [] a = "trashed" -> {"file.trash"}
       [] a \in {"access", "proposals"} -> {"file.share"}
       [] a = "made" -> {"file.create"}
       [] OTHER -> {}]

\* What the gates make of the notes.  The one method they cannot hold to them is
\* a raw batch, which does under content.write alone whatever its requests say
\* (documents/sheet.py:337-340, documents/doc.py:199-201); that it may delete is
\* what ContentDeleteIsItsOwn is about.
GrantedBy(aspect, m) ==
  Grants[aspect] \cup (IF m \in RawBatches THEN {"content.write"} ELSE {})

\* A server started from an explicit list changes nothing that no entry of the
\* list grants, whatever else is set beside it and whatever sequence of calls is
\* made (mcp/_config.py:282-300, "the complete list of mutations"): raw batches
\* apart, by the notes on the entries; and no raw batch without content.write.
WithinTheText ==
  server.from.explicit =>
    \A d \in did : \/ server.from.capabilities \cap {"default", "all"} # {} /\ d[2] # "gone"
                   \/ server.from.capabilities \cap GrantedBy(d[2], d[3]) # {}

\* A server started from a profile changes what the comments of the profiles let
\* that profile change and nothing else: in particular nobody below fileOrganizer
\* destroys comments, no call but a writer's raw batch destroys structure below it,
\* and only an organizer shares (policy.py:202-250).
Commenting == {"comment", "reply", "resolved"}
Writing == Commenting \cup {"content", "made", "name", "place", "trashed"}
RoleOf == [reader |-> {}, commenter |-> Commenting, writer |-> Writing, editor |-> Writing,
           fileOrganizer |-> Writing \cup {"comment text", "comment gone", "structure"},
           organizer |-> Aspect \ {"gone"}, full |-> Aspect \ {"gone"}]
RoleCeiling ==
  server.from.profile # NoProfile /\ ~server.from.explicit =>
    \A d \in did : \/ d[2] \in RoleOf[server.from.profile]
                   \/ /\ d[2] = "structure" /\ d[3] \in RawBatches
                      /\ "content" \in RoleOf[server.from.profile]

\* What the notes say of content.delete: deleting a tab or a range is "STRUCTURAL
\* destruction, which editing cannot reach" (policy.py:173-174, and 166-167, 229-231
\* and 470-472 of the notes, the profiles and the gates): no structure is destroyed
\* by a server that has not that capability.
ContentDeleteIsItsOwn ==
  \A d \in did : d[2] = "structure" => "content.delete" \in server.policy.enabled

\* With a modify list, the only files that change are those whose URL is on it:
\* also after a copy, which is no way to a writable duplicate of a file that is
\* not (policy.py:430-433), and a new file is not changed after it is made.
Bounded(lines) == lines # {} /\ ~Says(lines, "*")
OnlyListedFilesChange ==
  Bounded(server.from.modify) =>
    \A d \in did : d[2] = "made" \/ d[1] \in UrlIds(server.from.modify)

\* With a read list, the server names no file to its client that is neither on
\* one of the lists nor of its own making: a search is no way to enumerate what
\* the lists leave out (policy.py:604-608).  A read-only server is left out, for
\* it drops its lists (ReadListBoundsNames).
NamesWithinReach ==
  ~server.from.read_only /\ Bounded(server.from.read) /\ Bounded(server.from.modify) =>
    known \subseteq UrlIds(server.from.read) \cup UrlIds(server.from.modify) \cup made

\* What the class comment says of every policy: "a file absent from `read` cannot
\* be reached at all" (policy.py:500-501).
ReadListBoundsNames ==
  Bounded(server.from.read) => known \subseteq UrlIds(server.from.read) \cup made
=============================================================================
