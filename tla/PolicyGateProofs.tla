------------------------- MODULE PolicyGateProofs -------------------------
(***************************************************************************)
(* What a running server allows, for any files, any environments an        *)
(* operator may write, and any sequence of starts, stops and calls: the    *)
(* policy's promises.                                                      *)
(***************************************************************************)
EXTENDS PolicyGateProperties, TLAPS

-----------------------------------------------------------------------------
(* What a running server allows. *)

\* What a running server enforces is what its environment said when it started.
Faithful ==
  server.up => /\ server.from \in Environments /\ Starts(server.from)
               /\ server.policy = effective(server.from)

LEMMA DownIsNotUp == ~Down.up
  BY DEF Down

LEMMA FaithfulInit == Init => Faithful
  BY DownIsNotUp DEF Init, Faithful

LEMMA FaithfulNext == Faithful /\ [Next]_vars => Faithful'
<1> SUFFICES ASSUME Faithful, [Next]_vars PROVE Faithful'
  OBVIOUS
<1>1. CASE \E e \in Environments : Start(e)
  <2> PICK e \in Environments : Start(e)
    BY <1>1
  <2> QED
    BY DEF Start, Faithful
<1>2. CASE Stop
  BY <1>2, DownIsNotUp DEF Stop, Faithful
<1>3. CASE UNCHANGED server
  BY <1>3 DEF Faithful
<1> QED
  BY <1>1, <1>2, <1>3 DEF Next, Call, Create, Search, vars

\* A server with any capability at all is not read-only, and enforces its lists.
LEMMA NotReadOnly ==
  ASSUME Faithful, server.up, server.policy.enabled # {} \/ ~server.from.read_only
  PROVE  server.policy = policy_from_env(server.from)
<1>1. CASE server.from.read_only
  <2>1. server.policy = [enabled |-> {}, read |-> everything, modify |-> everything]
    BY <1>1 DEF Faithful, effective
  <2> QED
    BY <1>1, <2>1
<1>2. CASE ~server.from.read_only
  BY <1>2 DEF Faithful, effective
<1> QED
  BY <1>1, <1>2

\* A list that is bounded enforces exactly the files whose URLs are on it.
LEMMA BoundedScope ==
  ASSUME NEW lines, Bounded(lines), NEW f, allows(scope_from_env(lines), f)
  PROVE  f \in UrlIds(lines)
  BY DEF Bounded, scope_from_env, allows

\* A call about one file that changes anything is a change, and not a read.
LEMMA OnlyChangesHaveEffects ==
  ASSUME NEW m \in READS_FILE \cup Changes \cup Ungated, NEW action \in BOOLEAN, m \in _GATES,
         NEW aspects \in Effects(m, action) \cup {{}}, aspects # {}
  PROVE  m \in Changes
<1>1. m \notin Ungated
  BY DEF Ungated, _GATES, READS_FILE, READS_LISTING, Creates, Changes, CommentEdits,
         CommentDeletes, Shares, ContentDeletes, ContentWrites
<1>2. CASE m \in READS_FILE
  <2>1. Effects(m, action) = {{}}
    BY <1>2, <1>1 DEF Effects, READS_FILE, CommentEdits, CommentDeletes, Shares, ContentDeletes,
         ContentWrites, RawBatches
  <2> QED
    BY <2>1
<1> QED
  BY <1>1, <1>2

-----------------------------------------------------------------------------
LEMMA ListedCall ==
  ASSUME Faithful, NEW m \in READS_FILE \cup Changes \cup Ungated, NEW f, NEW action \in BOOLEAN,
         Call(m, f, action)
  PROVE  OnlyListedFilesChange'
<1> SUFFICES ASSUME Bounded(server.from.modify), NEW d \in did'
             PROVE  d[1] \in UrlIds(server.from.modify)
  BY DEF OnlyListedFilesChange, Call
<1>1. server.up /\ guarded(m, f, action)
  BY DEF Call
<1> PICK aspects \in Effects(m, action) \cup {{}} : did' = {f} \X aspects \X {m}
  BY DEF Call
<1>2. d[1] = f /\ aspects # {}
  OBVIOUS
<1>3. m \in Changes
  BY <1>1, <1>2, OnlyChangesHaveEffects DEF guarded
<1>4. server.policy = policy_from_env(server.from)
  BY <1>1, <1>3, NotReadOnly DEF guarded
<1>5. allows(scope_from_env(server.from.modify), f)
  BY <1>1, <1>3, <1>4 DEF guarded, policy_from_env
<1> QED
  BY <1>2, <1>5, BoundedScope

\* A modify list bounds what changes, whatever is called in whatever order.
THEOREM ListBoundsChanges == Spec => []OnlyListedFilesChange
<1>1. Init => OnlyListedFilesChange
  BY DEF Init, OnlyListedFilesChange
<1>2. Faithful /\ OnlyListedFilesChange /\ [Next]_vars => OnlyListedFilesChange'
  <2> SUFFICES ASSUME Faithful, OnlyListedFilesChange, [Next]_vars
               PROVE  OnlyListedFilesChange'
    OBVIOUS
  <2>1. CASE did' = {}
    BY <2>1 DEF OnlyListedFilesChange
  <2>2. CASE \E m \in READS_FILE \cup Changes \cup Ungated, f \in files, action \in BOOLEAN :
               Call(m, f, action)
    BY <2>2, ListedCall
  <2>3. CASE \E m \in Creates, f \in files \cup {NoFile}, new \in NewFiles \ files :
               Create(m, f, new)
    BY <2>3 DEF Create, OnlyListedFilesChange
  <2>4. CASE UNCHANGED vars
    BY <2>4 DEF vars, OnlyListedFilesChange
  <2> QED
    BY <2>1, <2>2, <2>3, <2>4 DEF Next, Start, Stop, Search
<1> QED
  BY <1>1, <1>2, FaithfulInit, FaithfulNext, PTL DEF Spec

-----------------------------------------------------------------------------
LEMMA NamedCall ==
  ASSUME Faithful, NamesWithinReach, NEW m \in READS_FILE \cup Changes \cup Ungated, NEW f,
         NEW action \in BOOLEAN, Call(m, f, action)
  PROVE  NamesWithinReach'
<1> SUFFICES ASSUME ~server.from.read_only, Bounded(server.from.read),
                    Bounded(server.from.modify), m \in NamesFile
             PROVE  f \in UrlIds(server.from.read) \cup UrlIds(server.from.modify)
  BY DEF NamesWithinReach, Call
<1>1. server.up /\ guarded(m, f, action) /\ server.policy = policy_from_env(server.from)
  BY NotReadOnly DEF Call
<1>2. m \in READS_FILE \cup Changes
  BY DEF NamesFile, Ungated
<1>3. \/ allows(scope_from_env(server.from.read), f)
      \/ allows(scope_from_env(server.from.modify), f)
  BY <1>1, <1>2 DEF guarded, policy_from_env
<1> QED
  BY <1>3, BoundedScope

LEMMA FilteredSearch ==
  ASSUME Faithful, NamesWithinReach, NEW page, Search(page)
  PROVE  NamesWithinReach'
<1> SUFFICES ASSUME ~server.from.read_only, Bounded(server.from.read),
                    NEW f \in _filter_listing(page)
             PROVE  f \in UrlIds(server.from.read)
  BY DEF Search, NamesWithinReach
<1>1. server.policy = policy_from_env(server.from)
  BY NotReadOnly DEF Search
<1>2. allows(scope_from_env(server.from.read), f)
  BY <1>1 DEF _filter_listing, policy_from_env
<1> QED
  BY <1>2, BoundedScope

\* The lists bound what the server names, so no sequence of searches, reads,
\* copies and changes enumerates the files that they leave out.
THEOREM ListsBoundNames == Spec => []NamesWithinReach
<1>1. Init => NamesWithinReach
  BY DEF Init, NamesWithinReach
<1>2. Faithful /\ NamesWithinReach /\ [Next]_vars => NamesWithinReach'
  <2> SUFFICES ASSUME Faithful, NamesWithinReach, [Next]_vars
               PROVE  NamesWithinReach'
    OBVIOUS
  <2>1. CASE known' = {}
    BY <2>1 DEF NamesWithinReach
  <2>2. CASE \E m \in READS_FILE \cup Changes \cup Ungated, f \in files, action \in BOOLEAN :
               Call(m, f, action)
    BY <2>2, NamedCall
  <2>3. CASE \E m \in Creates, f \in files \cup {NoFile}, new \in NewFiles \ files :
               Create(m, f, new)
    BY <2>3 DEF Create, NamesWithinReach
  <2>4. CASE \E page \in SUBSET files : Search(page)
    BY <2>4, FilteredSearch
  <2>5. CASE UNCHANGED vars
    BY <2>5 DEF vars, NamesWithinReach
  <2> QED
    BY <2>1, <2>2, <2>3, <2>4, <2>5 DEF Next, Start, Stop
<1> QED
  BY <1>1, <1>2, FaithfulInit, FaithfulNext, PTL DEF Spec

-----------------------------------------------------------------------------
LEMMA GrantsTable ==
  /\ Grants["comment"] = {"comment.create"}
  /\ Grants["reply"] = {"comment.reply", "comment.resolve"}
  /\ Grants["resolved"] = {"comment.resolve"}
  /\ Grants["comment text"] = {"comment.edit"}
  /\ Grants["comment gone"] = {"comment.delete"}
  /\ Grants["content"] = {"content.write", "content.delete"}
  /\ Grants["structure"] = {"content.delete"}
  /\ Grants["name"] = {"file.update"} /\ Grants["place"] = {"file.update"}
  /\ Grants["trashed"] = {"file.trash"}
  /\ Grants["access"] = {"file.share"} /\ Grants["proposals"] = {"file.share"}
  /\ Grants["made"] = {"file.create"}
  BY DEF Grants, Aspect

\* The table of gates against the notes: whatever a change does to a file is
\* granted by the capability that the change costs, raw batches apart.
LEMMA EachEffectIsNoted ==
  ASSUME NEW m \in Changes \ RawBatches, NEW action \in BOOLEAN, NEW aspects \in Effects(m, action) \cup {{}},
         NEW a \in aspects
  PROVE  a \in Aspect \ {"gone"} /\ Capability(m, action) \in Grants[a]
<1> USE DEF CommentEdits, CommentDeletes, ContentWrites, ContentDeletes, Creates, Shares, Ungated,
            RawBatches
<1>1. CASE m \in {"create_comment", "create_cell_anchored_comment"}
  <2>1. Capability(m, action) = "comment.create"
    BY <1>1 DEF Capability
  <2>2. Effects(m, action) \subseteq SUBSET {"comment"}
    BY <1>1 DEF Effects
  <2> QED
    BY <2>1, <2>2, GrantsTable DEF Aspect
<1>2. CASE m = "create_reply"
  <2>1. Capability(m, action) = _reply_gate(action)
    BY <1>2 DEF Capability
  <2>2. Effects(m, action) = {IF action THEN {"reply", "resolved"} ELSE {"reply"}}
    BY <1>2 DEF Effects
  <2> QED
    BY <2>1, <2>2, GrantsTable DEF Aspect, _reply_gate
<1>3. CASE m \in CommentEdits
  <2>1. Capability(m, action) = "comment.edit"
    BY <1>3 DEF Capability
  <2>2. Effects(m, action) \subseteq SUBSET {"comment text"}
    BY <1>3 DEF Effects
  <2> QED
    BY <2>1, <2>2, GrantsTable DEF Aspect
<1>4. CASE m \in CommentDeletes
  <2>1. Capability(m, action) = "comment.delete"
    BY <1>4 DEF Capability
  <2>2. Effects(m, action) \subseteq SUBSET {"comment gone"}
    BY <1>4 DEF Effects
  <2> QED
    BY <2>1, <2>2, GrantsTable DEF Aspect
<1>5. CASE m \in ContentWrites
  <2>1. Capability(m, action) = "content.write"
    BY <1>5 DEF Capability
  <2>2. CASE m = "accept_suggestion"
    <3>1. Effects(m, action) = {{}}
      BY <2>2 DEF Effects
    <3> QED
      BY <3>1
  <2>3. CASE m # "accept_suggestion"
    <3>1. Effects(m, action) \subseteq SUBSET {"content"}
      BY <1>5, <2>3 DEF Effects
    <3>2. a = "content"
      BY <3>1
    <3> QED
      BY <2>1, <3>2, GrantsTable DEF Aspect
  <2> QED
    BY <2>2, <2>3
<1>6. CASE m \in ContentDeletes
  <2>1. Capability(m, action) = "content.delete"
    BY <1>6 DEF Capability
  <2>2. Effects(m, action) \subseteq SUBSET {"structure", "content"}
    BY <1>6 DEF Effects
  <2>3. a \in {"structure", "content"}
    BY <2>2
  <2> QED
    BY <2>1, <2>3, GrantsTable DEF Aspect
<1>7. CASE m = "update_file_metadata"
  <2>1. Capability(m, action) = "file.update"
    BY <1>7 DEF Capability
  <2>2. Effects(m, action) = {{"name"}, {"place"}, {"name", "place"}}
    BY <1>7 DEF Effects
  <2>3. a \in {"name", "place"}
    BY <2>2
  <2> QED
    BY <2>1, <2>3, GrantsTable DEF Aspect
<1>8. CASE m = "trash_file"
  <2>1. Capability(m, action) = "file.trash"
    BY <1>8 DEF Capability
  <2>2. Effects(m, action) \subseteq SUBSET {"trashed"}
    BY <1>8 DEF Effects
  <2> QED
    BY <2>1, <2>2, GrantsTable DEF Aspect
<1>9. CASE m \in Shares
  <2>1. Capability(m, action) = "file.share"
    BY <1>9 DEF Capability
  <2>2. Effects(m, action) \subseteq SUBSET {"access", "proposals"}
    BY <1>9 DEF Effects
  <2> QED
    BY <2>1, <2>2, GrantsTable DEF Aspect
<1> QED
  BY <1>1, <1>2, <1>3, <1>4, <1>5, <1>6, <1>7, <1>8, <1>9 DEF Changes

\* A raw batch writes, destroys structure or renames, and costs content.write.
LEMMA RawBatchEffects ==
  ASSUME NEW m \in RawBatches, NEW action \in BOOLEAN,
         NEW aspects \in Effects(m, action) \cup {{}}, NEW a \in aspects
  PROVE  a \in {"content", "structure", "name"}
<1> USE DEF CommentEdits, CommentDeletes, ContentWrites, RawBatches
<1>1. CASE m = "sheets_batch_update"
  <2>1. Effects(m, action) = {{"content"}, {"structure", "content"}, {"name"}}
    BY <1>1 DEF Effects, ContentDeletes, Shares, Ungated
  <2> QED
    BY <2>1
<1>2. CASE m \in {"docs_batch_update", "slides_batch_update"}
  <2>1. Effects(m, action) = {{"content"}, {"structure", "content"}}
    BY <1>2 DEF Effects, ContentDeletes, Shares, Ungated
  <2> QED
    BY <2>1
<1> QED
  BY <1>1, <1>2

LEMMA RawBatchCost ==
  ASSUME NEW m \in RawBatches, NEW action \in BOOLEAN
  PROVE  m \in ContentWrites /\ Capability(m, action) = "content.write"
  BY DEF RawBatches, ContentWrites, Capability, CommentEdits, CommentDeletes, ContentDeletes, Creates

LEMMA EachEffectIsGranted ==
  ASSUME NEW m \in Changes, NEW action \in BOOLEAN, NEW aspects \in Effects(m, action) \cup {{}},
         NEW a \in aspects
  PROVE  /\ a \in Aspect \ {"gone"} /\ Capability(m, action) \in GrantedBy(a, m)
         /\ m \in RawBatches => a \in {"content", "structure", "name"}
<1>1. CASE m \in RawBatches
  BY <1>1, RawBatchEffects, RawBatchCost DEF GrantedBy, Aspect
<1>2. CASE m \notin RawBatches
  BY <1>2, EachEffectIsNoted DEF GrantedBy
<1> QED
  BY <1>1, <1>2

\* Whatever happens to a file, the running server had a capability that grants it.
LEMMA EachStepIsGranted ==
  ASSUME server.up, NEW d,
         \/ \E m \in READS_FILE \cup Changes \cup Ungated, f \in files, action \in BOOLEAN :
              Call(m, f, action) /\ d \in did'
         \/ \E m \in Creates, f \in files \cup {NoFile}, new \in NewFiles \ files :
              Create(m, f, new) /\ d \in did'
  PROVE  /\ d[2] \in Aspect \ {"gone"}
         /\ server.policy.enabled \cap GrantedBy(d[2], d[3]) # {}
         /\ d[3] \in RawBatches => d[2] \in {"content", "structure", "name"}
<1>1. CASE \E m \in READS_FILE \cup Changes \cup Ungated, f \in files, action \in BOOLEAN :
             Call(m, f, action) /\ d \in did'
  <2> PICK m \in READS_FILE \cup Changes \cup Ungated, f \in files, action \in BOOLEAN :
        Call(m, f, action) /\ d \in did'
    BY <1>1
  <2> PICK aspects \in Effects(m, action) \cup {{}} : did' = {f} \X aspects \X {m}
    BY DEF Call
  <2>1. d[2] \in aspects /\ d[3] = m /\ aspects # {}
    OBVIOUS
  <2>2. guarded(m, f, action)
    BY DEF Call
  <2>3. m \in Changes /\ Capability(m, action) \in server.policy.enabled
    BY <2>1, <2>2, OnlyChangesHaveEffects DEF guarded
  <2> QED
    BY <2>1, <2>3, EachEffectIsGranted
<1>2. CASE \E m \in Creates, f \in files \cup {NoFile}, new \in NewFiles \ files :
             Create(m, f, new) /\ d \in did'
  <2> PICK m \in Creates, f \in files \cup {NoFile}, new \in NewFiles \ files :
        Create(m, f, new) /\ d \in did'
    BY <1>2
  <2>1. d[2] = "made" /\ d[3] = m /\ m \notin RawBatches
    BY DEF Create, Creates, RawBatches
  <2>2. guarded(m, f, FALSE)
    BY DEF Create
  <2>3. Capability(m, FALSE) \in server.policy.enabled
    BY <2>2 DEF guarded
  <2>4. Capability(m, FALSE) = "file.create"
    BY DEF Capability, CommentEdits, CommentDeletes, ContentWrites, ContentDeletes, Creates
  <2> QED
    BY <2>1, <2>3, <2>4, GrantsTable DEF Aspect, GrantedBy
<1> QED
  BY <1>1, <1>2

-----------------------------------------------------------------------------
LEMMA ExplicitIsGranted ==
  ASSUME Faithful, server.up, server.from.explicit, NEW a \in Aspect \ {"gone"},
         NEW m, server.policy.enabled \cap GrantedBy(a, m) # {}
  PROVE  \/ server.from.capabilities \cap {"default", "all"} # {} /\ a # "gone"
         \/ server.from.capabilities \cap GrantedBy(a, m) # {}
<1>1. server.policy.enabled = Explicit(server.from.capabilities)
  BY NotReadOnly DEF policy_from_env, Enabled
<1> QED
  BY <1>1 DEF Explicit

\* The explicit list is the complete list of the mutations of its server: no call
\* changes an aspect of a file that no entry of the list grants, where content.write
\* grants all that a raw batch may ask for, deletions among it
\* (mcp/_config.py:282-300, documents/sheet.py:337-340, documents/doc.py:199-201).
THEOREM ExplicitListIsComplete == Spec => []WithinTheText
<1>1. Init => WithinTheText
  BY DEF Init, WithinTheText
<1>2. Faithful /\ WithinTheText /\ [Next]_vars => WithinTheText'
  <2> SUFFICES ASSUME Faithful, WithinTheText, [Next]_vars
               PROVE  WithinTheText'
    OBVIOUS
  <2>1. CASE did' = {}
    BY <2>1 DEF WithinTheText
  <2>2. CASE UNCHANGED vars
    BY <2>2 DEF vars, WithinTheText
  <2>3. CASE \/ \E m \in READS_FILE \cup Changes \cup Ungated, f \in files, action \in BOOLEAN :
                  Call(m, f, action)
             \/ \E m \in Creates, f \in files \cup {NoFile}, new \in NewFiles \ files :
                  Create(m, f, new)
    <3>1. server.up /\ UNCHANGED server
      BY <2>3 DEF Call, Create
    <3> SUFFICES ASSUME server.from.explicit, NEW d \in did'
                 PROVE  \/ server.from.capabilities \cap {"default", "all"} # {} /\ d[2] # "gone"
                        \/ server.from.capabilities \cap GrantedBy(d[2], d[3]) # {}
      BY <3>1 DEF WithinTheText
    <3>2. /\ d[2] \in Aspect \ {"gone"}
          /\ server.policy.enabled \cap GrantedBy(d[2], d[3]) # {}
          /\ d[3] \in RawBatches => d[2] \in {"content", "structure", "name"}
      BY <2>3, <3>1, EachStepIsGranted
    <3> QED
      BY <3>1, <3>2, ExplicitIsGranted
  <2> QED
    BY <2>1, <2>2, <2>3 DEF Next, Start, Stop, Search
<1> QED
  BY <1>1, <1>2, FaithfulInit, FaithfulNext, PTL DEF Spec

-----------------------------------------------------------------------------
\* A profile's capabilities grant what the role of its name may do, and no more.
LEMMA CommenterGrants ==
  ASSUME NEW a \in Aspect \ {"gone"}, Talk \cap Grants[a] # {}
  PROVE  a \in Commenting
  BY GrantsTable DEF Aspect, Talk, Commenting

LEMMA WriterGrants ==
  ASSUME NEW a \in Aspect \ {"gone"}, Work \cap Grants[a] # {}
  PROVE  a \in Writing
  BY GrantsTable DEF Aspect, Talk, Work, Commenting, Writing

LEMMA OrganizerOfFilesGrants ==
  ASSUME NEW a \in Aspect \ {"gone"},
         (Work \cup {"comment.edit", "comment.delete", "content.delete"}) \cap Grants[a] # {}
  PROVE  a \in Writing \cup {"comment text", "comment gone", "structure"}
  BY GrantsTable DEF Aspect, Talk, Work, Commenting, Writing

LEMMA ProfileGrants ==
  ASSUME NEW p \in Spellings, NEW a \in Aspect \ {"gone"},
         PROFILES[resolve_profile(p)] \cap Grants[a] # {}
  PROVE  a \in RoleOf[p]
<1>1. p \in {"reader", "commenter", "writer", "fileOrganizer", "organizer", "editor", "full"}
  BY DEF Spellings, PROFILES, PROFILE_ALIASES
<1>2. CASE p = "reader"
  BY <1>2 DEF PROFILES, resolve_profile
<1>3. CASE p = "commenter"
  <2>1. PROFILES[resolve_profile(p)] = Talk /\ RoleOf[p] = Commenting
    BY <1>3 DEF PROFILES, resolve_profile, RoleOf
  <2> QED
    BY <2>1, CommenterGrants
<1>4. CASE p \in {"writer", "editor"}
  <2>1. resolve_profile(p) = "writer"
    BY <1>4 DEF PROFILES, PROFILE_ALIASES, resolve_profile
  <2>2. PROFILES["writer"] = Work
    BY DEF PROFILES
  <2>3. RoleOf["writer"] = Writing /\ RoleOf["editor"] = Writing
    BY DEF RoleOf
  <2> QED
    BY <1>4, <2>1, <2>2, <2>3, WriterGrants
<1>5. CASE p = "fileOrganizer"
  <2>1. resolve_profile(p) = p
    BY <1>5 DEF PROFILES, resolve_profile
  <2>2. PROFILES["fileOrganizer"]
          = Work \cup {"comment.edit", "comment.delete", "content.delete"}
    BY DEF PROFILES
  <2>3. RoleOf["fileOrganizer"] = Writing \cup {"comment text", "comment gone", "structure"}
    BY DEF RoleOf
  <2> QED
    BY <1>5, <2>1, <2>2, <2>3, OrganizerOfFilesGrants
<1>6. CASE p \in {"organizer", "full"}
  <2>1. RoleOf["organizer"] = Aspect \ {"gone"} /\ RoleOf["full"] = Aspect \ {"gone"}
    BY DEF RoleOf
  <2> QED
    BY <1>6, <2>1
<1> QED
  BY <1>1, <1>2, <1>3, <1>4, <1>5, <1>6

\* A profile with content.write is one whose role writes and renames.
LEMMA EditorsRole ==
  ASSUME NEW p \in Spellings, "content.write" \in PROFILES[resolve_profile(p)]
  PROVE  "content" \in RoleOf[p] /\ "name" \in RoleOf[p]
<1>1. p \in {"reader", "commenter", "writer", "fileOrganizer", "organizer", "editor", "full"}
  BY DEF Spellings, PROFILES, PROFILE_ALIASES
<1>2. p \notin {"reader", "commenter"}
  BY DEF PROFILES, resolve_profile, Talk
<1>3. /\ RoleOf["writer"] = Writing /\ RoleOf["editor"] = Writing
      /\ RoleOf["fileOrganizer"] = Writing \cup {"comment text", "comment gone", "structure"}
      /\ RoleOf["organizer"] = Aspect \ {"gone"} /\ RoleOf["full"] = Aspect \ {"gone"}
  BY DEF RoleOf
<1> QED
  BY <1>1, <1>2, <1>3 DEF Writing, Aspect

LEMMA EnabledByProfile ==
  ASSUME NEW e, ~e.explicit, e.profile # NoProfile
  PROVE  Enabled(e) = PROFILES[resolve_profile(e.profile)]
  BY DEF Enabled

\* A profile is a ceiling: its server does nothing that the comments of the profiles
\* do not let it do, but for the structure that a raw batch of a profile that may
\* write content deletes (policy.py:202-250, documents/sheet.py:337-340).
THEOREM ProfileIsACeiling == Spec => []RoleCeiling
<1>1. Init => RoleCeiling
  BY DEF Init, RoleCeiling
<1>2. Faithful /\ RoleCeiling /\ [Next]_vars => RoleCeiling'
  <2> SUFFICES ASSUME Faithful, RoleCeiling, [Next]_vars
               PROVE  RoleCeiling'
    OBVIOUS
  <2>1. CASE did' = {}
    BY <2>1 DEF RoleCeiling
  <2>2. CASE UNCHANGED vars
    BY <2>2 DEF vars, RoleCeiling
  <2>3. CASE \/ \E m \in READS_FILE \cup Changes \cup Ungated, f \in files, action \in BOOLEAN :
                  Call(m, f, action)
             \/ \E m \in Creates, f \in files \cup {NoFile}, new \in NewFiles \ files :
                  Create(m, f, new)
    <3>1. server.up /\ UNCHANGED server
      BY <2>3 DEF Call, Create
    <3> SUFFICES ASSUME server.from.profile # NoProfile, ~server.from.explicit, NEW d \in did'
                 PROVE  \/ d[2] \in RoleOf[server.from.profile]
                        \/ /\ d[2] = "structure" /\ d[3] \in RawBatches
                           /\ "content" \in RoleOf[server.from.profile]
      BY <3>1 DEF RoleCeiling
    <3>2. /\ d[2] \in Aspect \ {"gone"}
          /\ server.policy.enabled \cap GrantedBy(d[2], d[3]) # {}
          /\ d[3] \in RawBatches => d[2] \in {"content", "structure", "name"}
      BY <2>3, <3>1, EachStepIsGranted
    <3>3. Starts(server.from) /\ server.policy = policy_from_env(server.from)
      BY <3>1, <3>2, NotReadOnly DEF Faithful
    <3>4. server.from.profile \in Spellings
      BY <3>3 DEF Starts
    <3>5. server.policy.enabled = Enabled(server.from)
      BY <3>3 DEF policy_from_env
    <3>6. Enabled(server.from) = PROFILES[resolve_profile(server.from.profile)]
      BY EnabledByProfile
    <3>7. CASE server.policy.enabled \cap Grants[d[2]] # {}
      BY <3>2, <3>4, <3>5, <3>6, <3>7, ProfileGrants
    <3>8. CASE d[3] \in RawBatches /\ "content.write" \in server.policy.enabled
      <4>1. "content" \in RoleOf[server.from.profile] /\ "name" \in RoleOf[server.from.profile]
        BY <3>4, <3>5, <3>6, <3>8, EditorsRole
      <4> QED
        BY <3>2, <3>8, <4>1
    <3> QED
      BY <3>2, <3>7, <3>8 DEF GrantedBy
  <2> QED
    BY <2>1, <2>2, <2>3 DEF Next, Start, Stop, Search
<1> QED
  BY <1>1, <1>2, FaithfulInit, FaithfulNext, PTL DEF Spec

-----------------------------------------------------------------------------
LEMMA ProfilesAreCapabilities ==
  ASSUME NEW p \in Spellings
  PROVE  PROFILES[resolve_profile(p)] \subseteq ALL_CAPABILITIES
<1>1. resolve_profile(p) \in {"reader", "commenter", "writer", "fileOrganizer", "organizer"}
  BY DEF Spellings, PROFILES, PROFILE_ALIASES, resolve_profile
<1>2. \A q \in {"reader", "commenter", "writer", "fileOrganizer", "organizer"} :
        PROFILES[q] \subseteq ALL_CAPABILITIES
  BY DEF PROFILES, Talk, Work, ALL_CAPABILITIES
<1> QED
  BY <1>1, <1>2

LEMMA EnabledType ==
  ASSUME NEW e, Starts(e)
  PROVE  Enabled(e) \subseteq ALL_CAPABILITIES
<1>1. CASE e.explicit
  BY <1>1 DEF Enabled, Explicit
<1>2. CASE ~e.explicit /\ e.profile # NoProfile
  <2>1. e.profile \in Spellings
    BY <1>2 DEF Starts
  <2> QED
    BY <1>2, <2>1, EnabledByProfile, ProfilesAreCapabilities
<1>3. CASE ~e.explicit /\ e.profile = NoProfile
  BY <1>3 DEF Enabled
<1> QED
  BY <1>1, <1>2, <1>3

LEMMA ScopeType ==
  ASSUME NEW lines \in SUBSET Line
  PROVE  scope_from_env(lines) \in Scope
<1>1. UrlIds(lines) \subseteq Ids
  BY DEF UrlIds, Line
<1> QED
  BY <1>1 DEF scope_from_env, everything, Scope

LEMMA PolicyType ==
  ASSUME NEW e \in Environments, Starts(e)
  PROVE  effective(e) \in Policy
<1>1. CASE e.read_only
  BY <1>1 DEF effective, Policy, everything, Scope
<1>2. CASE ~e.read_only
  <2>1. e.read \in SUBSET Line /\ e.modify \in SUBSET Line
    BY EnvironmentAssumption DEF Setting
  <2>2. policy_from_env(e) \in Policy
    BY <2>1, EnabledType, ScopeType DEF policy_from_env, Policy
  <2> QED
    BY <1>2, <2>2 DEF effective
<1> QED
  BY <1>1, <1>2

LEMMA DownType == Down.up = FALSE /\ Down.policy \in Policy
  BY DEF Down, Policy, Scope, everything

LEMMA TypedCall ==
  ASSUME TypeOK, NEW m \in READS_FILE \cup Changes \cup Ungated, NEW f \in files,
         NEW action \in BOOLEAN, Call(m, f, action)
  PROVE  TypeOK'
<1> PICK aspects \in Effects(m, action) \cup {{}} : did' = {f} \X aspects \X {m}
  BY DEF Call
<1>1. aspects \subseteq Aspect /\ (aspects # {} => m \in Changes)
  <2>1. CASE aspects = {}
    BY <2>1
  <2>2. CASE aspects # {}
    <3>1. m \in Changes
      BY <2>2, OnlyChangesHaveEffects DEF Call, guarded
    <3> QED
      BY <3>1, EachEffectIsGranted
  <2> QED
    BY <2>1, <2>2
<1>2. known' \subseteq files
  BY DEF Call, TypeOK
<1> QED
  BY <1>1, <1>2 DEF Call, TypeOK

\* The variables keep their types: in particular what a server enforces is a
\* policy, whatever was written in its environment.
THEOREM TypeCorrect == Spec => []TypeOK
<1>1. Init => TypeOK
  BY DownType DEF Init, TypeOK, Ids
<1>2. TypeOK /\ [Next]_vars => TypeOK'
  <2> SUFFICES ASSUME TypeOK, [Next]_vars
               PROVE  TypeOK'
    OBVIOUS
  <2>1. ASSUME NEW e \in Environments, Start(e)
        PROVE  TypeOK'
    <3>1. effective(e) \in Policy
      BY <2>1, PolicyType DEF Start
    <3>2. server'.up = TRUE /\ server'.policy = effective(e)
      BY <2>1 DEF Start
    <3> QED
      BY <2>1, <3>1, <3>2 DEF Start, TypeOK
  <2>2. CASE Stop
    BY <2>2, DownType DEF Stop, TypeOK
  <2>3. CASE \E m \in READS_FILE \cup Changes \cup Ungated, f \in files, action \in BOOLEAN :
               Call(m, f, action)
    BY <2>3, TypedCall
  <2>4. ASSUME NEW m \in Creates, NEW f \in files \cup {NoFile}, NEW new \in NewFiles \ files,
               Create(m, f, new)
        PROVE  TypeOK'
    <3>1. "made" \in Aspect /\ new \in Ids
      BY DEF Aspect, Ids
    <3>2. files' \subseteq Ids /\ made' \subseteq files' /\ known' \subseteq files'
      BY <2>4, <3>1 DEF Create, TypeOK
    <3>3. did' \subseteq files' \X Aspect \X (Changes \cup Creates)
      BY <2>4, <3>1 DEF Create
    <3> QED
      BY <2>4, <3>2, <3>3 DEF Create, TypeOK
  <2>5. CASE \E page \in SUBSET files : Search(page)
    BY <2>5 DEF Search, TypeOK, _filter_listing
  <2>6. CASE UNCHANGED vars
    BY <2>6 DEF vars, TypeOK
  <2> QED
    BY <2>1, <2>2, <2>3, <2>4, <2>5, <2>6 DEF Next
<1> QED
  BY <1>1, <1>2, PTL DEF Spec
=============================================================================
