---------------------- MODULE ApplyRegisterProperties ----------------------
(***************************************************************************)
(* What applying a register may and may not do: the invariants, the action *)
(* properties and the promise it refines.                                  *)
(***************************************************************************)
EXTENDS ApplyRegister

\* The variables stay in their ranges: document, register file, run, bounds.
DocumentOK == /\ threads \in [Threads -> [resolved : BOOLEAN, deleted : BOOLEAN]]
              /\ replies \subseteq Reply /\ nextId \in Nat
RegisterOK == sheet \in [RowIds -> Request] /\ ticked \in [RowIds -> SUBSET Ticks]
LoopOK == /\ pc \in {"idle", "list", "row", "resolve", "write"} /\ cur \in RowIds
          /\ mode \in BOOLEAN \X BOOLEAN
          /\ rows \in [RowIds -> Request] /\ ticks \in [RowIds -> SUBSET Ticks]
          /\ report \in [RowIds -> Result]
ListingOK == /\ comments \in [Threads -> [listed : BOOLEAN, resolved : BOOLEAN, deleted : BOOLEAN]]
             /\ seen \subseteq Reply /\ missing \subseteq RowIds
BoundsOK == faults \in 0 .. MaxFaults /\ edits \in 0 .. MaxEdits
TypeOK == DocumentOK /\ RegisterOK /\ LoopOK /\ ListingOK /\ BoundsOK

\* No register asks twice for the same words on the same thread.
SameWords(p, q) == p.thread_id = q.thread_id /\ p.reply_comment = q.reply_comment
                   /\ p.reply_comment # NoText
AsksOnce(reg) == \A i, j \in RowIds : SameWords(reg[i], reg[j]) => i = j

\* A reply is posted at most once: over crashes, lost answers, failed saves and any number
\* of re-runs, no thread carries two live copies of it (force aside).
NoDoublePost ==
  \A r, s \in replies :
    /\ r.by = "run" /\ s.by = "run" /\ ~r.deleted /\ ~s.deleted
    /\ r.thread = s.thread /\ r.text = s.text
    => r = s

\* Why NoDoublePost holds: ids are given out once, a deleted thread keeps no live reply,
\* and between the listing and the last row every live reply of the runs is either in the
\* listing or was posted, answer lost, by an earlier row of this run.
IdsFresh == /\ \A r \in replies : r.id < nextId
            /\ \A r, s \in replies : r.id = s.id => r = s
DeadThreadsAreSilent == \A r \in replies : threads[r.thread].deleted => r.deleted
Behind(j) == j < cur \/ (j = cur /\ pc = "resolve")
ListingCovers ==
  pc \in {"row", "resolve"} =>
    \A r \in replies : r.by = "run" /\ ~r.deleted =>
      \/ r \in seen
      \/ \E j \in RowIds : Behind(j) /\ rows[j].thread_id = r.thread /\ rows[j].reply_comment = r.text
PostInv == /\ IdsFresh /\ DeadThreadsAreSilent /\ ListingCovers
           /\ AsksOnce(sheet) /\ AsksOnce(rows) /\ NoDoublePost

\* What row asks for in its reply and delete columns has been brought about.
Said(row) == \E r \in replies : r.thread = row.thread_id /\ r.text = row.reply_comment /\ Mine(r)
Removed(row) == IF IsReplyRow(row)
                THEN \E r \in replies : r.thread = row.reply_to /\ r.id = row.thread_id /\ r.deleted
                ELSE Tombstone(row.thread_id)

\* A marker is never set for work that was not done: on disk a ticked reply is (or was) on
\* its thread and a ticked deletion has happened, so skipping the row loses nothing.
MarkerSound ==
  \A i \in RowIds : /\ "reply" \in ticked[i] => Said(sheet[i])
                    /\ "delete" \in ticked[i] => Removed(sheet[i])

Over(i) == pc # "idle" /\ (i < cur \/ pc = "write")

\* A row of a real run that is not reported as failed has its words on the thread and its
\* deletion made, whichever branch it took: sent now, found on the document, or ticked.
SuccessMeansDone ==
  \A i \in RowIds :
    apply /\ Over(i) /\ ~report[i].failed =>
      /\ ~IsReplyRow(rows[i]) /\ rows[i].reply_comment # NoText => Said(rows[i])
      /\ WantsDelete(rows[i]) => Removed(rows[i])

\* A flag of the report stands for a call that took effect, also on a row that failed later,
\* and a reply that landed is ticked even if resolving then failed.
ReportHonest ==
  \A i \in RowIds :
    apply =>
      /\ report[i].replied \/ report[i].resolved \/ report[i].reopened \/ report[i].deleted
         => report[i].landed
      /\ report[i].failed /\ report[i].replied => "reply" \in ticks[i]

\* A row whose deletion has been made counts towards the warning "this register is of
\* another document" only if looking its tombstone up failed: re-running a register of
\* deletions is not by itself taken for a mix-up of files (_apply.py:396-411, #164).
NoFalseAlarm ==
  Cardinality({i \in missing : ~IsReplyRow(rows[i]) /\ WantsDelete(rows[i])
                                /\ rows[i].thread_id \in Threads}) <= faults

\* A step of the run, as opposed to one of the people around it.
Tool == pc # "idle" /\ edits' = edits

\* A dry run changes neither the document nor the register.
DryRunPure == [][Tool /\ ~apply => UNCHANGED <<document, register>>]_vars

\* The run closes or reopens only the thread of its current row, the way the row says, and
\* never before the answer that the row gives has been posted there.
AnswerBeforeClosing ==
  [][Tool => \A t \in Threads : threads'[t].resolved # threads[t].resolved =>
       /\ ~IsReplyRow(Row) /\ Row.thread_id = t /\ ~WantsDelete(Row)
       /\ decision(Row.resolve_comment) = IF threads'[t].resolved THEN "act" ELSE "reverse"
       /\ Row.reply_comment # NoText => Said(Row)]_vars

\* The run deletes what the current row names and nothing else: a reply row removes that
\* reply and leaves the thread and the other people's replies alone.
NoCollateralDeletion ==
  [][Tool =>
       /\ \A t \in Threads : threads'[t].deleted # threads[t].deleted =>
            ~IsReplyRow(Row) /\ WantsDelete(Row) /\ ~WantsTalk(Row) /\ Row.thread_id = t
       /\ \A r \in replies : r \notin replies' =>
            /\ WantsDelete(Row) /\ ~WantsTalk(Row)
            /\ r.thread = IF IsReplyRow(Row) THEN Row.reply_to ELSE Row.thread_id
            /\ IsReplyRow(Row) => r.id = Row.thread_id]_vars

\* The runs implement the promise: at most one live copy, none on a deleted thread.
LiveCopies(t, x) == {r \in replies : r.thread = t /\ r.text = x /\ r.by = "run" /\ ~r.deleted}
Promise == INSTANCE RegisterPromise WITH
  copies <- [q \in Threads \X Texts |-> {r.id : r \in LiveCopies(q[1], q[2])}],
  gone <- {t \in Threads : threads[t].deleted}
KeepsPromise == Promise!Spec

-----------------------------------------------------------------------------
(* Liveness.                                                               *)

Asked(row) == (IF row.reply_comment # NoText THEN {"reply"} ELSE {})
              \cup (IF decision(row.resolve_comment) # "none" THEN {"resolve"} ELSE {})
              \cup (IF WantsDelete(row) THEN {"delete"} ELSE {})
Possible(row) ==
  /\ ~Malformed(row)
  /\ IF IsReplyRow(row) THEN LiveThread(row.reply_to) /\ \E r \in replies :
                               r.thread = row.reply_to /\ r.id = row.thread_id
     ELSE row.thread_id \in Threads /\ (WantsDelete(row) \/ LiveThread(row.thread_id))

\* Once failures and edits stop, re-running the register completes it: every row that can
\* be carried out ends up with all its markers on disk.
Converges == <>[](\A i \in RowIds : Possible(sheet[i]) => Asked(sheet[i]) \subseteq ticked[i])

-----------------------------------------------------------------------------
(* As the runs check them. *)

\* What a report says of a row is so: a row that did not fail is done, and a flag stands
\* for a call that took effect (_apply.py:380-395, 449-520).
ReportIsTrue == SuccessMeansDone /\ ReportHonest

\* A run changes what the row it is at asks for and nothing else, in the order that the
\* row's reader expects, and a dry run nothing at all (_apply.py:413-520).
ActsByItsRow == DryRunPure /\ AnswerBeforeClosing /\ NoCollateralDeletion
=============================================================================
