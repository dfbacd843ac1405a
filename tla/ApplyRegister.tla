--------------------------- MODULE ApplyRegister ---------------------------
(***************************************************************************)
(* The tool apply_comment_actions: a filled-in comment register (a         *)
(* spreadsheet) is applied row by row to a document that other people are  *)
(* editing.  The run lives in memory; what outlives it is the document and *)
(* the register file with its completed markers, which are written once,   *)
(* after the last row.  A run may die at any step, a write may be refused  *)
(* or may land although the answer is lost, and the same register is then  *)
(* simply applied again.                                                   *)
(***************************************************************************)
EXTENDS Naturals, FiniteSets

CONSTANTS
  Threads,        \* comment threads of the document
  Foreign,        \* a thread_id that is on no thread of this document
  NoThread,       \* blank reply_to cell: the row is a thread's own row
  Texts, NoText,  \* reply texts; the blank reply_comment cell
  NRows,          \* rows of the register
  Registers,      \* the registers somebody may have filled in
  OldReplies,     \* replies on the document before the first run
  FirstId,        \* the first reply id no old reply has
  Suffix,         \* ".csv" or ".xlsx"
  LocalWrite,     \* CSA_GW_LOCAL_WRITE
  Granted,        \* comment capabilities of the policy: "reply", "resolve", "delete"
  ListsTombstones,\* does a listing carry the deleted replies of a live thread
  Modes,          \* the <<apply, force>> arguments people pass
  Humans,         \* what people do meanwhile, see Human below
  MaxFaults,      \* bound on failed calls, lost answers, failed saves, crashes
  MaxEdits        \* bound on the steps of people, forced runs included

RowIds == 1 .. NRows
\* What a decision column may hold; "empty" is a cell with nothing in it.
Cells == {"TRUE", "FALSE", "empty", "maybe later"}
Ticks == {"reply", "resolve", "delete"}
Request == [thread_id : Threads \cup {Foreign} \cup Nat, reply_to : Threads \cup {NoThread},
            reply_comment : Texts \cup {NoText}, resolve_comment : Cells, delete_comment : Cells]
Reply == [id : Nat, thread : Threads, text : Texts, by : {"run", "forced", "me", "other"},
          deleted : BOOLEAN]
Result == [replied : BOOLEAN, resolved : BOOLEAN, reopened : BOOLEAN, deleted : BOOLEAN,
           failed : BOOLEAN, landed : BOOLEAN]   \* landed is history: a call of the row took effect

ASSUME RegisterAssumption ==
  /\ NRows \in Nat \ {0}
  /\ Registers \subseteq [RowIds -> Request]
  /\ OldReplies \subseteq [id : Nat, thread : Threads, text : Texts, by : {"me", "other"},
                           deleted : {FALSE}]
  /\ \A r, s \in OldReplies : r.id = s.id => r = s
  /\ FirstId \in Nat /\ \A r \in OldReplies : r.id < FirstId
  /\ Foreign \notin Threads /\ NoThread \notin Threads /\ NoText \notin Texts
  /\ Threads \cap Nat = {}
  /\ Suffix \in {".csv", ".xlsx"} /\ LocalWrite \in BOOLEAN /\ ListsTombstones \in BOOLEAN
  /\ Granted \subseteq Ticks /\ Modes \subseteq BOOLEAN \X BOOLEAN
  /\ MaxFaults \in Nat /\ MaxEdits \in Nat

VARIABLES
  threads,        \* the document: is each thread resolved, is it deleted
  replies,        \* the document: every reply ever posted
  nextId,         \* the id Drive gives the next reply
  sheet, ticked,  \* the register file: its cells and its completed markers
  pc, cur,        \* the run: its step and the row it is at
  mode,           \* the run: <<apply, force>>
  rows, ticks,    \* the run: the register as read, and the markers set so far
  comments, seen, \* the run: the threads and the replies as listed at its start
  report,         \* the run: the result of each row
  missing,        \* the run: rows that name no thread of the listing
  faults, edits   \* how much of MaxFaults and of MaxEdits is used

document == <<threads, replies, nextId>>
register == <<sheet, ticked>>
memory == <<mode, rows, ticks, comments, seen, report, missing>>
bounds == <<faults, edits>>
vars == <<document, register, pc, cur, memory, bounds>>

apply == mode[1]
force == mode[2]

-----------------------------------------------------------------------------
(* Reading one row.                                                        *)

\* The three-state decision columns; "unreadable" is Python's None.
decision(cell) == CASE cell = "TRUE" -> "act"
                    [] cell = "FALSE" -> "reverse"
                    [] cell = "empty" -> "none"
                    [] OTHER -> "unreadable"

IsReplyRow(row) == row.reply_to # NoThread
WantsDelete(row) == decision(row.delete_comment) = "act"
WantsTalk(row) == row.reply_comment # NoText \/ decision(row.resolve_comment) # "none"

\* Rows with nothing to do, told apart before their validity is looked at.
Idle(row) == ~WantsTalk(row) /\ decision(row.delete_comment) = "none"


\* The refusals that do not depend on the document.
Malformed(row) ==
  /\ ~Idle(row)
  /\ \/ decision(row.delete_comment) \in {"unreadable", "reverse"}
     \/ ~IsReplyRow(row) /\ decision(row.resolve_comment) = "unreadable"
     \/ (IsReplyRow(row) \/ WantsDelete(row)) /\ WantsTalk(row)

Mine(r) == r.by # "other"

\* Mutant: the marker alone is trusted.
mine_already_said_never(known, t, x) == FALSE

\* A deleted reply has lost its text and its author, so it says nothing.
mine_already_said(known, t, x) ==
  \E r \in known : r.thread = t /\ r.text = x /\ Mine(r) /\ ~r.deleted

find_reply(t, id) == {r \in seen : r.thread = t /\ r.id = id}

Listed(t) == t \in Threads /\ comments[t].listed

NothingListed == [t \in Threads |-> [listed |-> FALSE, resolved |-> FALSE, deleted |-> FALSE]]
NothingRead == [i \in RowIds |-> [thread_id |-> Foreign, reply_to |-> NoThread,
                 reply_comment |-> NoText, resolve_comment |-> "empty", delete_comment |-> "empty"]]
NothingTicked == [i \in RowIds |-> {}]
Blank == [replied |-> FALSE, resolved |-> FALSE, reopened |-> FALSE, deleted |-> FALSE,
          failed |-> FALSE, landed |-> FALSE]
\* A row that failed, and one that deleted or replied (or, in a dry run, would have).
Failed(landed) == [Blank EXCEPT !.failed = TRUE, !.landed = landed]
Deleted(landed) == [Blank EXCEPT !.deleted = TRUE, !.landed = landed]
Replied(landed) == [Blank EXCEPT !.replied = TRUE, !.landed = landed]
NothingReported == [i \in RowIds |-> Blank]

Init ==
  /\ threads \in [Threads -> [resolved : BOOLEAN, deleted : {FALSE}]]
  /\ replies = OldReplies /\ nextId = FirstId
  /\ sheet \in Registers /\ ticked = NothingTicked
  /\ pc = "idle" /\ cur = 1 /\ mode = <<FALSE, FALSE>>
  /\ rows = NothingRead /\ ticks = NothingTicked
  /\ comments = NothingListed /\ seen = {}
  /\ report = NothingReported /\ missing = {}
  /\ faults = 0 /\ edits = 0

-----------------------------------------------------------------------------
(* Drive, as the calls of the code use it.                                 *)

Fault == faults < MaxFaults /\ faults' = faults + 1

\* What a write may answer.  No write is sent again after a 5xx, so an error leaves open
\* whether it landed; a call the policy or Drive turns away did not.
Answers(capability, possible) ==
  IF capability \notin Granted \/ ~possible THEN {"denied"}
  ELSE {"ok"} \cup (IF faults < MaxFaults THEN {"refused", "lost"} ELSE {})
Landed(answer) == answer \in {"ok", "lost"}
Charge(answer) == faults' = faults + (IF answer \in {"refused", "lost"} THEN 1 ELSE 0)

LiveThread(t) == t \in Threads /\ ~threads[t].deleted
Posted(t, x, who) == [id |-> nextId, thread |-> t, text |-> x, by |-> who, deleted |-> FALSE]
\* Mutant: deleting a thread leaves its replies.
StripThread_keeps_replies(rs, t) == rs

StripReply(rs, t, id) ==
  {IF r.thread = t /\ r.id = id THEN [r EXCEPT !.deleted = TRUE] ELSE r : r \in rs}
StripThread(rs, t) == {IF r.thread = t THEN [r EXCEPT !.deleted = TRUE] ELSE r : r \in rs}

-----------------------------------------------------------------------------
(* The run: apply_rows, row after row.                                     *)

Row == rows[cur]
Unticked(kind) == kind \notin ticks[cur]

\* Mutant: the loop runs one row too far.
Finish_one_too_far(result, done) ==
  /\ report' = [report EXCEPT ![cur] = result]
  /\ ticks' = [ticks EXCEPT ![cur] = @ \cup done]
  /\ IF cur <= NRows THEN pc' = "row" /\ cur' = cur + 1
                     ELSE pc' = "write" /\ cur' = cur
  /\ UNCHANGED <<mode, rows, register, edits>>

\* The row is over: keep its result and its markers, go to the next row or to the end.
Finish(result, done) ==
  /\ report' = [report EXCEPT ![cur] = result]
  /\ ticks' = [ticks EXCEPT ![cur] = @ \cup done]
  /\ IF cur < NRows THEN pc' = "row" /\ cur' = cur + 1
                    ELSE pc' = "write" /\ cur' = cur
  /\ UNCHANGED <<mode, rows, register, edits>>

Untouched == UNCHANGED <<document, comments, seen, missing, faults>>

Forget ==
  /\ pc' = "idle" /\ cur' = 1 /\ mode' = <<FALSE, FALSE>>
  /\ rows' = NothingRead /\ ticks' = NothingTicked
  /\ comments' = NothingListed /\ seen' = {}
  /\ report' = NothingReported /\ missing' = {}

\* The tool is called: the register is read from disk.
ReadRegister(a, f) ==
  /\ pc = "idle" /\ <<a, f>> \in Modes
  /\ IF f THEN edits < MaxEdits /\ edits' = edits + 1 ELSE edits' = edits
  /\ pc' = "list" /\ mode' = <<a, f>>
  /\ rows' = sheet /\ ticks' = ticked
  /\ UNCHANGED <<document, register, cur, comments, seen, report, missing, faults>>

\* by_id: the one listing every row of the run is judged by.
ListComments ==
  /\ pc = "list" /\ pc' = "row"
  /\ comments' = [t \in Threads |-> [listed |-> LiveThread(t), deleted |-> FALSE,
                                     resolved |-> LiveThread(t) /\ threads[t].resolved]]
  /\ seen' = {r \in replies : LiveThread(r.thread) /\ (r.deleted => ListsTombstones)}
  /\ UNCHANGED <<document, register, cur, mode, rows, ticks, report, missing, bounds>>

NothingRequested ==
  /\ pc = "row" /\ Idle(Row)
  /\ Finish(Blank, {}) /\ Untouched

RefuseRow ==
  /\ pc = "row" /\ Malformed(Row)
  /\ Finish(Failed(FALSE), {}) /\ Untouched

Deletes == pc = "row" /\ WantsDelete(Row) /\ ~Malformed(Row)
DeletesReply == Deletes /\ IsReplyRow(Row)
DeletesThread == Deletes /\ ~IsReplyRow(Row) /\ Listed(Row.thread_id)
Target == find_reply(Row.reply_to, Row.thread_id)

DeleteTicked ==
  /\ DeletesReply \/ DeletesThread
  /\ ~Unticked("delete")
  /\ Finish(Blank, {}) /\ Untouched

NoSuchReply ==
  /\ DeletesReply /\ Unticked("delete") /\ Target = {}
  /\ Finish(Failed(FALSE), {}) /\ Untouched

AlreadyDeleted ==
  /\ Unticked("delete")
  /\ \/ DeletesReply /\ \E r \in Target : r.deleted
     \/ DeletesThread /\ comments[Row.thread_id].deleted
  /\ Finish(Blank, {"delete"}) /\ Untouched

StillThere ==
  /\ Unticked("delete")
  /\ \/ DeletesReply /\ \E r \in Target : ~r.deleted
     \/ DeletesThread /\ ~comments[Row.thread_id].deleted

WouldDelete ==
  /\ StillThere /\ ~apply
  /\ Finish(Deleted(FALSE), {}) /\ Untouched

\* The result of a deletion that was sent: a failed call leaves no flag and no marker.
FinishDelete(answer) ==
  IF answer = "ok" THEN Finish(Deleted(TRUE), {"delete"})
  ELSE Finish(Failed(Landed(answer)), {})

DeleteReply ==
  /\ DeletesReply /\ StillThere /\ apply
  /\ \E r \in replies, again \in BOOLEAN :     \* again: Drive minds a second deletion or not
       /\ r.thread = Row.reply_to /\ r.id = Row.thread_id
       /\ \E answer \in Answers("delete", again \/ ~r.deleted) :
            /\ replies' = IF Landed(answer) THEN StripReply(replies, r.thread, r.id) ELSE replies
            /\ seen' = IF answer = "ok" THEN StripReply(seen, r.thread, r.id) ELSE seen
            /\ Charge(answer) /\ FinishDelete(answer)
  /\ UNCHANGED <<threads, nextId, comments, missing>>

DeleteThread ==
  /\ DeletesThread /\ StillThere /\ apply
  /\ LET t == Row.thread_id IN
     \E again \in BOOLEAN : \E answer \in Answers("delete", again \/ LiveThread(t)) :
       /\ threads' = IF Landed(answer) THEN [threads EXCEPT ![t].deleted = TRUE] ELSE threads
       /\ replies' = IF Landed(answer) THEN StripThread(replies, t) ELSE replies
       /\ comments' = IF answer = "ok" THEN [comments EXCEPT ![t].deleted = TRUE] ELSE comments
       /\ seen' = IF answer = "ok" THEN StripThread(seen, t) ELSE seen
       /\ Charge(answer) /\ FinishDelete(answer)
  /\ UNCHANGED <<nextId, missing>>

\* A thread row with work to do whose thread is not in the listing.
Missing == pc = "row" /\ ~IsReplyRow(Row) /\ ~Idle(Row) /\ ~Malformed(Row) /\ ~Listed(Row.thread_id)
Tombstone(t) == t \in Threads /\ threads[t].deleted

FoundTombstone ==
  /\ Missing /\ WantsDelete(Row) /\ Tombstone(Row.thread_id)
  /\ Finish(Blank, {"delete"}) /\ Untouched

\* Mutant: the row is counted before the deleted threads are looked at.
ReportMissing_before_looking ==
  /\ Missing
  /\ missing' = missing \cup {cur}
  /\ Finish(Failed(FALSE), {})
  /\ UNCHANGED <<document, comments, seen, faults>>

\* No such thread, or the second look failed: any error of it counts as absent.
ReportMissing ==
  /\ Missing
  /\ IF WantsDelete(Row) /\ Tombstone(Row.thread_id) THEN Fault ELSE UNCHANGED faults
  /\ missing' = missing \cup {cur}
  /\ Finish(Failed(FALSE), {})
  /\ UNCHANGED <<document, comments, seen>>

\* A thread row that replies, resolves or reopens: the reply comes first.
Talks == pc = "row" /\ ~IsReplyRow(Row) /\ WantsTalk(Row) /\ ~Malformed(Row) /\ Listed(Row.thread_id)
Replies == Talks /\ Row.reply_comment # NoText

\* Mutant: the reply is ticked only when the row is over.
AfterReply_ticks_late(result, done) ==
  IF decision(Row.resolve_comment) = "none" THEN Finish(result, done)
  ELSE /\ pc' = "resolve" /\ report' = [report EXCEPT ![cur] = result]
       /\ UNCHANGED <<cur, mode, rows, ticks, register, edits>>

AfterReply(result, done) ==
  IF decision(Row.resolve_comment) = "none" THEN Finish(result, done)
  ELSE /\ pc' = "resolve" /\ report' = [report EXCEPT ![cur] = result]
       /\ ticks' = [ticks EXCEPT ![cur] = @ \cup done]
       /\ UNCHANGED <<cur, mode, rows, register, edits>>

ReplyTicked ==
  /\ Replies /\ ~force /\ ~Unticked("reply")
  /\ AfterReply(Blank, {}) /\ Untouched

\* Mutant: a reply found on the thread is skipped and not ticked.
AlreadySaid_unticked ==
  /\ Replies /\ ~force /\ Unticked("reply")
  /\ mine_already_said(seen, Row.thread_id, Row.reply_comment)
  /\ AfterReply(Blank, {}) /\ Untouched

AlreadySaid ==
  /\ Replies /\ ~force /\ Unticked("reply")
  /\ mine_already_said(seen, Row.thread_id, Row.reply_comment)
  /\ AfterReply(Blank, {"reply"}) /\ Untouched

\* Mutant: the marker is the only evidence.
StillToSay_by_marker == Replies /\ (force \/ Unticked("reply"))

StillToSay ==
  /\ Replies
  /\ force \/ (Unticked("reply") /\ ~mine_already_said(seen, Row.thread_id, Row.reply_comment))

WouldReply ==
  /\ StillToSay /\ ~apply
  /\ AfterReply(Replied(FALSE), {}) /\ Untouched

\* The call raised: the row is over and its resolve is not tried.
ReplyFailed(answer) == Finish(Failed(Landed(answer)), {})

PostReply ==
  /\ StillToSay /\ apply
  /\ LET new == Posted(Row.thread_id, Row.reply_comment, IF force THEN "forced" ELSE "run") IN
     \E answer \in Answers("reply", LiveThread(Row.thread_id)) :
       /\ IF Landed(answer) THEN replies' = replies \cup {new} /\ nextId' = nextId + 1
                            ELSE UNCHANGED <<replies, nextId>>
       /\ seen' = IF answer = "ok" THEN seen \cup {new} ELSE seen
       /\ Charge(answer)
       /\ IF answer = "ok"
          THEN AfterReply(Replied(TRUE), {"reply"})
          ELSE ReplyFailed(answer)
  /\ UNCHANGED <<threads, comments, missing>>

\* Mutant: a row may settle its thread before it has replied.
Settles_before_reply == pc = "resolve" \/ Talks
Settles == pc = "resolve" \/ (Talks /\ Row.reply_comment = NoText)
Wanted == decision(Row.resolve_comment) = "act"     \* TRUE resolves, FALSE reopens
IsSettled == comments[Row.thread_id].resolved = Wanted

AlreadySettled ==
  /\ Settles /\ IsSettled
  /\ Finish(report[cur], {"resolve"}) /\ Untouched

\* Only resolving looks at the marker.
ResolveTicked ==
  /\ Settles /\ ~IsSettled /\ Wanted /\ ~Unticked("resolve")
  /\ Finish(report[cur], {}) /\ Untouched

StillToSettle == Settles /\ ~IsSettled /\ (Wanted => Unticked("resolve"))
Flagged(result) == IF Wanted THEN [result EXCEPT !.resolved = TRUE]
                             ELSE [result EXCEPT !.reopened = TRUE]

Landing(result) == [result EXCEPT !.landed = TRUE]
Broken(result) == [result EXCEPT !.failed = TRUE]

WouldSettle ==
  /\ StillToSettle /\ ~apply
  /\ Finish(Flagged(report[cur]), {}) /\ Untouched

Settle ==
  /\ StillToSettle /\ apply
  /\ LET t == Row.thread_id IN
     \E answer \in Answers("resolve", LiveThread(t)) :
       /\ threads' = IF Landed(answer) THEN [threads EXCEPT ![t].resolved = Wanted] ELSE threads
       /\ comments' = IF answer = "ok" THEN [comments EXCEPT ![t].resolved = Wanted] ELSE comments
       /\ Charge(answer)
       /\ IF answer = "ok" THEN Finish(Flagged(Landing(report[cur])), {"resolve"})
          ELSE Finish(Broken(IF Landed(answer) THEN Landing(report[cur]) ELSE report[cur]), {})
  /\ UNCHANGED <<replies, nextId, seen, missing>>

\* The report is returned; what the run knew is gone.
DryRunOver ==
  /\ pc = "write" /\ ~apply /\ Forget
  /\ UNCHANGED <<document, register, bounds>>

\* Mutant: the markers are put into a .csv by position too.
write_back_by_position ==
  /\ pc = "write" /\ apply /\ LocalWrite /\ Forget
  /\ sheet' = sheet /\ ticked' = [i \in RowIds |-> ticked[i] \cup ticks[i]]
  /\ UNCHANGED <<document, bounds>>

\* A .csv is rewritten whole from memory.  In an .xlsx the markers that are set are put
\* into the rows the file has now, by position.
write_back ==
  /\ pc = "write" /\ apply /\ LocalWrite /\ Forget
  /\ IF Suffix = ".csv" THEN sheet' = rows /\ ticked' = ticks
     ELSE sheet' = sheet /\ ticked' = [i \in RowIds |-> ticked[i] \cup ticks[i]]
  /\ UNCHANGED <<document, bounds>>

\* The switch is off, or the file is locked or unwritable: the old file stays.
WriteBackFails ==
  /\ pc = "write" /\ apply /\ Forget
  /\ IF LocalWrite THEN Fault ELSE UNCHANGED faults
  /\ UNCHANGED <<document, register, edits>>

\* The process dies, or the listing at the start of the run fails.
Crash ==
  /\ pc # "idle" /\ Fault /\ Forget
  /\ UNCHANGED <<document, register, edits>>

DeleteStep == DeleteTicked \/ NoSuchReply \/ AlreadyDeleted \/ WouldDelete
              \/ DeleteReply \/ DeleteThread
ReplyStep == ReplyTicked \/ AlreadySaid \/ WouldReply \/ PostReply
ResolveStep == AlreadySettled \/ ResolveTicked \/ WouldSettle \/ Settle
MissingStep == FoundTombstone \/ ReportMissing
RowStep == NothingRequested \/ RefuseRow \/ MissingStep \/ DeleteStep \/ ReplyStep \/ ResolveStep
RunStep == ListComments \/ RowStep \/ DryRunOver \/ write_back \/ WriteBackFails

-----------------------------------------------------------------------------
(* People, at any moment of a run and between runs.                        *)

Human == edits < MaxEdits /\ edits' = edits + 1
         /\ UNCHANGED <<pc, cur, memory, faults>>

\* A reply from the user's own account, or a colleague's, typed in the editor.
SomebodyReplies ==
  /\ "reply" \in Humans /\ Human
  /\ \E t \in Threads, x \in Texts, who \in {"me", "other"} :
       LiveThread(t) /\ replies' = replies \cup {Posted(t, x, who)}
  /\ nextId' = nextId + 1
  /\ UNCHANGED <<threads, register>>

SomebodySettles ==
  /\ "resolve" \in Humans /\ Human
  /\ \E t \in Threads : LiveThread(t) /\ threads' = [threads EXCEPT ![t].resolved = ~@]
  /\ UNCHANGED <<replies, nextId, register>>

SomebodyDeletes ==
  /\ "delete" \in Humans /\ Human
  /\ \/ \E t \in Threads : /\ LiveThread(t)
                           /\ threads' = [threads EXCEPT ![t].deleted = TRUE]
                           /\ replies' = StripThread(replies, t)
     \/ \E r \in replies : /\ ~r.deleted /\ threads' = threads
                           /\ replies' = StripReply(replies, r.thread, r.id)
  /\ UNCHANGED <<nextId, register>>

\* The reviewer changes a decision, or sorts the sheet with all its columns.
EditCell ==
  /\ "cell" \in Humans /\ Human
  /\ \E i \in RowIds, cell \in {"TRUE", "FALSE"} :
       sheet[i].resolve_comment # "empty" /\ sheet' = [sheet EXCEPT ![i].resolve_comment = cell]
  /\ UNCHANGED <<document, ticked>>

SortSheet ==
  /\ "sort" \in Humans /\ Human
  /\ \E i, j \in RowIds :
       /\ i < j
       /\ sheet' = [sheet EXCEPT ![i] = sheet[j], ![j] = sheet[i]]
       /\ ticked' = [ticked EXCEPT ![i] = ticked[j], ![j] = ticked[i]]
  /\ UNCHANGED document

People == SomebodyReplies \/ SomebodySettles \/ SomebodyDeletes \/ EditCell \/ SortSheet

Next == (\E a, f \in BOOLEAN : ReadRegister(a, f)) \/ RunStep \/ Crash \/ People

Spec == Init /\ [][Next]_vars

\* A run that has been started takes its next step: apply_rows is one sequential loop.
\* "Re-run to finish what is left": the reviewer applies the register again and again.
Fairness == WF_vars(RunStep) /\ SF_vars(ReadRegister(TRUE, FALSE))
FairSpec == Spec /\ Fairness
=============================================================================
