------------------------ MODULE ApplyRegisterProofs ------------------------
(***************************************************************************)
(* Proofs that applying a register is type correct, never posts a reply    *)
(* twice and implements the promise made to the document's readers, and    *)
(* that the completed markers, the report and every single step of a run   *)
(* are true to the document and to the row they are about: for any         *)
(* document, register, policy and number of failures.                      *)
(***************************************************************************)
EXTENDS ApplyRegisterProperties, FiniteSetTheorems, TLAPS

-----------------------------------------------------------------------------
(* Typing.                                                                 *)

\* Ending a row with a well-formed result keeps the loop's variables in range.
LEMMA FinishTyped ==
  ASSUME LoopOK, RegisterOK, NEW result \in Result, NEW done \in SUBSET Ticks,
         Finish(result, done)
  PROVE  LoopOK' /\ RegisterOK'
  BY RegisterAssumption DEF Finish, LoopOK, RegisterOK, register, RowIds

\* So does going on from the reply to the resolve of the same row.
LEMMA AfterReplyTyped ==
  ASSUME LoopOK, RegisterOK, NEW result \in Result, NEW done \in SUBSET Ticks,
         AfterReply(result, done)
  PROVE  LoopOK' /\ RegisterOK'
  BY FinishTyped DEF AfterReply, LoopOK, RegisterOK, register

\* The results a row can have before its resolve are records of flags.
LEMMA ResultsTyped ==
  /\ Blank \in Result
  /\ \A b \in BOOLEAN : Failed(b) \in Result /\ Deleted(b) \in Result /\ Replied(b) \in Result
  /\ \A a : Landed(a) \in BOOLEAN
<1>1. \A a : Landed(a) \in BOOLEAN
  BY DEF Landed
<1> QED
  BY <1>1 DEF Blank, Failed, Deleted, Replied, Result

\* What a run forgets is back at its starting values, which are in range.
LEMMA ForgetTyped ==
  ASSUME Forget
  PROVE  LoopOK' /\ ListingOK'
<1>1. NothingRead \in [RowIds -> Request]
  BY RegisterAssumption DEF NothingRead, Request, Cells
<1>2. NothingReported \in [RowIds -> Result] /\ NothingTicked \in [RowIds -> SUBSET Ticks]
  BY ResultsTyped DEF NothingReported, NothingTicked
<1>3. NothingListed \in [Threads -> [listed : BOOLEAN, resolved : BOOLEAN, deleted : BOOLEAN]]
  BY DEF NothingListed
<1>4. 1 \in RowIds
  BY RegisterAssumption DEF RowIds
<1> QED
  BY <1>1, <1>2, <1>3, <1>4 DEF Forget, LoopOK, ListingOK

\* Stripping replies keeps them replies.
LEMMA StripTyped ==
  ASSUME NEW rs \in SUBSET Reply, NEW t, NEW id
  PROVE  StripReply(rs, t, id) \subseteq Reply /\ StripThread(rs, t) \subseteq Reply
  BY DEF StripReply, StripThread, Reply

\* A new reply is a reply.
LEMMA PostedTyped ==
  ASSUME nextId \in Nat, NEW t \in Threads, NEW x \in Texts,
         NEW who \in {"run", "forced", "me", "other"}
  PROVE  Posted(t, x, who) \in Reply
  BY DEF Posted, Reply

\* A failed answer costs one fault, and there are failed answers only within the bound.
LEMMA ChargeTyped ==
  ASSUME BoundsOK, NEW capability, NEW possible \in BOOLEAN,
         NEW answer \in Answers(capability, possible), Charge(answer), edits' = edits
  PROVE  BoundsOK' /\ answer \in {"ok", "refused", "lost", "denied"}
  BY RegisterAssumption DEF BoundsOK, Answers, Charge

THEOREM InitTyped == Init => TypeOK
<1> SUFFICES ASSUME Init PROVE TypeOK
  OBVIOUS
<1>1. DocumentOK
  BY RegisterAssumption DEF Init, DocumentOK, Reply
<1>2. sheet \in [RowIds -> Request] /\ ticked \in [RowIds -> SUBSET Ticks]
  BY RegisterAssumption DEF Init, NothingTicked
<1>3. NothingRead \in [RowIds -> Request] /\ NothingReported \in [RowIds -> Result]
  BY RegisterAssumption, ResultsTyped DEF NothingRead, NothingReported, Request, Cells
<1>6. 1 \in RowIds
  BY RegisterAssumption DEF RowIds
<1>4. LoopOK
  BY <1>3, <1>6 DEF Init, LoopOK, NothingTicked
<1>5. ListingOK /\ BoundsOK
  BY RegisterAssumption DEF Init, ListingOK, NothingListed, BoundsOK
<1> QED
  BY <1>1, <1>2, <1>4, <1>5 DEF TypeOK, RegisterOK

\* The steps that end a row without touching the document or the listing.
LEMMA QuietTyped ==
  ASSUME TypeOK, NEW result \in Result, NEW done \in SUBSET Ticks, Untouched,
         Finish(result, done) \/ AfterReply(result, done)
  PROVE  TypeOK'
<1>1. LoopOK' /\ RegisterOK'
  BY FinishTyped, AfterReplyTyped DEF TypeOK
<1>2. edits' = edits
  BY DEF Finish, AfterReply
<1> QED
  BY <1>1, <1>2 DEF TypeOK, Untouched, document, DocumentOK, ListingOK, BoundsOK

LEMMA RowTyped ==
  ASSUME TypeOK
  PROVE  Row \in Request /\ report[cur] \in Result /\ WantsDelete(Row) \in BOOLEAN
         /\ Wanted \in BOOLEAN /\ apply \in BOOLEAN /\ force \in BOOLEAN
         /\ \A t : LiveThread(t) \in BOOLEAN
  BY DEF TypeOK, LoopOK, DocumentOK, Row, WantsDelete, Wanted, apply, force, LiveThread

LEMMA DeleteTyped ==
  ASSUME TypeOK, DeleteStep
  PROVE  TypeOK'
<1> USE ResultsTyped DEF Ticks
<1>1. CASE DeleteTicked
  BY <1>1, QuietTyped DEF DeleteTicked
<1>2. CASE NoSuchReply
  BY <1>2, QuietTyped DEF NoSuchReply
<1>3. CASE AlreadyDeleted
  BY <1>3, QuietTyped DEF AlreadyDeleted
<1>4. CASE WouldDelete
  BY <1>4, QuietTyped DEF WouldDelete
<1>5. ASSUME NEW answer, FinishDelete(answer)
      PROVE  LoopOK' /\ RegisterOK' /\ edits' = edits
  <2>2. LoopOK' /\ RegisterOK'
    BY <1>5, FinishTyped DEF FinishDelete, TypeOK
  <2>3. edits' = edits
    BY <1>5 DEF FinishDelete, Finish
  <2> QED
    BY <2>2, <2>3
<1>6. CASE DeleteReply
  <2>1. PICK r \in replies, again \in BOOLEAN :
          \E answer \in Answers("delete", again \/ ~r.deleted) :
            /\ replies' = IF Landed(answer) THEN StripReply(replies, r.thread, r.id) ELSE replies
            /\ seen' = IF answer = "ok" THEN StripReply(seen, r.thread, r.id) ELSE seen
            /\ Charge(answer) /\ FinishDelete(answer)
    BY <1>6 DEF DeleteReply
  <2>2. PICK answer \in Answers("delete", again \/ ~r.deleted) :
            /\ replies' = IF Landed(answer) THEN StripReply(replies, r.thread, r.id) ELSE replies
            /\ seen' = IF answer = "ok" THEN StripReply(seen, r.thread, r.id) ELSE seen
            /\ Charge(answer) /\ FinishDelete(answer)
    BY <2>1
  <2>3. UNCHANGED <<threads, nextId, comments, missing>>
    BY <1>6 DEF DeleteReply
  <2>4. replies' \subseteq Reply /\ seen' \subseteq Reply
    BY <2>2, StripTyped DEF TypeOK, DocumentOK, ListingOK
  <2>5. LoopOK' /\ RegisterOK' /\ edits' = edits
    BY <1>5, <2>2
  <2>6. BoundsOK'
    BY <2>2, <2>5, ChargeTyped DEF TypeOK
  <2> QED
    BY <2>3, <2>4, <2>5, <2>6 DEF TypeOK, DocumentOK, ListingOK
<1>7. CASE DeleteThread
  <2> DEFINE t == Row.thread_id
  <2>0. PICK again \in BOOLEAN : \E answer \in Answers("delete", again \/ LiveThread(t)) :
       /\ threads' = IF Landed(answer) THEN [threads EXCEPT ![t].deleted = TRUE] ELSE threads
       /\ replies' = IF Landed(answer) THEN StripThread(replies, t) ELSE replies
       /\ comments' = IF answer = "ok" THEN [comments EXCEPT ![t].deleted = TRUE] ELSE comments
       /\ seen' = IF answer = "ok" THEN StripThread(seen, t) ELSE seen
       /\ Charge(answer) /\ FinishDelete(answer)
    BY <1>7 DEF DeleteThread
  <2>1. PICK answer \in Answers("delete", again \/ LiveThread(t)) :
       /\ threads' = IF Landed(answer) THEN [threads EXCEPT ![t].deleted = TRUE] ELSE threads
       /\ replies' = IF Landed(answer) THEN StripThread(replies, t) ELSE replies
       /\ comments' = IF answer = "ok" THEN [comments EXCEPT ![t].deleted = TRUE] ELSE comments
       /\ seen' = IF answer = "ok" THEN StripThread(seen, t) ELSE seen
       /\ Charge(answer) /\ FinishDelete(answer)
    BY <2>0
  <2>2. UNCHANGED <<nextId, missing>>
    BY <1>7 DEF DeleteThread
  <2>3. replies' \subseteq Reply /\ seen' \subseteq Reply
    BY <2>1, StripTyped DEF TypeOK, DocumentOK, ListingOK
  <2>4. threads' \in [Threads -> [resolved : BOOLEAN, deleted : BOOLEAN]]
    BY <2>1 DEF TypeOK, DocumentOK
  <2>5. comments' \in [Threads -> [listed : BOOLEAN, resolved : BOOLEAN, deleted : BOOLEAN]]
    BY <2>1 DEF TypeOK, ListingOK
  <2>6. LoopOK' /\ RegisterOK' /\ edits' = edits
    BY <1>5, <2>1
  <2>7. BoundsOK'
    BY <2>1, <2>6, ChargeTyped DEF TypeOK, LiveThread
  <2> QED
    BY <2>2, <2>3, <2>4, <2>5, <2>6, <2>7 DEF TypeOK, DocumentOK, ListingOK
<1> QED
  BY <1>1, <1>2, <1>3, <1>4, <1>6, <1>7 DEF DeleteStep

LEMMA ReplyTyped ==
  ASSUME TypeOK, ReplyStep
  PROVE  TypeOK'
<1> USE ResultsTyped DEF Ticks
<1>1. CASE ReplyTicked
  BY <1>1, QuietTyped DEF ReplyTicked
<1>2. CASE AlreadySaid
  BY <1>2, QuietTyped DEF AlreadySaid
<1>3. CASE WouldReply
  BY <1>3, QuietTyped DEF WouldReply
<1>4. CASE PostReply
  <2> DEFINE who == IF force THEN "forced" ELSE "run"
             new == Posted(Row.thread_id, Row.reply_comment, who)
  <2>1. PICK answer \in Answers("reply", LiveThread(Row.thread_id)) :
       /\ IF Landed(answer) THEN replies' = replies \cup {new} /\ nextId' = nextId + 1
                            ELSE UNCHANGED <<replies, nextId>>
       /\ seen' = IF answer = "ok" THEN seen \cup {new} ELSE seen
       /\ Charge(answer)
       /\ IF answer = "ok" THEN AfterReply(Replied(TRUE), {"reply"}) ELSE ReplyFailed(answer)
    BY <1>4 DEF PostReply
  <2>2. UNCHANGED <<threads, comments, missing>>
    BY <1>4 DEF PostReply
  <2>3. new \in Reply
    <3>1. Row.thread_id \in Threads
      BY <1>4 DEF PostReply, StillToSay, Replies, Talks, Listed
    <3>2. Row.reply_comment \in Texts
      BY <1>4, RowTyped DEF PostReply, StillToSay, Replies, Request
    <3>3. who \in {"run", "forced", "me", "other"}
      OBVIOUS
    <3> QED
      BY <3>1, <3>2, <3>3, PostedTyped DEF TypeOK, DocumentOK
  <2>4. replies' \subseteq Reply /\ nextId' \in Nat /\ seen' \subseteq Reply
    BY <2>1, <2>3 DEF TypeOK, DocumentOK, ListingOK
  <2>5. LoopOK' /\ RegisterOK'
    BY <2>1, FinishTyped, AfterReplyTyped DEF ReplyFailed, TypeOK
  <2>6. edits' = edits
    BY <2>1 DEF ReplyFailed, Finish, AfterReply
  <2>7. BoundsOK'
    BY <2>1, <2>6, ChargeTyped, RowTyped DEF TypeOK
  <2> QED
    BY <2>2, <2>4, <2>5, <2>7 DEF TypeOK, DocumentOK, ListingOK
<1> QED
  BY <1>1, <1>2, <1>3, <1>4 DEF ReplyStep

\* The result a row has after its resolve is still a record of flags.
LEMMA SettledTyped ==
  \A r \in Result : Flagged(r) \in Result /\ Landing(r) \in Result /\ Broken(r) \in Result
  BY DEF Flagged, Landing, Broken, Result

LEMMA ResolveTyped ==
  ASSUME TypeOK, ResolveStep
  PROVE  TypeOK'
<1> USE ResultsTyped, SettledTyped DEF Ticks
<1>0. report[cur] \in Result
  BY RowTyped
<1>1. CASE AlreadySettled
  BY <1>0, <1>1, QuietTyped DEF AlreadySettled
<1>2. CASE ResolveTicked
  BY <1>0, <1>2, QuietTyped DEF ResolveTicked
<1>3. CASE WouldSettle
  BY <1>0, <1>3, QuietTyped DEF WouldSettle
<1>4. CASE Settle
  <2> DEFINE t == Row.thread_id
  <2>1. PICK answer \in Answers("resolve", LiveThread(t)) :
       /\ threads' = IF Landed(answer) THEN [threads EXCEPT ![t].resolved = Wanted] ELSE threads
       /\ comments' = IF answer = "ok" THEN [comments EXCEPT ![t].resolved = Wanted] ELSE comments
       /\ Charge(answer)
       /\ IF answer = "ok" THEN Finish(Flagged(Landing(report[cur])), {"resolve"})
          ELSE Finish(Broken(IF Landed(answer) THEN Landing(report[cur]) ELSE report[cur]), {})
    BY <1>4 DEF Settle
  <2>2. UNCHANGED <<replies, nextId, seen, missing>>
    BY <1>4 DEF Settle
  <2>3. threads' \in [Threads -> [resolved : BOOLEAN, deleted : BOOLEAN]]
    BY <2>1, RowTyped DEF TypeOK, DocumentOK
  <2>4. comments' \in [Threads -> [listed : BOOLEAN, resolved : BOOLEAN, deleted : BOOLEAN]]
    BY <2>1, RowTyped DEF TypeOK, ListingOK
  <2>5. LoopOK' /\ RegisterOK'
    BY <1>0, <2>1, FinishTyped DEF TypeOK
  <2>6. edits' = edits
    BY <2>1 DEF Finish
  <2>7. BoundsOK'
    BY <2>1, <2>6, ChargeTyped, RowTyped DEF TypeOK
  <2> QED
    BY <2>2, <2>3, <2>4, <2>5, <2>7 DEF TypeOK, DocumentOK, ListingOK
<1> QED
  BY <1>1, <1>2, <1>3, <1>4 DEF ResolveStep

LEMMA RowStepTyped ==
  ASSUME TypeOK, RowStep
  PROVE  TypeOK'
<1> USE ResultsTyped DEF Ticks
<1>1. CASE NothingRequested
  BY <1>1, QuietTyped DEF NothingRequested
<1>2. CASE RefuseRow
  BY <1>2, QuietTyped DEF RefuseRow
<1>3. CASE FoundTombstone
  BY <1>3, QuietTyped DEF FoundTombstone
<1>4. CASE ReportMissing
  <2>1. LoopOK' /\ RegisterOK'
    BY <1>4, FinishTyped DEF ReportMissing, TypeOK
  <2>2. edits' = edits /\ UNCHANGED <<document, comments, seen>> /\ missing' = missing \cup {cur}
    BY <1>4 DEF ReportMissing, Finish
  <2>3. BoundsOK'
    BY <1>4, <2>2, RegisterAssumption DEF ReportMissing, Fault, TypeOK, BoundsOK
  <2> QED
    BY <2>1, <2>2, <2>3 DEF TypeOK, document, DocumentOK, ListingOK, LoopOK
<1> QED
  BY <1>1, <1>2, <1>3, <1>4, DeleteTyped, ReplyTyped, ResolveTyped DEF RowStep, MissingStep

\* The steps around the rows: reading the register and the comments, saving, dying.
LEMMA RunFrameTyped ==
  ASSUME TypeOK,
         (\E a, f \in BOOLEAN : ReadRegister(a, f)) \/ ListComments \/ DryRunOver
         \/ write_back \/ WriteBackFails \/ Crash
  PROVE  TypeOK'
<1>1. ASSUME NEW a \in BOOLEAN, NEW f \in BOOLEAN, ReadRegister(a, f) PROVE TypeOK'
  BY <1>1, RegisterAssumption DEF ReadRegister, TypeOK, document, register, DocumentOK,
     RegisterOK, LoopOK, ListingOK, BoundsOK
<1>2. CASE ListComments
  <2>1. comments' \in [Threads -> [listed : BOOLEAN, resolved : BOOLEAN, deleted : BOOLEAN]]
    BY <1>2, RowTyped DEF ListComments, TypeOK, DocumentOK, LiveThread
  <2>2. seen' \subseteq Reply
    BY <1>2 DEF ListComments, TypeOK, DocumentOK
  <2> QED
    BY <1>2, <2>1, <2>2 DEF ListComments, TypeOK, document, register, bounds, DocumentOK,
       RegisterOK, LoopOK, ListingOK, BoundsOK
<1>3. CASE DryRunOver
  BY <1>3, ForgetTyped DEF DryRunOver, TypeOK, document, register, bounds, DocumentOK,
     RegisterOK, BoundsOK
<1>4. CASE write_back
  <2>1. RegisterOK'
    BY <1>4 DEF write_back, TypeOK, RegisterOK, LoopOK
  <2> QED
    BY <1>4, <2>1, ForgetTyped DEF write_back, TypeOK, document, bounds, DocumentOK, BoundsOK
<1>5. CASE WriteBackFails \/ Crash
  <2>1. BoundsOK'
    BY <1>5, RegisterAssumption DEF WriteBackFails, Crash, Fault, TypeOK, BoundsOK
  <2> QED
    BY <1>5, <2>1, ForgetTyped DEF WriteBackFails, Crash, TypeOK, document, register,
       DocumentOK, RegisterOK
<1> QED
  BY <1>1, <1>2, <1>3, <1>4, <1>5

LEMMA PeopleTyped ==
  ASSUME TypeOK, People
  PROVE  TypeOK'
<1>1. Human => LoopOK' /\ ListingOK' /\ BoundsOK'
  BY RegisterAssumption DEF Human, memory, TypeOK, LoopOK, ListingOK, BoundsOK
<1>2. CASE SomebodyReplies
  <2>1. replies' \subseteq Reply
    BY <1>2, PostedTyped DEF SomebodyReplies, TypeOK, DocumentOK
  <2> QED
    BY <1>1, <1>2, <2>1 DEF SomebodyReplies, register, TypeOK, DocumentOK, RegisterOK
<1>3. CASE SomebodySettles
  <2>1. threads' \in [Threads -> [resolved : BOOLEAN, deleted : BOOLEAN]]
    BY <1>3 DEF SomebodySettles, TypeOK, DocumentOK
  <2> QED
    BY <1>1, <1>3, <2>1 DEF SomebodySettles, register, TypeOK, DocumentOK, RegisterOK
<1>4. CASE SomebodyDeletes
  <2>1. replies' \subseteq Reply
    BY <1>4, StripTyped DEF SomebodyDeletes, TypeOK, DocumentOK
  <2>2. threads' \in [Threads -> [resolved : BOOLEAN, deleted : BOOLEAN]]
    BY <1>4 DEF SomebodyDeletes, TypeOK, DocumentOK
  <2> QED
    BY <1>1, <1>4, <2>1, <2>2 DEF SomebodyDeletes, register, TypeOK, DocumentOK, RegisterOK
<1>5. CASE EditCell
  <2>1. PICK i \in RowIds, cell \in {"TRUE", "FALSE"} :
          sheet' = [sheet EXCEPT ![i].resolve_comment = cell]
    BY <1>5 DEF EditCell
  <2>2. cell \in Cells
    BY <2>1 DEF Cells
  <2>3. sheet \in [RowIds -> Request]
    BY DEF TypeOK, RegisterOK
  <2>4. sheet' \in [RowIds -> Request]
    BY <2>1, <2>2, <2>3 DEF Request
  <2> QED
    BY <1>1, <1>5, <2>4 DEF EditCell, document, TypeOK, DocumentOK, RegisterOK
<1>6. CASE SortSheet
  <2>1. RegisterOK'
    BY <1>6 DEF SortSheet, TypeOK, RegisterOK
  <2> QED
    BY <1>1, <1>6, <2>1 DEF SortSheet, document, TypeOK, DocumentOK
<1> QED
  BY <1>2, <1>3, <1>4, <1>5, <1>6 DEF People

LEMMA NextTyped ==
  ASSUME TypeOK, [Next]_vars
  PROVE  TypeOK'
<1>1. CASE UNCHANGED vars
  BY <1>1 DEF vars, document, register, memory, bounds, TypeOK, DocumentOK, RegisterOK,
     LoopOK, ListingOK, BoundsOK
<1> QED
  BY <1>1, RowStepTyped, RunFrameTyped, PeopleTyped DEF Next, RunStep

\* Type correctness: every variable stays in its range, whatever the people around the run
\* do and however often it fails (apply_rows and the document it writes to).
THEOREM TypeCorrect == Spec => []TypeOK
  BY InitTyped, NextTyped, PTL DEF Spec

-----------------------------------------------------------------------------
(* No reply is posted twice.                                               *)

\* Once behind the run, a row stays behind it until the listing is dropped; a row that
\* ends or goes on to its resolve falls behind.
LEMMA Progress ==
  ASSUME LoopOK, NEW result, NEW done,
         Finish(result, done) \/ AfterReply(result, done), pc \in {"row", "resolve"}
  PROVE  /\ rows' = rows /\ sheet' = sheet
         /\ pc' \in {"row", "resolve"} =>
              \A j \in RowIds : Behind(j) \/ j = cur => Behind(j)'
  BY DEF Finish, AfterReply, register, Behind, LoopOK, RowIds

\* Stripping gives nothing new a voice: a live reply afterwards was there, live and not
\* named by the deletion, and whatever is not named stays.
LEMMA StripReplyLive ==
  ASSUME NEW rs \in SUBSET Reply, NEW t, NEW id
  PROVE  \A q : q \in StripReply(rs, t, id) /\ ~q.deleted
                  <=> q \in rs /\ ~q.deleted /\ ~(q.thread = t /\ q.id = id)
  BY DEF StripReply, Reply

LEMMA StripThreadLive ==
  ASSUME NEW rs \in SUBSET Reply, NEW t
  PROVE  \A q : q \in StripThread(rs, t) /\ ~q.deleted
                  <=> q \in rs /\ ~q.deleted /\ q.thread # t
  BY DEF StripThread, Reply

\* Stripping keeps every id, and keeps ids apart.
LEMMA StripReplyFresh ==
  ASSUME NEW rs \in SUBSET Reply, NEW n, NEW t, NEW id,
         \A r \in rs : r.id < n, \A r, s \in rs : r.id = s.id => r = s
  PROVE  /\ \A r \in StripReply(rs, t, id) : r.id < n
         /\ \A r, s \in StripReply(rs, t, id) : r.id = s.id => r = s
<1>1. \A r \in rs : [r EXCEPT !.deleted = TRUE].id = r.id
  BY DEF Reply
<1>2. ASSUME NEW q \in StripReply(rs, t, id)
      PROVE  \E r \in rs : /\ q.id = r.id
               /\ q = IF r.thread = t /\ r.id = id THEN [r EXCEPT !.deleted = TRUE] ELSE r
  BY <1>1 DEF StripReply
<1>3. ASSUME NEW p \in StripReply(rs, t, id), NEW q \in StripReply(rs, t, id), p.id = q.id
      PROVE  p = q
  <2>1. PICK r \in rs : /\ p.id = r.id
               /\ p = IF r.thread = t /\ r.id = id THEN [r EXCEPT !.deleted = TRUE] ELSE r
    BY <1>2
  <2>2. PICK s \in rs : /\ q.id = s.id
               /\ q = IF s.thread = t /\ s.id = id THEN [s EXCEPT !.deleted = TRUE] ELSE s
    BY <1>2
  <2>3. r = s
    BY <1>3, <2>1, <2>2
  <2> QED
    BY <2>1, <2>2, <2>3
<1> QED
  BY <1>2, <1>3

LEMMA StripThreadFresh ==
  ASSUME NEW rs \in SUBSET Reply, NEW n, NEW t,
         \A r \in rs : r.id < n, \A r, s \in rs : r.id = s.id => r = s
  PROVE  /\ \A r \in StripThread(rs, t) : r.id < n
         /\ \A r, s \in StripThread(rs, t) : r.id = s.id => r = s
<1>1. \A r \in rs : [r EXCEPT !.deleted = TRUE].id = r.id
  BY DEF Reply
<1>2. ASSUME NEW q \in StripThread(rs, t)
      PROVE  \E r \in rs : /\ q.id = r.id
               /\ q = IF r.thread = t THEN [r EXCEPT !.deleted = TRUE] ELSE r
  BY <1>1 DEF StripThread
<1>3. ASSUME NEW p \in StripThread(rs, t), NEW q \in StripThread(rs, t), p.id = q.id
      PROVE  p = q
  <2>1. PICK r \in rs : /\ p.id = r.id
               /\ p = IF r.thread = t THEN [r EXCEPT !.deleted = TRUE] ELSE r
    BY <1>2
  <2>2. PICK s \in rs : /\ q.id = s.id
               /\ q = IF s.thread = t THEN [s EXCEPT !.deleted = TRUE] ELSE s
    BY <1>2
  <2>3. r = s
    BY <1>3, <2>1, <2>2
  <2> QED
    BY <2>1, <2>2, <2>3
<1> QED
  BY <1>2, <1>3

\* A step that posts nothing keeps the invariant if it only strips replies, keeps the
\* listing's live replies that stay live, and lets no row come back from behind.
LEMMA SilentStep ==
  ASSUME TypeOK, PostInv, TypeOK',
         \A q \in replies' : ~q.deleted => q \in replies,
         \A q \in replies' : ~q.deleted => ~threads'[q.thread].deleted,
         IdsFresh', AsksOnce(sheet)', AsksOnce(rows)',
         pc' \in {"row", "resolve"} =>
           \A q \in replies' : q.by = "run" /\ ~q.deleted =>
             \/ q \in seen'
             \/ \E j \in RowIds : /\ Behind(j)' /\ rows'[j].thread_id = q.thread
                                  /\ rows'[j].reply_comment = q.text
  PROVE  PostInv'
<1>1. NoDoublePost'
  BY DEF PostInv, NoDoublePost
<1>2. DeadThreadsAreSilent'
  BY DEF DeadThreadsAreSilent
<1>3. ListingCovers'
  BY DEF ListingCovers
<1> QED
  BY <1>1, <1>2, <1>3 DEF PostInv

\* The steps that leave the document and the listing alone and move the run on.
LEMMA QuietSilent ==
  ASSUME TypeOK, PostInv, TypeOK', pc \in {"row", "resolve"},
         UNCHANGED <<replies, nextId, seen>>,
         \A t \in Threads : threads'[t].deleted = threads[t].deleted,
         NEW result, NEW done, Finish(result, done) \/ AfterReply(result, done)
  PROVE  PostInv'
<1>1. rows' = rows /\ sheet' = sheet
  BY Progress DEF TypeOK
<1>2. pc' \in {"row", "resolve"} => \A j \in RowIds : Behind(j) => Behind(j)'
  BY Progress DEF TypeOK
<1>3. IdsFresh' /\ AsksOnce(sheet)' /\ AsksOnce(rows)'
  BY <1>1 DEF PostInv, IdsFresh, AsksOnce
<1>4. \A q \in replies' : ~q.deleted => q \in replies /\ ~threads'[q.thread].deleted
  BY DEF PostInv, DeadThreadsAreSilent, TypeOK, DocumentOK, Reply
<1>5. pc' \in {"row", "resolve"} =>
        \A q \in replies' : q.by = "run" /\ ~q.deleted =>
          \/ q \in seen'
          \/ \E j \in RowIds : /\ Behind(j)' /\ rows'[j].thread_id = q.thread
                               /\ rows'[j].reply_comment = q.text
  BY <1>1, <1>2 DEF PostInv, ListingCovers
<1> QED
  BY <1>3, <1>4, <1>5, SilentStep

LEMMA QuietRowStep ==
  ASSUME TypeOK, PostInv, TypeOK', RowStep, ~PostReply, ~DeleteReply, ~DeleteThread
  PROVE  PostInv'
<1>1. pc \in {"row", "resolve"}
  BY DEF RowStep, NothingRequested, RefuseRow, MissingStep, FoundTombstone, ReportMissing,
     Missing, DeleteStep, DeleteTicked, NoSuchReply, AlreadyDeleted, WouldDelete, StillThere,
     DeletesReply, DeletesThread, Deletes, ReplyStep, ReplyTicked, AlreadySaid, WouldReply,
     StillToSay, Replies, Talks, ResolveStep, AlreadySettled, ResolveTicked, WouldSettle,
     StillToSettle, Settle, Settles
<1>2. UNCHANGED <<replies, nextId, seen>>
  BY DEF RowStep, NothingRequested, RefuseRow, MissingStep, FoundTombstone, ReportMissing,
     DeleteStep, DeleteTicked, NoSuchReply, AlreadyDeleted, WouldDelete,
     ReplyStep, ReplyTicked, AlreadySaid, WouldReply, ResolveStep, AlreadySettled,
     ResolveTicked, WouldSettle, Settle, Untouched, document
<1>3. \E result, done : Finish(result, done) \/ AfterReply(result, done)
  BY DEF RowStep, NothingRequested, RefuseRow, MissingStep, FoundTombstone, ReportMissing,
     DeleteStep, DeleteTicked, NoSuchReply, AlreadyDeleted, WouldDelete,
     ReplyStep, ReplyTicked, AlreadySaid, WouldReply, ResolveStep, AlreadySettled,
     ResolveTicked, WouldSettle, Settle
<1>4. \A t \in Threads : threads'[t].deleted = threads[t].deleted
  BY DEF TypeOK, DocumentOK, RowStep, NothingRequested, RefuseRow, MissingStep,
     FoundTombstone, ReportMissing, DeleteStep, DeleteTicked, NoSuchReply, AlreadyDeleted,
     WouldDelete, ReplyStep, ReplyTicked, AlreadySaid, WouldReply, ResolveStep,
     AlreadySettled, ResolveTicked, WouldSettle, Settle, Untouched, document
<1> QED
  BY <1>1, <1>2, <1>3, <1>4, QuietSilent

\* A run posts only what no live reply of the runs says yet: such a reply would be in the
\* listing, or a row behind this one would have asked for the same words.
LEMMA NotSaidYet ==
  ASSUME TypeOK, PostInv, StillToSay, ~force, NEW r \in replies, r.by = "run", ~r.deleted,
         r.thread = Row.thread_id, r.text = Row.reply_comment
  PROVE  FALSE
<1>1. pc = "row" /\ ~mine_already_said(seen, Row.thread_id, Row.reply_comment)
  BY DEF StillToSay, Replies, Talks
<1>2. r \notin seen
  BY <1>1 DEF mine_already_said, Mine
<1>3. PICK j \in RowIds : /\ Behind(j) /\ rows[j].thread_id = Row.thread_id
                         /\ rows[j].reply_comment = Row.reply_comment
  BY <1>1, <1>2 DEF PostInv, ListingCovers
<1>4. j < cur /\ cur \in RowIds
  BY <1>1, <1>3 DEF Behind, TypeOK, LoopOK
<1>5. SameWords(rows[j], rows[cur])
  BY <1>3 DEF SameWords, Row, StillToSay, Replies
<1>6. j = cur
  BY <1>4, <1>5 DEF PostInv, AsksOnce
<1> QED
  BY <1>4, <1>6 DEF RowIds

LEMMA PostReplyOnce ==
  ASSUME TypeOK, PostInv, TypeOK', PostReply
  PROVE  PostInv'
<1> DEFINE t == Row.thread_id
           x == Row.reply_comment
           who == IF force THEN "forced" ELSE "run"
           new == Posted(t, x, who)
<1>1. PICK answer \in Answers("reply", LiveThread(t)) :
       /\ IF Landed(answer) THEN replies' = replies \cup {new} /\ nextId' = nextId + 1
                            ELSE UNCHANGED <<replies, nextId>>
       /\ seen' = IF answer = "ok" THEN seen \cup {new} ELSE seen
       /\ Charge(answer)
       /\ IF answer = "ok" THEN AfterReply(Replied(TRUE), {"reply"}) ELSE ReplyFailed(answer)
  BY DEF PostReply
<1>2. pc = "row" /\ UNCHANGED threads /\ t \in Threads
  BY DEF PostReply, StillToSay, Replies, Talks, Listed
<1>3. \E result, done : Finish(result, done) \/ AfterReply(result, done)
  BY <1>1 DEF ReplyFailed
<1>4. rows' = rows /\ sheet' = sheet
  BY <1>2, <1>3, Progress DEF TypeOK
<1>5. pc' \in {"row", "resolve"} => \A j \in RowIds : Behind(j) \/ j = cur => Behind(j)'
  BY <1>2, <1>3, Progress DEF TypeOK
<1>6. AsksOnce(sheet)' /\ AsksOnce(rows)'
  BY <1>4 DEF PostInv, AsksOnce
<1>7. CASE ~Landed(answer)
  <2>1. answer # "ok"
    BY <1>7 DEF Landed
  <2> QED
    BY <1>1, <1>2, <1>3, <1>7, <2>1, QuietSilent
<1>8. CASE Landed(answer)
  <2>1. replies' = replies \cup {new} /\ nextId' = nextId + 1 /\ seen \subseteq seen'
    BY <1>1, <1>8
  <2>2. ~threads[t].deleted
    BY <1>1, <1>8 DEF Answers, Landed, LiveThread
  <2>3. /\ new.id = nextId /\ new.thread = t /\ new.text = x /\ new.by = who /\ ~new.deleted
    BY DEF Posted
  <2>4. IdsFresh'
    BY <2>1, <2>3 DEF PostInv, IdsFresh, TypeOK, DocumentOK, Reply
  <2>5. DeadThreadsAreSilent'
    BY <1>2, <2>1, <2>2, <2>3 DEF PostInv, DeadThreadsAreSilent
  <2>6. ListingCovers'
    <3> SUFFICES ASSUME pc' \in {"row", "resolve"}, NEW q \in replies', q.by = "run", ~q.deleted
                 PROVE  \/ q \in seen'
                        \/ \E j \in RowIds : /\ Behind(j)' /\ rows'[j].thread_id = q.thread
                                             /\ rows'[j].reply_comment = q.text
      BY DEF ListingCovers
    <3>1. CASE q \in replies
      BY <1>2, <1>4, <1>5, <2>1, <3>1 DEF PostInv, ListingCovers
    <3>2. CASE q = new
      <4>1. \E j \in RowIds : j = cur /\ rows'[j].thread_id = t /\ rows'[j].reply_comment = x
        BY <1>4 DEF TypeOK, LoopOK, Row
      <4> QED
        BY <1>5, <2>3, <3>2, <4>1
    <3> QED
      BY <2>1, <3>1, <3>2
  <2>7. ASSUME NEW r \in replies, r.by = "run", ~r.deleted, r.thread = t, r.text = x, ~force
        PROVE  FALSE
    BY <2>7, NotSaidYet DEF PostReply
  <2>8. NoDoublePost'
    BY <2>1, <2>3, <2>7 DEF PostInv, NoDoublePost
  <2> QED
    BY <1>6, <2>4, <2>5, <2>6, <2>8 DEF PostInv
<1> QED
  BY <1>7, <1>8

LEMMA DeleteReplySilent ==
  ASSUME TypeOK, PostInv, TypeOK', DeleteReply
  PROVE  PostInv'
<1>1. PICK r \in replies, again \in BOOLEAN :
        \E answer \in Answers("delete", again \/ ~r.deleted) :
          /\ replies' = IF Landed(answer) THEN StripReply(replies, r.thread, r.id) ELSE replies
          /\ seen' = IF answer = "ok" THEN StripReply(seen, r.thread, r.id) ELSE seen
          /\ Charge(answer) /\ FinishDelete(answer)
  BY DEF DeleteReply
<1>2. PICK answer \in Answers("delete", again \/ ~r.deleted) :
          /\ replies' = IF Landed(answer) THEN StripReply(replies, r.thread, r.id) ELSE replies
          /\ seen' = IF answer = "ok" THEN StripReply(seen, r.thread, r.id) ELSE seen
          /\ FinishDelete(answer)
  BY <1>1
<1>3. pc = "row" /\ UNCHANGED <<threads, nextId>>
  BY DEF DeleteReply, DeletesReply, Deletes
<1>4. \E result, done : Finish(result, done) \/ AfterReply(result, done)
  BY <1>2 DEF FinishDelete
<1>5. rows' = rows /\ sheet' = sheet
  BY <1>3, <1>4, Progress DEF TypeOK
<1>6. pc' \in {"row", "resolve"} => \A j \in RowIds : Behind(j) => Behind(j)'
  BY <1>3, <1>4, Progress DEF TypeOK
<1>7. replies \in SUBSET Reply /\ seen \in SUBSET Reply
  BY DEF TypeOK, DocumentOK, ListingOK
<1>8. \A q \in replies' : ~q.deleted => q \in replies /\ (q \in seen => q \in seen')
  <2>1. answer = "ok" => Landed(answer)
    BY DEF Landed
  <2> QED
    BY <1>2, <1>7, <2>1, StripReplyLive
<1>9. \A q \in replies' : ~q.deleted => ~threads'[q.thread].deleted
  BY <1>3, <1>8 DEF PostInv, DeadThreadsAreSilent
<1>10. IdsFresh'
  <2>1. (\A p \in replies : p.id < nextId) /\ \A p, q \in replies : p.id = q.id => p = q
    BY DEF PostInv, IdsFresh
  <2>2. CASE Landed(answer)
    <3>1. replies' = StripReply(replies, r.thread, r.id)
      BY <1>2, <2>2
    <3> QED
      <4>1. (\A p \in StripReply(replies, r.thread, r.id) : p.id < nextId)
            /\ \A p, q \in StripReply(replies, r.thread, r.id) : p.id = q.id => p = q
        <5> DEFINE a == r.thread
                   b == r.id
        <5> HIDE DEF a, b
        <5>1. (\A p \in StripReply(replies, a, b) : p.id < nextId)
              /\ \A p, q \in StripReply(replies, a, b) : p.id = q.id => p = q
          BY <1>7, <2>1, StripReplyFresh
        <5> QED
          BY <5>1 DEF a, b
      <4> QED
        BY <1>3, <1>7, <2>1, <3>1, <4>1 DEF IdsFresh
  <2>3. CASE ~Landed(answer)
    BY <1>2, <1>3, <2>1, <2>3 DEF IdsFresh
  <2> QED
    BY <2>2, <2>3
<1>11. AsksOnce(sheet)' /\ AsksOnce(rows)'
  BY <1>5 DEF PostInv, AsksOnce
<1>12. pc' \in {"row", "resolve"} =>
         \A q \in replies' : q.by = "run" /\ ~q.deleted =>
           \/ q \in seen'
           \/ \E j \in RowIds : /\ Behind(j)' /\ rows'[j].thread_id = q.thread
                                /\ rows'[j].reply_comment = q.text
  BY <1>3, <1>5, <1>6, <1>8 DEF PostInv, ListingCovers
<1> QED
  BY <1>8, <1>9, <1>10, <1>11, <1>12, SilentStep

LEMMA DeleteThreadSilent ==
  ASSUME TypeOK, PostInv, TypeOK', DeleteThread
  PROVE  PostInv'
<1> DEFINE t == Row.thread_id
<1>1. PICK again \in BOOLEAN : \E answer \in Answers("delete", again \/ LiveThread(t)) :
       /\ threads' = IF Landed(answer) THEN [threads EXCEPT ![t].deleted = TRUE] ELSE threads
       /\ replies' = IF Landed(answer) THEN StripThread(replies, t) ELSE replies
       /\ comments' = IF answer = "ok" THEN [comments EXCEPT ![t].deleted = TRUE] ELSE comments
       /\ seen' = IF answer = "ok" THEN StripThread(seen, t) ELSE seen
       /\ Charge(answer) /\ FinishDelete(answer)
  BY DEF DeleteThread
<1>2. PICK answer \in Answers("delete", again \/ LiveThread(t)) :
       /\ threads' = IF Landed(answer) THEN [threads EXCEPT ![t].deleted = TRUE] ELSE threads
       /\ replies' = IF Landed(answer) THEN StripThread(replies, t) ELSE replies
       /\ seen' = IF answer = "ok" THEN StripThread(seen, t) ELSE seen
       /\ FinishDelete(answer)
  BY <1>1
<1>3. pc = "row" /\ UNCHANGED nextId
  BY DEF DeleteThread, DeletesThread, Deletes
<1>4. \E result, done : Finish(result, done) \/ AfterReply(result, done)
  BY <1>2 DEF FinishDelete
<1>5. rows' = rows /\ sheet' = sheet
  BY <1>3, <1>4, Progress DEF TypeOK
<1>6. pc' \in {"row", "resolve"} => \A j \in RowIds : Behind(j) => Behind(j)'
  BY <1>3, <1>4, Progress DEF TypeOK
<1>7. replies \in SUBSET Reply /\ seen \in SUBSET Reply
  BY DEF TypeOK, DocumentOK, ListingOK
<1>8. \A q \in replies' : ~q.deleted => q \in replies /\ (q \in seen => q \in seen')
  <2>1. answer = "ok" => Landed(answer)
    BY DEF Landed
  <2> QED
    BY <1>2, <1>7, <2>1, StripThreadLive
<1>9. \A q \in replies' : ~q.deleted => ~threads'[q.thread].deleted
  <2> SUFFICES ASSUME NEW q \in replies', ~q.deleted
               PROVE  ~threads'[q.thread].deleted
    OBVIOUS
  <2>1. q \in replies /\ q.thread \in Threads /\ ~threads[q.thread].deleted
    BY <1>7, <1>8 DEF PostInv, DeadThreadsAreSilent, Reply
  <2>2. CASE Landed(answer)
    BY <1>2, <1>7, <2>1, <2>2, StripThreadLive DEF TypeOK, DocumentOK
  <2>3. CASE ~Landed(answer)
    BY <1>2, <2>1, <2>3
  <2> QED
    BY <2>2, <2>3
<1>10. IdsFresh'
  <2>1. (\A p \in replies : p.id < nextId) /\ \A p, q \in replies : p.id = q.id => p = q
    BY DEF PostInv, IdsFresh
  <2>2. CASE Landed(answer)
    <3>1. replies' = StripThread(replies, t)
      BY <1>2, <2>2
    <3> QED
      <4>1. (\A p \in StripThread(replies, t) : p.id < nextId)
            /\ \A p, q \in StripThread(replies, t) : p.id = q.id => p = q
        BY <1>3, <1>7, <2>1, <3>1, StripThreadFresh
      <4> QED
        BY <1>3, <1>7, <2>1, <3>1, <4>1 DEF IdsFresh
  <2>3. CASE ~Landed(answer)
    BY <1>2, <1>3, <2>1, <2>3 DEF IdsFresh
  <2> QED
    BY <2>2, <2>3
<1>11. AsksOnce(sheet)' /\ AsksOnce(rows)'
  BY <1>5 DEF PostInv, AsksOnce
<1>12. pc' \in {"row", "resolve"} =>
         \A q \in replies' : q.by = "run" /\ ~q.deleted =>
           \/ q \in seen'
           \/ \E j \in RowIds : /\ Behind(j)' /\ rows'[j].thread_id = q.thread
                                /\ rows'[j].reply_comment = q.text
  BY <1>3, <1>5, <1>6, <1>8 DEF PostInv, ListingCovers
<1> QED
  BY <1>8, <1>9, <1>10, <1>11, <1>12, SilentStep

\* Between runs and while a register is being read there is no listing to speak of.
LEMMA FrameSilent ==
  ASSUME TypeOK, PostInv, TypeOK',
         (\E a, f \in BOOLEAN : ReadRegister(a, f)) \/ ListComments \/ DryRunOver
         \/ write_back \/ WriteBackFails \/ Crash
  PROVE  PostInv'
<1>1. UNCHANGED document
  BY DEF ReadRegister, ListComments, DryRunOver, write_back, WriteBackFails, Crash
<1>2. IdsFresh' /\ DeadThreadsAreSilent' /\ NoDoublePost'
  BY <1>1 DEF document, PostInv, IdsFresh, DeadThreadsAreSilent, NoDoublePost
<1>3. AsksOnce(NothingRead)
  BY DEF AsksOnce, SameWords, NothingRead
<1>4. (rows' \in {rows, sheet, NothingRead}) /\ (sheet' \in {sheet, rows})
  BY DEF ReadRegister, ListComments, DryRunOver, write_back, WriteBackFails, Crash, Forget,
     register
<1>5. AsksOnce(sheet)' /\ AsksOnce(rows)'
  BY <1>3, <1>4 DEF PostInv, AsksOnce
<1>6. ListingCovers'
  <2>1. CASE ListComments
    <3>1. \A q \in replies : ~q.deleted => LiveThread(q.thread)
      BY DEF PostInv, DeadThreadsAreSilent, LiveThread, TypeOK, DocumentOK, Reply
    <3>2. \A q \in replies : ~q.deleted => q \in seen'
      BY <2>1, <3>1 DEF ListComments
    <3> QED
      BY <1>1, <3>2 DEF ListingCovers, document
  <2>2. CASE ~ListComments
    <3>1. pc' \in {"idle", "list"}
      BY <2>2 DEF ReadRegister, DryRunOver, write_back, WriteBackFails, Crash, Forget
    <3> QED
      BY <3>1 DEF ListingCovers
  <2> QED
    BY <2>1, <2>2
<1> QED
  BY <1>2, <1>5, <1>6 DEF PostInv

\* Nothing a person does makes two live replies of the runs out of one, and a register
\* stays free of repeated requests: its words are not edited, only decided on and sorted.
LEMMA PeopleSilent ==
  ASSUME TypeOK, PostInv, TypeOK', People
  PROVE  PostInv'
<1>1. UNCHANGED <<pc, cur, rows, seen>>
  BY DEF People, SomebodyReplies, SomebodySettles, SomebodyDeletes, EditCell, SortSheet,
     Human, memory
<1>2. AsksOnce(rows)'
  BY <1>1 DEF PostInv, AsksOnce
<1>3. AsksOnce(sheet)'
  <2>1. CASE EditCell
    <3>1. \A i \in RowIds : /\ sheet'[i].thread_id = sheet[i].thread_id
                            /\ sheet'[i].reply_comment = sheet[i].reply_comment
      <4>1. PICK k \in RowIds, cell \in {"TRUE", "FALSE"} :
              sheet' = [sheet EXCEPT ![k].resolve_comment = cell]
        BY <2>1 DEF EditCell
      <4>2. \A i \in RowIds :
              sheet'[i] = IF i = k THEN [sheet[k] EXCEPT !.resolve_comment = cell] ELSE sheet[i]
        BY <4>1 DEF TypeOK, RegisterOK
      <4>3. \A i \in RowIds : sheet[i] \in Request
        BY DEF TypeOK, RegisterOK
      <4> QED
        BY <4>2, <4>3 DEF Request
    <3> QED
      BY <3>1 DEF PostInv, AsksOnce, SameWords
  <2>2. CASE SortSheet
    <3>1. PICK i \in RowIds, j \in RowIds :
            i < j /\ sheet' = [sheet EXCEPT ![i] = sheet[j], ![j] = sheet[i]]
      BY <2>2 DEF SortSheet
    <3>2. \A k \in RowIds : sheet'[k] = IF k = j THEN sheet[i] ELSE IF k = i THEN sheet[j] ELSE sheet[k]
      BY <3>1 DEF TypeOK, RegisterOK
    <3> QED
      BY <3>2 DEF PostInv, AsksOnce
  <2>3. CASE SomebodyReplies \/ SomebodySettles \/ SomebodyDeletes
    BY <2>3 DEF SomebodyReplies, SomebodySettles, SomebodyDeletes, register, PostInv, AsksOnce
  <2> QED
    BY <2>1, <2>2, <2>3 DEF People
<1>4. CASE SomebodyReplies
  <2>1. PICK t \in Threads, x \in Texts, who \in {"me", "other"} :
          LiveThread(t) /\ replies' = replies \cup {Posted(t, x, who)}
    BY <1>4 DEF SomebodyReplies
  <2>2. nextId' = nextId + 1 /\ UNCHANGED threads
    BY <1>4 DEF SomebodyReplies
  <2>3. LET new == Posted(t, x, who) IN
          new.id = nextId /\ new.thread = t /\ new.by # "run" /\ ~new.deleted
    BY DEF Posted
  <2>4. IdsFresh'
    BY <2>1, <2>2, <2>3 DEF PostInv, IdsFresh, TypeOK, DocumentOK, Reply
  <2>5. DeadThreadsAreSilent'
    BY <2>1, <2>2, <2>3 DEF PostInv, DeadThreadsAreSilent, LiveThread
  <2>6. NoDoublePost'
    BY <2>1, <2>3 DEF PostInv, NoDoublePost
  <2>7. ListingCovers'
    BY <1>1, <2>1, <2>3 DEF PostInv, ListingCovers, Behind
  <2> QED
    BY <1>2, <1>3, <2>4, <2>5, <2>6, <2>7 DEF PostInv
<1>5. CASE SomebodyDeletes
  <2>1. nextId' = nextId /\ replies \in SUBSET Reply
    BY <1>5 DEF SomebodyDeletes, TypeOK, DocumentOK
  <2>2. (\A p \in replies : p.id < nextId) /\ \A p, q \in replies : p.id = q.id => p = q
    BY DEF PostInv, IdsFresh
  <2>3. CASE \E t \in Threads : /\ threads' = [threads EXCEPT ![t].deleted = TRUE]
                                /\ replies' = StripThread(replies, t)
    <3>1. PICK t \in Threads : /\ threads' = [threads EXCEPT ![t].deleted = TRUE]
                               /\ replies' = StripThread(replies, t)
      BY <2>3
    <3>2. \A q \in replies' : ~q.deleted => q \in replies /\ q.thread # t
      BY <2>1, <3>1, StripThreadLive
    <3>3. \A q \in replies' : ~q.deleted => ~threads'[q.thread].deleted
      BY <2>1, <3>1, <3>2 DEF PostInv, DeadThreadsAreSilent, TypeOK, DocumentOK, Reply
    <3>4. IdsFresh'
      <4>1. (\A p \in StripThread(replies, t) : p.id < nextId)
            /\ \A p, q \in StripThread(replies, t) : p.id = q.id => p = q
        BY <2>1, <2>2, <3>1, StripThreadFresh
      <4> QED
        BY <2>1, <2>2, <3>1, <4>1 DEF IdsFresh
    <3> QED
      BY <1>1, <1>2, <1>3, <3>2, <3>3, <3>4, SilentStep DEF PostInv, ListingCovers, Behind
  <2>4. CASE \E r \in replies : threads' = threads /\ replies' = StripReply(replies, r.thread, r.id)
    <3>1. PICK r \in replies : threads' = threads /\ replies' = StripReply(replies, r.thread, r.id)
      BY <2>4
    <3>2. \A q \in replies' : ~q.deleted => q \in replies
      BY <2>1, <3>1, StripReplyLive
    <3>3. \A q \in replies' : ~q.deleted => ~threads'[q.thread].deleted
      BY <3>1, <3>2 DEF PostInv, DeadThreadsAreSilent
    <3>4. IdsFresh'
      <4>1. (\A p \in StripReply(replies, r.thread, r.id) : p.id < nextId)
            /\ \A p, q \in StripReply(replies, r.thread, r.id) : p.id = q.id => p = q
        BY <2>1, <2>2, <3>1, StripReplyFresh
      <4> QED
        BY <2>1, <2>2, <3>1, <4>1 DEF IdsFresh
    <3> QED
      BY <1>1, <1>2, <1>3, <3>2, <3>3, <3>4, SilentStep DEF PostInv, ListingCovers, Behind
  <2> QED
    BY <1>5, <2>3, <2>4 DEF SomebodyDeletes
<1>6. CASE SomebodySettles \/ EditCell \/ SortSheet
  <2>1. UNCHANGED <<replies, nextId>>
    BY <1>6 DEF SomebodySettles, EditCell, SortSheet, document
  <2>2. \A t \in Threads : threads'[t].deleted = threads[t].deleted
    BY <1>6 DEF SomebodySettles, EditCell, SortSheet, document, TypeOK, DocumentOK
  <2>3. \A q \in replies' : ~q.deleted => q \in replies /\ ~threads'[q.thread].deleted
    BY <2>1, <2>2 DEF PostInv, DeadThreadsAreSilent, TypeOK, DocumentOK, Reply
  <2>4. IdsFresh'
    BY <2>1 DEF PostInv, IdsFresh
  <2> QED
    BY <1>1, <1>2, <1>3, <2>3, <2>4, <2>1, SilentStep DEF PostInv, ListingCovers, Behind
<1> QED
  BY <1>4, <1>5, <1>6 DEF People

LEMMA NextPostsOnce ==
  ASSUME TypeOK, PostInv, [Next]_vars
  PROVE  PostInv'
<1>1. TypeOK'
  BY NextTyped
<1>2. CASE RowStep
  BY <1>1, <1>2, QuietRowStep, PostReplyOnce, DeleteReplySilent, DeleteThreadSilent
<1>3. CASE UNCHANGED vars
  BY <1>3 DEF vars, document, register, memory, PostInv, IdsFresh, DeadThreadsAreSilent,
     ListingCovers, Behind, AsksOnce, NoDoublePost
<1> QED
  BY <1>1, <1>2, <1>3, FrameSilent, PeopleSilent DEF Next, RunStep

LEMMA InitPostsOnce ==
  ASSUME Init, \A reg \in Registers : AsksOnce(reg)
  PROVE  PostInv
<1>1. IdsFresh /\ DeadThreadsAreSilent /\ NoDoublePost
  BY RegisterAssumption DEF Init, IdsFresh, DeadThreadsAreSilent, NoDoublePost
<1>2. AsksOnce(sheet) /\ AsksOnce(rows)
  BY DEF Init, AsksOnce, SameWords, NothingRead
<1>3. ListingCovers
  BY DEF Init, ListingCovers
<1> QED
  BY <1>1, <1>2, <1>3 DEF PostInv

\* A register that asks for no words twice has none of them posted twice: over any number of
\* re-runs, crashes, lost answers, failed saves and other people's edits, no thread ever
\* carries two live copies of a reply of apply_comment_actions run without force.
THEOREM PostsOnce ==
  ASSUME \A reg \in Registers : AsksOnce(reg)
  PROVE  Spec => []NoDoublePost
<1>1. Init => TypeOK /\ PostInv
  BY InitTyped, InitPostsOnce
<1>2. TypeOK /\ PostInv /\ [Next]_vars => (TypeOK /\ PostInv)'
  BY NextTyped, NextPostsOnce
<1>3. PostInv => NoDoublePost
  BY DEF PostInv
<1> QED
  BY <1>1, <1>2, <1>3, PTL DEF Spec

-----------------------------------------------------------------------------
(* The promise is kept.                                                    *)

\* A step that leaves the live replies of the runs and the deleted threads alone is none
\* that the promise could see.
LEMMA UnseenStep ==
  ASSUME \A r : r.by = "run" /\ ~r.deleted => (r \in replies <=> r \in replies'),
         \A t \in Threads : threads'[t].deleted = threads[t].deleted
  PROVE  [Promise!Next]_<<[q \in Threads \X Texts |-> {r.id : r \in LiveCopies(q[1], q[2])}],
                          {t \in Threads : threads[t].deleted}>>
<1>1. \A t, x : LiveCopies(t, x)' = LiveCopies(t, x)
  BY DEF LiveCopies
<1>2. {t \in Threads : threads'[t].deleted} = {t \in Threads : threads[t].deleted}
  OBVIOUS
<1>3. [q \in Threads \X Texts |-> {r.id : r \in LiveCopies(q[1], q[2])}]'
        = [q \in Threads \X Texts |-> {r.id : r \in LiveCopies(q[1], q[2])}]
  BY <1>1
<1> QED
  BY <1>2, <1>3

\* A reply with a fresh id, where there is no live copy of it and its thread is there.
LEMMA SaidOnce ==
  ASSUME NEW t \in Threads, NEW x \in Texts, NEW new,
         new.thread = t, new.text = x, new.by = "run", ~new.deleted,
         replies' = replies \cup {new}, threads' = threads, ~threads[t].deleted,
         \A r \in replies : ~(r.by = "run" /\ ~r.deleted /\ r.thread = t /\ r.text = x)
  PROVE  Promise!Say(t, x)
<1>1. LiveCopies(t, x) = {} /\ LiveCopies(t, x)' = {new}
  BY DEF LiveCopies
<1>2. \A u, y : u # t \/ y # x => LiveCopies(u, y)' = LiveCopies(u, y)
  BY DEF LiveCopies
<1> DEFINE c == [q \in Threads \X Texts |-> {r.id : r \in LiveCopies(q[1], q[2])}]
<1>3. c[<<t, x>>] = {} /\ c'[<<t, x>>] = {new.id}
  BY <1>1
<1>4. c' = [c EXCEPT ![<<t, x>>] = {new.id}]
  <2>1. ASSUME NEW q \in Threads \X Texts
        PROVE  c'[q] = IF q = <<t, x>> THEN {new.id} ELSE c[q]
    <3>1. c'[q] = {r.id : r \in LiveCopies(q[1], q[2])'} /\ c[q] = {r.id : r \in LiveCopies(q[1], q[2])}
      OBVIOUS
    <3>2. CASE q = <<t, x>>
      BY <1>3, <3>2
    <3>3. CASE q # <<t, x>>
      <4>1. q[1] # t \/ q[2] # x
        BY <3>3
      <4> QED
        BY <1>2, <3>1, <3>3, <4>1
    <3> QED
      BY <3>2, <3>3
  <2> HIDE DEF c
  <2>2. c = [q \in Threads \X Texts |-> c[q]] /\ c' = [q \in Threads \X Texts |-> c'[q]]
    BY DEF c
  <2> QED
    BY <2>1, <2>2
<1>5. t \notin {u \in Threads : threads[u].deleted}
  OBVIOUS
<1>6. {u \in Threads : threads[u].deleted}' = {u \in Threads : threads[u].deleted}
  OBVIOUS
<1> QED
  BY <1>3, <1>4, <1>5, <1>6 DEF Promise!Say

\* Taking back the one live copy there is.
LEMMA UnsaidOnce ==
  ASSUME NoDoublePost, NEW r \in replies, r \in Reply, r.by = "run", ~r.deleted,
         \A q : q \in replies' /\ ~q.deleted <=> q \in replies /\ ~q.deleted /\ q # r,
         threads' = threads
  PROVE  Promise!Unsay(r.thread, r.text)
<1> DEFINE t == r.thread
           x == r.text
           c == [q \in Threads \X Texts |-> {s.id : s \in LiveCopies(q[1], q[2])}]
<1>0. t \in Threads /\ x \in Texts
  BY DEF Reply
<1>1. LiveCopies(t, x) = {r} /\ LiveCopies(t, x)' = {}
  BY DEF LiveCopies, NoDoublePost
<1>2. \A u, y : u # t \/ y # x => LiveCopies(u, y)' = LiveCopies(u, y)
  BY DEF LiveCopies
<1> HIDE DEF t, x
<1>3. c[<<t, x>>] # {} /\ c'[<<t, x>>] = {}
  BY <1>0, <1>1
<1>4. c' = [c EXCEPT ![<<t, x>>] = {}]
  <2>1. ASSUME NEW q \in Threads \X Texts
        PROVE  c'[q] = IF q = <<t, x>> THEN {} ELSE c[q]
    <3>1. c'[q] = {s.id : s \in LiveCopies(q[1], q[2])'} /\ c[q] = {s.id : s \in LiveCopies(q[1], q[2])}
      OBVIOUS
    <3>2. CASE q = <<t, x>>
      BY <1>3, <3>2
    <3>3. CASE q # <<t, x>>
      <4>1. q[1] # t \/ q[2] # x
        BY <3>3
      <4> QED
        BY <1>2, <3>1, <3>3, <4>1
    <3> QED
      BY <3>2, <3>3
  <2> HIDE DEF c
  <2>2. c = [q \in Threads \X Texts |-> c[q]] /\ c' = [q \in Threads \X Texts |-> c'[q]]
    BY DEF c
  <2> QED
    BY <2>1, <2>2
<1>5. {u \in Threads : threads[u].deleted}' = {u \in Threads : threads[u].deleted}
  OBVIOUS
<1> QED
  BY <1>3, <1>4, <1>5 DEF Promise!Unsay, t, x

\* A thread that is deleted takes its replies with it.
LEMMA BuriedOnce ==
  ASSUME NEW t \in Threads, ~threads[t].deleted,
         \A u \in Threads : threads'[u].deleted <=> u = t \/ threads[u].deleted,
         \A q : q \in replies' /\ ~q.deleted <=> q \in replies /\ ~q.deleted /\ q.thread # t
  PROVE  Promise!Bury(t)
<1> DEFINE c == [q \in Threads \X Texts |-> {s.id : s \in LiveCopies(q[1], q[2])}]
<1>1. \A x : LiveCopies(t, x)' = {}
  BY DEF LiveCopies
<1>2. \A u, y : u # t => LiveCopies(u, y)' = LiveCopies(u, y)
  BY DEF LiveCopies
<1>3. ASSUME NEW q \in Threads \X Texts
      PROVE  c'[q] = IF q[1] = t THEN {} ELSE c[q]
  <2>1. c'[q] = {s.id : s \in LiveCopies(q[1], q[2])'} /\ c[q] = {s.id : s \in LiveCopies(q[1], q[2])}
    OBVIOUS
  <2>2. CASE q[1] = t
    BY <1>1, <2>1, <2>2
  <2>3. CASE q[1] # t
    BY <1>2, <2>1, <2>3
  <2> QED
    BY <2>2, <2>3
<1>4. c' = [q \in Threads \X Texts |-> c'[q]]
  OBVIOUS
<1>5. t \notin {u \in Threads : threads[u].deleted}
  OBVIOUS
<1>6. {u \in Threads : threads'[u].deleted} = {u \in Threads : threads[u].deleted} \cup {t}
  OBVIOUS
<1> HIDE DEF c
<1>7. c' = [q \in Threads \X Texts |-> IF q[1] = t THEN {} ELSE c[q]]
  BY <1>3, <1>4
<1> QED
  BY <1>5, <1>6, <1>7 DEF Promise!Bury, c

\* What the promise sees of a state.
Sight == <<[q \in Threads \X Texts |-> {r.id : r \in LiveCopies(q[1], q[2])}],
           {t \in Threads : threads[t].deleted}>>

LEMMA StripOneKept ==
  ASSUME TypeOK, PostInv, NEW r \in replies, threads' = threads,
         replies' = StripReply(replies, r.thread, r.id)
  PROVE  [Promise!Next]_Sight
<1>1. r \in Reply /\ replies \in SUBSET Reply /\ NoDoublePost
  BY DEF TypeOK, DocumentOK, PostInv
<1>2. \A q : q \in replies' /\ ~q.deleted <=> q \in replies /\ ~q.deleted /\ q # r
  BY <1>1, StripReplyLive DEF PostInv, IdsFresh
<1>3. CASE r.by = "run" /\ ~r.deleted
  <2>1. Promise!Unsay(r.thread, r.text)
    BY <1>1, <1>2, <1>3, UnsaidOnce
  <2> QED
    BY <1>1, <2>1 DEF Promise!Next, Reply
<1>4. CASE ~(r.by = "run" /\ ~r.deleted)
  BY <1>2, <1>4, UnseenStep DEF Sight
<1> QED
  BY <1>3, <1>4

LEMMA StripAllKept ==
  ASSUME TypeOK, PostInv, NEW t \in Threads, threads' = [threads EXCEPT ![t].deleted = TRUE],
         replies' = StripThread(replies, t)
  PROVE  [Promise!Next]_Sight
<1>1. \A q : q \in replies' /\ ~q.deleted <=> q \in replies /\ ~q.deleted /\ q.thread # t
  BY StripThreadLive DEF TypeOK, DocumentOK
<1>2. \A u \in Threads : threads'[u].deleted <=> u = t \/ threads[u].deleted
  BY DEF TypeOK, DocumentOK
<1>3. CASE ~threads[t].deleted
  <2>1. Promise!Bury(t)
    BY <1>1, <1>2, <1>3, BuriedOnce
  <2> QED
    BY <2>1 DEF Promise!Next
<1>4. CASE threads[t].deleted
  <2>1. threads' = threads
    BY <1>4 DEF TypeOK, DocumentOK
  <2>2. \A q : q \in replies /\ ~q.deleted => q.thread # t
    BY <1>4 DEF PostInv, DeadThreadsAreSilent
  <2> QED
    BY <1>1, <2>1, <2>2, UnseenStep DEF Sight
<1> QED
  BY <1>3, <1>4

LEMMA NextKeepsPromise ==
  ASSUME TypeOK, PostInv, [Next]_vars
  PROVE  [Promise!Next]_Sight
<1>1. ASSUME UNCHANGED replies, \A t \in Threads : threads'[t].deleted = threads[t].deleted
      PROVE  [Promise!Next]_Sight
  BY <1>1, UnseenStep DEF Sight
<1>2. CASE PostReply
  <2> DEFINE t == Row.thread_id
             x == Row.reply_comment
             new == Posted(t, x, IF force THEN "forced" ELSE "run")
  <2>1. PICK answer \in Answers("reply", LiveThread(t)) :
          IF Landed(answer) THEN replies' = replies \cup {new} ELSE UNCHANGED replies
    BY <1>2 DEF PostReply
  <2>2. UNCHANGED threads /\ t \in Threads /\ x \in Texts
    BY <1>2, RowTyped DEF PostReply, StillToSay, Replies, Talks, Listed, Request
  <2>3. /\ new.thread = t /\ new.text = x /\ ~new.deleted
        /\ new.by = IF force THEN "forced" ELSE "run"
    BY DEF Posted
  <2>4. CASE ~Landed(answer)
    BY <1>1, <2>1, <2>2, <2>4
  <2>5. CASE Landed(answer) /\ force
    <3>1. replies' = replies \cup {new} /\ new.by # "run"
      BY <2>1, <2>3, <2>5
    <3> HIDE DEF new
    <3> QED
      BY <2>2, <3>1, UnseenStep DEF Sight
  <2>6. CASE Landed(answer) /\ ~force
    <3>1. ~threads[t].deleted
      BY <2>1, <2>6 DEF Answers, Landed, LiveThread
    <3>2. \A r \in replies : ~(r.by = "run" /\ ~r.deleted /\ r.thread = t /\ r.text = x)
      BY <1>2, <2>6, NotSaidYet DEF PostReply
    <3>3. replies' = replies \cup {new} /\ new.by = "run"
      BY <2>1, <2>3, <2>6
    <3>4. PICK u, y, said : u \in Threads /\ y \in Texts /\ u = t /\ y = x /\ said = new
      BY <2>2
    <3>5. /\ said.thread = u /\ said.text = y /\ said.by = "run" /\ ~said.deleted
          /\ replies' = replies \cup {said} /\ ~threads[u].deleted
      BY <2>3, <3>1, <3>3, <3>4
    <3>6. \A r \in replies : ~(r.by = "run" /\ ~r.deleted /\ r.thread = u /\ r.text = y)
      BY <3>2, <3>4
    <3>7. Promise!Say(u, y)
      BY <2>2, <3>4, <3>5, <3>6, SaidOnce
    <3>8. u \in Threads /\ y \in Texts
      BY <3>4
    <3> QED
      BY <3>7, <3>8 DEF Promise!Next
  <2> QED
    BY <2>4, <2>5, <2>6
<1>3. CASE DeleteReply
  <2>1. PICK r \in replies : replies' \in {replies, StripReply(replies, r.thread, r.id)}
    BY <1>3 DEF DeleteReply
  <2>2. threads' = threads
    BY <1>3 DEF DeleteReply
  <2> QED
    BY <1>1, <2>1, <2>2, StripOneKept
<1>4. CASE DeleteThread
  <2>1. \/ UNCHANGED <<threads, replies>>
        \/ /\ threads' = [threads EXCEPT ![Row.thread_id].deleted = TRUE]
           /\ replies' = StripThread(replies, Row.thread_id)
    BY <1>4 DEF DeleteThread
  <2>2. PICK t \in Threads : t = Row.thread_id
    BY <1>4 DEF DeleteThread, DeletesThread, Listed
  <2> QED
    BY <1>1, <2>1, <2>2, StripAllKept
<1>5. CASE SomebodyDeletes
  <2>1. CASE \E t \in Threads : /\ threads' = [threads EXCEPT ![t].deleted = TRUE]
                                /\ replies' = StripThread(replies, t)
    BY <2>1, StripAllKept
  <2>2. CASE \E r \in replies : threads' = threads /\ replies' = StripReply(replies, r.thread, r.id)
    BY <2>2, StripOneKept
  <2> QED
    BY <1>5, <2>1, <2>2 DEF SomebodyDeletes
<1>6. CASE SomebodyReplies
  <2>1. PICK t \in Threads, x \in Texts, who \in {"me", "other"} :
          replies' = replies \cup {Posted(t, x, who)} /\ threads' = threads
    BY <1>6 DEF SomebodyReplies
  <2>2. Posted(t, x, who).by # "run"
    BY DEF Posted
  <2> QED
    BY <2>1, <2>2, UnseenStep DEF Sight
<1>7. CASE SomebodySettles \/ Settle
  <2>1. \/ threads' = threads
        \/ \E t, b : threads' = [threads EXCEPT ![t].resolved = b]
    BY <1>7 DEF SomebodySettles, Settle
  <2>2. replies' = replies /\ \A t \in Threads : threads'[t].deleted = threads[t].deleted
    BY <1>7, <2>1 DEF SomebodySettles, Settle, TypeOK, DocumentOK
  <2> QED
    BY <1>1, <2>2
<1>8. CASE RowStep /\ ~PostReply /\ ~DeleteReply /\ ~DeleteThread /\ ~Settle
  <2>1. UNCHANGED document
    BY <1>8 DEF RowStep, NothingRequested, RefuseRow, MissingStep, FoundTombstone, ReportMissing,
       DeleteStep, DeleteTicked, NoSuchReply, AlreadyDeleted, WouldDelete,
       ReplyStep, ReplyTicked, AlreadySaid, WouldReply, ResolveStep, AlreadySettled,
       ResolveTicked, WouldSettle, Untouched
  <2> QED
    BY <1>1, <2>1 DEF document
<1>9. CASE \/ \E a, f \in BOOLEAN : ReadRegister(a, f)
           \/ ListComments \/ DryRunOver \/ write_back \/ WriteBackFails \/ Crash
           \/ EditCell \/ SortSheet \/ UNCHANGED vars
  <2>1. UNCHANGED document
    BY <1>9 DEF ReadRegister, ListComments, DryRunOver, write_back, WriteBackFails, Crash,
       EditCell, SortSheet, vars
  <2> QED
    BY <1>1, <2>1 DEF document
<1> QED
  BY <1>2, <1>3, <1>4, <1>5, <1>6, <1>7, <1>8, <1>9 DEF Next, RunStep, People

\* The tool keeps its promise: seen from the document alone, every run, re-run, crash and lost
\* answer is a step that says an absent reply, takes one back, buries a thread, or nothing.
THEOREM PromiseKept ==
  ASSUME \A reg \in Registers : AsksOnce(reg)
  PROVE  Spec => KeepsPromise
<1>1. Init => TypeOK /\ PostInv
  BY InitTyped, InitPostsOnce
<1>2. TypeOK /\ PostInv /\ [Next]_vars => (TypeOK /\ PostInv)'
  BY NextTyped, NextPostsOnce
<1>3. Init => Promise!Init
  <2> SUFFICES ASSUME Init PROVE Promise!Init
    OBVIOUS
  <2>1. \A t, x : LiveCopies(t, x) = {}
    BY RegisterAssumption DEF Init, LiveCopies
  <2>2. \A t \in Threads : ~threads[t].deleted
    BY DEF Init
  <2> QED
    BY <2>1, <2>2 DEF Promise!Init
<1>4. TypeOK /\ PostInv /\ [Next]_vars => [Promise!Next]_Sight
  BY NextKeepsPromise
<1> QED
  BY <1>1, <1>2, <1>3, <1>4, PTL DEF Spec, KeepsPromise, Promise!Spec, Sight

-----------------------------------------------------------------------------
(* Why a marker can be trusted.                                            *)

\* A .csv is written whole; in an .xlsx the markers go in by position, which is safe only
\* while nobody sorts the sheet under the run.
MarkersKeepTheirRow == Suffix = ".csv" \/ "sort" \notin Humans

\* The markers of a register, on disk or in memory, stand for work done.
Earned(reg, marks) ==
  \A i \in RowIds : /\ "reply" \in marks[i] => Said(reg[i])
                    /\ "delete" \in marks[i] => Removed(reg[i])

\* A row asks for the same as another one, its resolve column aside.
SameRequest(p, q) == /\ p.thread_id = q.thread_id /\ p.reply_to = q.reply_to
                     /\ p.reply_comment = q.reply_comment /\ p.delete_comment = q.delete_comment
SameRows == Suffix # ".csv" /\ pc # "idle" => \A i \in RowIds : SameRequest(rows[i], sheet[i])

\* What the run believes of the document was so: a listed reply is still there in some
\* form, and a thread known or found to be deleted is.
Echoes(r, rs) == \E q \in rs : /\ q.id = r.id /\ q.thread = r.thread /\ q.text = r.text
                               /\ q.by = r.by /\ (r.deleted => q.deleted)
SeenIsThere == \A r \in seen : Echoes(r, replies)
DeadIsDead == \A t \in Threads : /\ comments[t].deleted => threads[t].deleted
                                 /\ pc \in {"row", "resolve"} /\ ~comments[t].listed => threads[t].deleted

\* Between its reply and its resolve a row is a well-formed thread row whose words are there.
Halfway ==
  pc = "resolve" => /\ ~IsReplyRow(Row) /\ ~WantsDelete(Row) /\ Listed(Row.thread_id)
                    /\ decision(Row.resolve_comment) \in {"act", "reverse"}
                    /\ apply => Said(Row)

\* Rows the run has not reached have nothing reported, and a reported reply is ticked.
Reached(i) == pc = "write" \/ Behind(i)
Accounts == /\ pc \in {"idle", "list"} => cur = 1 /\ missing = {}
            /\ \A i \in RowIds : ~Reached(i) => report[i] = Blank
            /\ \A i \in RowIds : apply /\ report[i].replied => "reply" \in ticks[i]

MarkInv == /\ Earned(sheet, ticked) /\ (pc # "idle" => Earned(rows, ticks))
           /\ SameRows /\ SeenIsThere /\ DeadIsDead /\ Halfway /\ Accounts
           /\ SuccessMeansDone /\ ReportHonest

-----------------------------------------------------------------------------
(* The document only grows: nothing that was said or deleted is undone.    *)

Grows == /\ \A r \in replies : Echoes(r, replies')
         /\ \A t \in Threads : threads[t].deleted => threads'[t].deleted

\* Stripping leaves an echo of every reply, and strips echoes alike.
LEMMA StripEchoes ==
  ASSUME NEW rs \in SUBSET Reply, NEW r \in Reply, NEW t, NEW id, Echoes(r, rs)
  PROVE  Echoes(r, StripReply(rs, t, id)) /\ Echoes(r, StripThread(rs, t))
<1>1. PICK q \in rs : /\ q.id = r.id /\ q.thread = r.thread /\ q.text = r.text
                      /\ q.by = r.by /\ (r.deleted => q.deleted)
  BY DEF Echoes
<1> DEFINE s == [q EXCEPT !.deleted = TRUE]
<1>2. /\ s.id = r.id /\ s.thread = r.thread /\ s.text = r.text /\ s.by = r.by /\ s.deleted
  BY <1>1 DEF Reply
<1>3. \E p \in StripReply(rs, t, id) : p \in {q, s}
  BY DEF StripReply
<1>4. \E p \in StripThread(rs, t) : p \in {q, s}
  BY DEF StripThread
<1> HIDE DEF s
<1>5. ASSUME NEW p, p \in {q, s}
      PROVE  /\ p.id = r.id /\ p.thread = r.thread /\ p.text = r.text
             /\ p.by = r.by /\ (r.deleted => p.deleted)
  BY <1>1, <1>2, <1>5
<1> QED
  BY <1>3, <1>4, <1>5 DEF Echoes

\* What a stripped listing holds is echoed by the stripped document.
LEMMA StripBoth ==
  ASSUME NEW rs \in SUBSET Reply, NEW known \in SUBSET Reply, NEW t, NEW id,
         \A r \in known : Echoes(r, rs)
  PROVE  /\ \A r \in StripReply(known, t, id) : Echoes(r, StripReply(rs, t, id))
         /\ \A r \in StripThread(known, t) : Echoes(r, StripThread(rs, t))
<1>1. ASSUME NEW r \in known, NEW q \in rs, q.id = r.id, q.thread = r.thread, q.text = r.text,
             q.by = r.by, r.deleted => q.deleted
      PROVE  LET s == [r EXCEPT !.deleted = TRUE]
                 p == [q EXCEPT !.deleted = TRUE]
             IN /\ s.id = r.id /\ s.thread = r.thread /\ s.text = r.text /\ s.by = r.by
                /\ p.id = r.id /\ p.thread = r.thread /\ p.text = r.text /\ p.by = r.by /\ p.deleted
  BY <1>1 DEF Reply
<1>2. ASSUME NEW r \in StripReply(known, t, id)
      PROVE  Echoes(r, StripReply(rs, t, id))
  <2>1. PICK k \in known :
          r = IF k.thread = t /\ k.id = id THEN [k EXCEPT !.deleted = TRUE] ELSE k
    BY <1>2 DEF StripReply
  <2>2. PICK q \in rs : /\ q.id = k.id /\ q.thread = k.thread /\ q.text = k.text
                        /\ q.by = k.by /\ (k.deleted => q.deleted)
    BY DEF Echoes
  <2> DEFINE p == IF q.thread = t /\ q.id = id THEN [q EXCEPT !.deleted = TRUE] ELSE q
  <2>3. p \in StripReply(rs, t, id)
    BY DEF StripReply
  <2>4. p.id = r.id /\ p.thread = r.thread /\ p.text = r.text /\ p.by = r.by
        /\ (r.deleted => p.deleted)
    BY <1>1, <2>1, <2>2
  <2> HIDE DEF p
  <2> QED
    BY <2>3, <2>4 DEF Echoes
<1>3. ASSUME NEW r \in StripThread(known, t)
      PROVE  Echoes(r, StripThread(rs, t))
  <2>1. PICK k \in known : r = IF k.thread = t THEN [k EXCEPT !.deleted = TRUE] ELSE k
    BY <1>3 DEF StripThread
  <2>2. PICK q \in rs : /\ q.id = k.id /\ q.thread = k.thread /\ q.text = k.text
                        /\ q.by = k.by /\ (k.deleted => q.deleted)
    BY DEF Echoes
  <2> DEFINE p == IF q.thread = t THEN [q EXCEPT !.deleted = TRUE] ELSE q
  <2>3. p \in StripThread(rs, t)
    BY DEF StripThread
  <2>4. p.id = r.id /\ p.thread = r.thread /\ p.text = r.text /\ p.by = r.by
        /\ (r.deleted => p.deleted)
    BY <1>1, <2>1, <2>2
  <2> HIDE DEF p
  <2> QED
    BY <2>3, <2>4 DEF Echoes
<1> QED
  BY <1>2, <1>3

\* No step of the run or of the people around it unsays a reply or restores a thread.
LEMMA NextGrows ==
  ASSUME TypeOK, [Next]_vars
  PROVE  Grows
<1>1. \A r \in replies : r \in Reply /\ Echoes(r, replies)
  BY DEF Echoes, TypeOK, DocumentOK
<1>2. replies \in SUBSET Reply
  BY DEF TypeOK, DocumentOK
<1>3. ASSUME \/ replies \subseteq replies'
             \/ \E t, id : replies' = StripReply(replies, t, id)
             \/ \E t : replies' = StripThread(replies, t)
      PROVE  \A r \in replies : Echoes(r, replies')
  <2>1. CASE replies \subseteq replies'
    BY <1>1, <2>1 DEF Echoes
  <2>2. CASE \E t, id : replies' = StripReply(replies, t, id)
    BY <1>1, <1>2, <2>2, StripEchoes
  <2>3. CASE \E t : replies' = StripThread(replies, t)
    BY <1>1, <1>2, <2>3, StripEchoes
  <2> QED
    BY <1>3, <2>1, <2>2, <2>3
<1>4. ASSUME \/ threads' = threads
             \/ \E t : threads' = [threads EXCEPT ![t].deleted = TRUE]
             \/ \E t, b : threads' = [threads EXCEPT ![t].resolved = b]
      PROVE  \A t \in Threads : threads[t].deleted => threads'[t].deleted
  BY <1>4 DEF TypeOK, DocumentOK
<1>5. CASE DeleteReply
  <2>1. threads' = threads /\ (replies' = replies \/ \E t, id : replies' = StripReply(replies, t, id))
    BY <1>5 DEF DeleteReply
  <2> QED
    BY <1>3, <1>4, <2>1 DEF Grows
<1>6. CASE DeleteThread
  <2>1. replies' = replies \/ \E t : replies' = StripThread(replies, t)
    BY <1>6 DEF DeleteThread
  <2>2. threads' = threads \/ \E t : threads' = [threads EXCEPT ![t].deleted = TRUE]
    BY <1>6 DEF DeleteThread
  <2> QED
    BY <1>3, <1>4, <2>1, <2>2 DEF Grows
<1>7. CASE PostReply
  <2>1. threads' = threads /\ replies \subseteq replies'
    BY <1>7 DEF PostReply
  <2> QED
    BY <1>3, <1>4, <2>1 DEF Grows
<1>8. CASE Settle
  <2>1. replies' = replies
    BY <1>8 DEF Settle
  <2>2. threads' = threads \/ \E t, b : threads' = [threads EXCEPT ![t].resolved = b]
    BY <1>8 DEF Settle
  <2> QED
    BY <1>3, <1>4, <2>1, <2>2 DEF Grows
<1>9. CASE RowStep /\ ~DeleteReply /\ ~DeleteThread /\ ~PostReply /\ ~Settle
  <2>1. UNCHANGED document
    BY <1>9 DEF RowStep, NothingRequested, RefuseRow, MissingStep, FoundTombstone, ReportMissing,
       DeleteStep, DeleteTicked, NoSuchReply, AlreadyDeleted, WouldDelete,
       ReplyStep, ReplyTicked, AlreadySaid, WouldReply, ResolveStep, AlreadySettled,
       ResolveTicked, WouldSettle, Untouched
  <2> QED
    BY <1>3, <1>4, <2>1 DEF Grows, document
<1>10. CASE \/ \E a, f \in BOOLEAN : ReadRegister(a, f)
            \/ ListComments \/ DryRunOver \/ write_back \/ WriteBackFails \/ Crash
            \/ EditCell \/ SortSheet \/ UNCHANGED vars
  <2>1. UNCHANGED document
    BY <1>10 DEF ReadRegister, ListComments, DryRunOver, write_back, WriteBackFails, Crash,
       EditCell, SortSheet, vars
  <2> QED
    BY <1>3, <1>4, <2>1 DEF Grows, document
<1>11. CASE SomebodyReplies
  <2>1. threads' = threads /\ replies \subseteq replies'
    BY <1>11 DEF SomebodyReplies
  <2> QED
    BY <1>3, <1>4, <2>1 DEF Grows
<1>12. CASE SomebodySettles
  <2>1. replies' = replies /\ \E t, b : threads' = [threads EXCEPT ![t].resolved = b]
    BY <1>12 DEF SomebodySettles
  <2> QED
    BY <1>3, <1>4, <2>1 DEF Grows
<1>13. CASE SomebodyDeletes
  <2>1. \/ \E t : replies' = StripThread(replies, t)
        \/ \E t, id : replies' = StripReply(replies, t, id)
    BY <1>13 DEF SomebodyDeletes
  <2>2. threads' = threads \/ \E t : threads' = [threads EXCEPT ![t].deleted = TRUE]
    BY <1>13 DEF SomebodyDeletes
  <2> QED
    BY <1>3, <1>4, <2>1, <2>2 DEF Grows
<1> QED
  BY <1>5, <1>6, <1>7, <1>8, <1>9, <1>10, <1>11, <1>12, <1>13 DEF Next, RunStep, People

\* So what a row asked for, once brought about, stays so.
LEMMA DoneStaysDone ==
  ASSUME TypeOK, Grows, NEW row \in Request
  PROVE  (Said(row) => Said(row)') /\ (Removed(row) => Removed(row)')
<1>1. Said(row) => Said(row)'
  BY DEF Said, Grows, Echoes, Mine
<1>2. CASE IsReplyRow(row)
  <2> SUFFICES ASSUME NEW r \in replies, r.thread = row.reply_to, r.id = row.thread_id, r.deleted
               PROVE  \E q \in replies' : q.thread = row.reply_to /\ q.id = row.thread_id /\ q.deleted
    BY <1>1, <1>2 DEF Removed, IsReplyRow
  <2> QED
    BY DEF Grows, Echoes
<1>3. CASE ~IsReplyRow(row)
  <2>1. Tombstone(row.thread_id) => Tombstone(row.thread_id)'
    BY DEF Grows, Tombstone
  <2> QED
    BY <1>1, <1>3, <2>1 DEF Removed, IsReplyRow
<1> QED
  BY <1>1, <1>2, <1>3

-----------------------------------------------------------------------------
(* How a row ends.                                                         *)

\* What the row asks for in its reply and delete columns is there after the step.
DoneNext(row) == /\ ~IsReplyRow(row) /\ row.reply_comment # NoText => Said(row)'
                 /\ WantsDelete(row) => Removed(row)'

\* The markers a step adds are earned, its result is honest, and unless it failed the row
\* is done; only a row that has replied goes on to its resolve.
RowEnds(row, result, done) ==
  /\ "reply" \in done => Said(row)'
  /\ "delete" \in done => Removed(row)'
  /\ apply => /\ result.replied \/ result.resolved \/ result.reopened \/ result.deleted
                 => result.landed
              /\ result.replied => "reply" \in done \cup ticks[cur]
              /\ ~result.failed => DoneNext(row)
  /\ \/ Finish(result, done)
     \/ Replies /\ decision(row.resolve_comment) # "none" /\ ~result.failed
        /\ AfterReply(result, done)
EndsWell(row) == \E result \in Result, done \in SUBSET Ticks : RowEnds(row, result, done)

\* The flags of the results a row can end with.
LEMMA Flags ==
  /\ Blank.failed = FALSE /\ Blank.replied = FALSE /\ Blank.resolved = FALSE
  /\ Blank.reopened = FALSE /\ Blank.deleted = FALSE
  /\ \A b : /\ Failed(b).failed = TRUE /\ Failed(b).replied = FALSE
            /\ Failed(b).resolved = FALSE /\ Failed(b).reopened = FALSE
            /\ Failed(b).deleted = FALSE
  /\ \A b : Deleted(b).failed = FALSE /\ Deleted(b).landed = b /\ Deleted(b).replied = FALSE
  /\ \A b : Replied(b).failed = FALSE /\ Replied(b).landed = b
  /\ \A r \in Result : /\ Landing(r) \in Result /\ Landing(r).landed = TRUE
                       /\ Landing(r).failed = r.failed /\ Landing(r).replied = r.replied
                       /\ Landing(r).resolved = r.resolved /\ Landing(r).reopened = r.reopened
                       /\ Landing(r).deleted = r.deleted
  /\ \A r \in Result : /\ Broken(r) \in Result /\ Broken(r).failed = TRUE
                       /\ Broken(r).landed = r.landed /\ Broken(r).replied = r.replied
                       /\ Broken(r).resolved = r.resolved /\ Broken(r).reopened = r.reopened
                       /\ Broken(r).deleted = r.deleted
  /\ \A r \in Result : /\ Flagged(r) \in Result /\ Flagged(r).landed = r.landed
                       /\ Flagged(r).replied = r.replied /\ Flagged(r).failed = r.failed
<1>1. /\ Blank.failed = FALSE /\ Blank.replied = FALSE /\ Blank.resolved = FALSE
      /\ Blank.reopened = FALSE /\ Blank.deleted = FALSE
  BY DEF Blank
<1>2. \A b : /\ Failed(b).failed = TRUE /\ Failed(b).replied = FALSE
             /\ Failed(b).resolved = FALSE /\ Failed(b).reopened = FALSE
             /\ Failed(b).deleted = FALSE
  BY DEF Failed, Blank
<1>3. \A b : Deleted(b).failed = FALSE /\ Deleted(b).landed = b /\ Deleted(b).replied = FALSE
  BY DEF Deleted, Blank
<1>4. \A b : Replied(b).failed = FALSE /\ Replied(b).landed = b
  BY DEF Replied, Blank
<1>5. \A r \in Result : /\ Landing(r) \in Result /\ Landing(r).landed = TRUE
                       /\ Landing(r).failed = r.failed /\ Landing(r).replied = r.replied
                       /\ Landing(r).resolved = r.resolved /\ Landing(r).reopened = r.reopened
                       /\ Landing(r).deleted = r.deleted
  BY DEF Landing, Result
<1>6. \A r \in Result : /\ Broken(r) \in Result /\ Broken(r).failed = TRUE
                       /\ Broken(r).landed = r.landed /\ Broken(r).replied = r.replied
                       /\ Broken(r).resolved = r.resolved /\ Broken(r).reopened = r.reopened
                       /\ Broken(r).deleted = r.deleted
  BY DEF Broken, Result
<1>7. \A r \in Result : /\ Flagged(r) \in Result /\ Flagged(r).landed = r.landed
                       /\ Flagged(r).replied = r.replied /\ Flagged(r).failed = r.failed
  BY DEF Flagged, Result
<1> QED
  BY <1>1, <1>2, <1>3, <1>4, <1>5, <1>6, <1>7

\* What a row asks for is one thing: a deletion, or talk on its own thread.
LEMMA OneThing ==
  ASSUME NEW row, ~Malformed(row), WantsDelete(row)
  PROVE  ~WantsTalk(row) /\ row.reply_comment = NoText
  BY DEF Malformed, Idle, WantsDelete, WantsTalk

\* A ticked deletion has been made, in memory as on disk; so has a ticked reply.
LEMMA TickEarned ==
  ASSUME TypeOK, MarkInv, Grows, NEW row, row = Row, pc # "idle"
  PROVE  /\ row \in Request
         /\ Said(row) => Said(row)'
         /\ Removed(row) => Removed(row)'
         /\ "delete" \in ticks[cur] => Removed(row)'
         /\ "reply" \in ticks[cur] => Said(row)'
<1>1. row \in Request /\ cur \in RowIds /\ row = rows[cur]
  BY DEF TypeOK, LoopOK, Row
<1>2. /\ "delete" \in ticks[cur] => Removed(row)
      /\ "reply" \in ticks[cur] => Said(row)
  BY <1>1 DEF MarkInv, Earned
<1> QED
  BY <1>1, <1>2, DoneStaysDone

\* Rows that end without a call.
LEMMA NoCallEnds ==
  ASSUME TypeOK, MarkInv, Grows, NEW row, row = Row,
         NothingRequested \/ RefuseRow \/ FoundTombstone \/ ReportMissing
         \/ DeleteTicked \/ NoSuchReply \/ AlreadyDeleted \/ WouldDelete
  PROVE  EndsWell(row)
<1> USE ResultsTyped, Flags DEF Ticks
<1>1. pc = "row"
  BY DEF NothingRequested, RefuseRow, FoundTombstone, ReportMissing, Missing, DeleteTicked,
     NoSuchReply, AlreadyDeleted, WouldDelete, StillThere, DeletesReply, DeletesThread, Deletes
<1>2. CASE NothingRequested
  <2>1. row.reply_comment = NoText /\ ~WantsDelete(row)
    BY <1>2 DEF NothingRequested, Idle, WantsTalk, WantsDelete
  <2>2. RowEnds(row, Blank, {})
    BY <1>2, <2>1 DEF NothingRequested, RowEnds, DoneNext
  <2> QED
    BY <2>2 DEF EndsWell
<1>3. CASE RefuseRow \/ ReportMissing \/ NoSuchReply
  <2>1. Finish(Failed(FALSE), {})
    BY <1>3 DEF RefuseRow, ReportMissing, NoSuchReply
  <2>2. RowEnds(row, Failed(FALSE), {})
    BY <2>1 DEF RowEnds
  <2> QED
    BY <2>2 DEF EndsWell
<1>4. CASE WouldDelete
  <2>1. Finish(Deleted(FALSE), {}) /\ ~apply
    BY <1>4 DEF WouldDelete
  <2>2. RowEnds(row, Deleted(FALSE), {})
    BY <2>1 DEF RowEnds
  <2> QED
    BY <2>2 DEF EndsWell
<1>5. CASE FoundTombstone \/ DeleteTicked \/ AlreadyDeleted
  <2>1. \E done \in SUBSET {"delete"} : Finish(Blank, done)
    BY <1>5 DEF FoundTombstone, DeleteTicked, AlreadyDeleted
  <2>2. row.reply_comment = NoText
    BY <1>5, OneThing DEF FoundTombstone, Missing, DeleteTicked, AlreadyDeleted, DeletesReply,
       DeletesThread, Deletes
  <2>3. Removed(row)'
    <3>1. CASE FoundTombstone
      BY <1>1, <3>1, TickEarned DEF FoundTombstone, Missing, Removed
    <3>2. CASE DeleteTicked
      BY <1>1, <3>2, TickEarned DEF DeleteTicked, Unticked
    <3>3. CASE AlreadyDeleted /\ DeletesThread
      <4>1. Row.thread_id \in Threads /\ comments[Row.thread_id].deleted
        BY <3>3 DEF AlreadyDeleted, DeletesThread, DeletesReply, Listed
      <4>2. Tombstone(Row.thread_id)
        BY <4>1 DEF Tombstone, MarkInv, DeadIsDead
      <4> QED
        BY <1>1, <3>3, <4>2, TickEarned DEF Removed, DeletesThread
    <3>4. CASE AlreadyDeleted /\ ~DeletesThread
      <4>1. DeletesReply /\ \E r \in seen : r.thread = Row.reply_to /\ r.id = Row.thread_id /\ r.deleted
        BY <3>4 DEF AlreadyDeleted, Target, find_reply
      <4>2. \E q \in replies : q.thread = Row.reply_to /\ q.id = Row.thread_id /\ q.deleted
        BY <4>1 DEF MarkInv, SeenIsThere, Echoes
      <4> QED
        BY <1>1, <4>1, <4>2, TickEarned DEF Removed, DeletesReply
    <3> QED
      BY <1>5, <3>1, <3>2, <3>3, <3>4
  <2>4. PICK done \in SUBSET {"delete"} : Finish(Blank, done)
    BY <2>1
  <2>5. RowEnds(row, Blank, done)
    BY <2>2, <2>3, <2>4 DEF RowEnds, DoneNext
  <2> QED
    BY <2>5 DEF EndsWell
<1> QED
  BY <1>2, <1>3, <1>4, <1>5

\* The reply a deletion names is a deleted one afterwards.
LEMMA StripHits ==
  ASSUME NEW rs \in SUBSET Reply, NEW r \in rs
  PROVE  \E q \in StripReply(rs, r.thread, r.id) : q.thread = r.thread /\ q.id = r.id /\ q.deleted
<1> DEFINE s == [r EXCEPT !.deleted = TRUE]
           t == r.thread
           id == r.id
<1>1. s.thread = r.thread /\ s.id = r.id /\ s.deleted
  BY DEF Reply
<1>2. s = IF r.thread = t /\ r.id = id THEN s ELSE r
  OBVIOUS
<1> HIDE DEF t, id
<1>3. s \in StripReply(rs, t, id)
  BY <1>2 DEF StripReply
<1> QED
  BY <1>1, <1>3 DEF t, id

\* A deletion that was answered has been made: the row is done, and only then marked.
LEMMA DeleteEnds ==
  ASSUME TypeOK, MarkInv, Grows, TypeOK', NEW row, row = Row, DeleteReply \/ DeleteThread
  PROVE  EndsWell(row)
<1> USE ResultsTyped, Flags DEF Ticks
<1>1. pc = "row" /\ WantsDelete(row) /\ row.reply_comment = NoText /\ row \in Request
      /\ rows' = rows
  BY OneThing, TickEarned DEF DeleteReply, DeleteThread, DeletesReply, DeletesThread, Deletes,
     FinishDelete, Finish
<1>2. ASSUME NEW answer, FinishDelete(answer), answer = "ok" => Removed(row)'
      PROVE  EndsWell(row)
  <2>1. CASE answer = "ok"
    <3>1. RowEnds(row, Deleted(TRUE), {"delete"})
      BY <1>1, <1>2, <2>1 DEF RowEnds, DoneNext, FinishDelete
    <3> QED
      BY <3>1 DEF EndsWell
  <2>2. CASE answer # "ok"
    <3> DEFINE b == Landed(answer)
    <3>1. b \in BOOLEAN /\ Finish(Failed(b), {})
      BY <1>2, <2>2 DEF FinishDelete
    <3> HIDE DEF b
    <3>2. RowEnds(row, Failed(b), {})
      BY <3>1 DEF RowEnds
    <3> QED
      BY <3>1, <3>2 DEF EndsWell
  <2> QED
    BY <2>1, <2>2
<1>3. CASE DeleteReply
  <2>1. PICK r \in replies, again \in BOOLEAN :
       /\ r.thread = Row.reply_to /\ r.id = Row.thread_id
       /\ \E answer \in Answers("delete", again \/ ~r.deleted) :
            /\ replies' = IF Landed(answer) THEN StripReply(replies, r.thread, r.id) ELSE replies
            /\ FinishDelete(answer)
    BY <1>3 DEF DeleteReply
  <2>2. PICK answer \in Answers("delete", again \/ ~r.deleted) :
            /\ replies' = IF Landed(answer) THEN StripReply(replies, r.thread, r.id) ELSE replies
            /\ FinishDelete(answer)
    BY <2>1
  <2>3. ASSUME answer = "ok" PROVE Removed(row)'
    <3>1. replies' = StripReply(replies, r.thread, r.id)
      BY <2>2, <2>3 DEF Landed
    <3>2. \E q \in replies' : q.thread = r.thread /\ q.id = r.id /\ q.deleted
      BY <3>1, StripHits DEF TypeOK, DocumentOK
    <3>4. \E q \in replies' : q.thread = row.reply_to /\ q.id = row.thread_id /\ q.deleted
      BY <2>1, <3>2
    <3>5. IsReplyRow(row)
      BY <1>3 DEF DeleteReply, DeletesReply
    <3> QED
      BY <3>4, <3>5 DEF Removed, IsReplyRow
  <2> QED
    BY <1>2, <2>2, <2>3
<1>4. CASE DeleteThread
  <2> DEFINE t == Row.thread_id
  <2>1. PICK again \in BOOLEAN : \E answer \in Answers("delete", again \/ LiveThread(t)) :
       /\ threads' = IF Landed(answer) THEN [threads EXCEPT ![t].deleted = TRUE] ELSE threads
       /\ FinishDelete(answer)
    BY <1>4 DEF DeleteThread
  <2>2. PICK answer \in Answers("delete", again \/ LiveThread(t)) :
       /\ threads' = IF Landed(answer) THEN [threads EXCEPT ![t].deleted = TRUE] ELSE threads
       /\ FinishDelete(answer)
    BY <2>1
  <2>3. t \in Threads /\ ~IsReplyRow(row)
    BY <1>4 DEF DeleteThread, DeletesThread, Listed
  <2>4. ASSUME answer = "ok" PROVE Removed(row)'
    <3>1. threads' = [threads EXCEPT ![t].deleted = TRUE]
      BY <2>2, <2>4 DEF Landed
    <3>2. threads'[row.thread_id].deleted
      BY <2>3, <3>1 DEF TypeOK, DocumentOK
    <3> QED
      BY <2>3, <3>2 DEF Removed, IsReplyRow, Tombstone
  <2> QED
    BY <1>2, <2>2, <2>4
<1> QED
  BY <1>3, <1>4

\* A reply that was answered is on the thread, and so is one that was found or is ticked.
LEMMA ReplyEnds ==
  ASSUME TypeOK, MarkInv, Grows, TypeOK', NEW row, row = Row, ReplyStep
  PROVE  EndsWell(row)
<1> USE ResultsTyped, Flags DEF Ticks
<1>1. pc = "row" /\ Replies /\ ~WantsDelete(row) /\ row \in Request /\ ~IsReplyRow(row)
  BY OneThing, TickEarned DEF ReplyStep, ReplyTicked, AlreadySaid, WouldReply, PostReply,
     StillToSay, Replies, Talks
<1>2. ASSUME NEW result \in Result, NEW done \in SUBSET {"reply"}, AfterReply(result, done),
             ~result.failed, ~result.resolved, ~result.reopened, ~result.deleted,
             apply /\ result.replied => "reply" \in done /\ result.landed,
             apply \/ "reply" \in done => Said(row)'
      PROVE  EndsWell(row)
  <2>1. Finish(result, done) \/ decision(row.resolve_comment) # "none"
    BY <1>2 DEF AfterReply
  <2>2. RowEnds(row, result, done)
    BY <1>1, <1>2, <2>1 DEF RowEnds, DoneNext
  <2> QED
    BY <2>2 DEF EndsWell
<1>3. CASE ReplyTicked
  <2>1. AfterReply(Blank, {}) /\ Said(row)'
    BY <1>1, <1>3, TickEarned DEF ReplyTicked, Unticked
  <2> QED
    BY <1>2, <2>1
<1>4. CASE AlreadySaid
  <2>1. AfterReply(Blank, {"reply"})
        /\ \E r \in seen : r.thread = Row.thread_id /\ r.text = Row.reply_comment /\ Mine(r)
    BY <1>4 DEF AlreadySaid, mine_already_said
  <2>2. Said(row)
    BY <2>1 DEF MarkInv, SeenIsThere, Echoes, Said, Mine
  <2> QED
    BY <1>1, <1>2, <2>1, <2>2, TickEarned
<1>5. CASE WouldReply
  <2>1. AfterReply(Replied(FALSE), {}) /\ ~apply
    BY <1>5 DEF WouldReply
  <2>2. ~Replied(FALSE).resolved /\ ~Replied(FALSE).reopened /\ ~Replied(FALSE).deleted
    BY DEF Replied, Blank
  <2> QED
    BY <1>2, <2>1, <2>2
<1>6. CASE PostReply
  <2> DEFINE new == Posted(Row.thread_id, Row.reply_comment, IF force THEN "forced" ELSE "run")
  <2>1. PICK answer \in Answers("reply", LiveThread(Row.thread_id)) :
       /\ IF Landed(answer) THEN replies' = replies \cup {new} /\ nextId' = nextId + 1
                            ELSE UNCHANGED <<replies, nextId>>
       /\ IF answer = "ok" THEN AfterReply(Replied(TRUE), {"reply"}) ELSE ReplyFailed(answer)
    BY <1>6 DEF PostReply
  <2>2. CASE answer = "ok"
    <3>1. new \in replies'
      BY <2>1, <2>2 DEF Landed
    <3>2. new.thread = row.thread_id /\ new.text = row.reply_comment /\ Mine(new)
      BY DEF Posted, Mine
    <3> HIDE DEF new
    <3>3. Said(row)'
      BY <3>1, <3>2 DEF Said
    <3>4. ~Replied(TRUE).resolved /\ ~Replied(TRUE).reopened /\ ~Replied(TRUE).deleted
      BY DEF Replied, Blank
    <3> QED
      BY <1>2, <2>1, <2>2, <3>3, <3>4
  <2>3. CASE answer # "ok"
    <3> DEFINE b == Landed(answer)
    <3>1. b \in BOOLEAN /\ Finish(Failed(b), {})
      BY <2>1, <2>3 DEF ReplyFailed
    <3> HIDE DEF b
    <3>2. RowEnds(row, Failed(b), {})
      BY <3>1 DEF RowEnds
    <3> QED
      BY <3>1, <3>2 DEF EndsWell
  <2> QED
    BY <2>2, <2>3
<1> QED
  BY <1>3, <1>4, <1>5, <1>6 DEF ReplyStep

\* Resolving adds its own flag to what the row has reported, and nothing to what it has said.
LEMMA ResolveEnds ==
  ASSUME TypeOK, MarkInv, Grows, TypeOK', NEW row, row = Row, ResolveStep
  PROVE  EndsWell(row)
<1> USE ResultsTyped, Flags DEF Ticks
<1> DEFINE was == report[cur]
<1>1. /\ pc \in {"row", "resolve"} /\ ~WantsDelete(row) /\ row \in Request
      /\ apply /\ row.reply_comment # NoText => Said(row)'
  BY OneThing, TickEarned DEF ResolveStep, AlreadySettled, ResolveTicked, WouldSettle, Settle,
     StillToSettle, Settles, Talks, MarkInv, Halfway
<1>2. /\ cur \in RowIds /\ was \in Result
      /\ apply /\ (was.replied \/ was.resolved \/ was.reopened \/ was.deleted) => was.landed
      /\ apply /\ was.replied => "reply" \in ticks[cur]
  BY DEF TypeOK, LoopOK, MarkInv, Accounts, ReportHonest
<1> HIDE DEF was
<1>3. ASSUME NEW result \in Result, NEW done \in SUBSET {"resolve"}, Finish(result, done),
             apply => /\ result.resolved \/ result.reopened \/ result.deleted \/ result.replied
                         => result.landed
                      /\ result.replied => was.replied
      PROVE  EndsWell(row)
  <2>1. RowEnds(row, result, done)
    BY <1>1, <1>2, <1>3 DEF RowEnds, DoneNext
  <2> QED
    BY <2>1 DEF EndsWell
<1>4. CASE AlreadySettled \/ ResolveTicked
  <2>1. \E done \in SUBSET {"resolve"} : Finish(was, done)
    BY <1>4 DEF AlreadySettled, ResolveTicked, was
  <2> QED
    BY <1>2, <1>3, <2>1
<1>5. CASE WouldSettle
  <2>1. Finish(Flagged(was), {}) /\ ~apply
    BY <1>5 DEF WouldSettle, was
  <2> QED
    BY <1>2, <1>3, <2>1
<1>6. CASE Settle
  <2>1. PICK answer :
          IF answer = "ok" THEN Finish(Flagged(Landing(was)), {"resolve"})
          ELSE Finish(Broken(IF Landed(answer) THEN Landing(was) ELSE was), {})
    BY <1>6 DEF Settle, was
  <2>2. CASE answer = "ok"
    BY <1>2, <1>3, <2>1, <2>2
  <2>3. CASE answer # "ok" /\ Landed(answer)
    BY <1>2, <1>3, <2>1, <2>3
  <2>4. CASE answer # "ok" /\ ~Landed(answer)
    BY <1>2, <1>3, <2>1, <2>4
  <2> QED
    BY <2>2, <2>3, <2>4
<1> QED
  BY <1>4, <1>5, <1>6 DEF ResolveStep

\* How a step of a row moves the run on.
LEMMA RowFrame ==
  ASSUME TypeOK, MarkInv, NEW row, NEW result, NEW done, RowEnds(row, result, done), RowStep
  PROVE  /\ pc \in {"row", "resolve"} /\ cur \in RowIds
         /\ UNCHANGED <<rows, mode, sheet, ticked, edits>>
         /\ report' = [report EXCEPT ![cur] = result]
         /\ ticks' = [ticks EXCEPT ![cur] = @ \cup done]
         /\ \/ pc' = "row" /\ cur' = cur + 1
            \/ pc' = "write" /\ cur' = cur /\ cur = NRows
            \/ pc' = "resolve" /\ cur' = cur /\ ~result.failed
               /\ Replies /\ decision(Row.resolve_comment) # "none"
<1>1. pc \in {"row", "resolve"}
  BY DEF RowStep, NothingRequested, RefuseRow, MissingStep, FoundTombstone, ReportMissing,
     Missing, DeleteStep, DeleteTicked, NoSuchReply, AlreadyDeleted, WouldDelete, StillThere,
     DeletesReply, DeletesThread, Deletes, ReplyStep, ReplyTicked, AlreadySaid, WouldReply,
     StillToSay, Replies, Talks, ResolveStep, AlreadySettled, ResolveTicked, WouldSettle,
     StillToSettle, Settle, Settles, DeleteReply, DeleteThread, PostReply
<1>2. cur \in RowIds
  BY DEF TypeOK, LoopOK
<1>3. CASE Finish(result, done)
  BY <1>1, <1>2, <1>3, RegisterAssumption DEF Finish, register, RowIds
<1>4. CASE ~Finish(result, done)
  BY <1>1, <1>2, <1>4 DEF RowEnds, AfterReply, register
<1> QED
  BY <1>3, <1>4

\* What has been listed is still on the document after a step, in some form.
LEMMA StillThereLater ==
  ASSUME MarkInv, Grows
  PROVE  \A r \in seen : Echoes(r, replies')
<1> SUFFICES ASSUME NEW r \in seen PROVE Echoes(r, replies')
  OBVIOUS
<1>1. PICK q \in replies : /\ q.id = r.id /\ q.thread = r.thread /\ q.text = r.text
                           /\ q.by = r.by /\ (r.deleted => q.deleted)
  BY DEF MarkInv, SeenIsThere, Echoes
<1>2. PICK p \in replies' : /\ p.id = q.id /\ p.thread = q.thread /\ p.text = q.text
                            /\ p.by = q.by /\ (q.deleted => p.deleted)
  BY DEF Grows, Echoes
<1> QED
  BY <1>1, <1>2 DEF Echoes

\* What the run knows of the document follows its own calls.
LEMMA RowStepKnows ==
  ASSUME TypeOK, MarkInv, Grows, RowStep
  PROVE  /\ SeenIsThere'
         /\ \A t \in Threads : /\ comments'[t].listed = comments[t].listed
                               /\ comments'[t].deleted => threads'[t].deleted
<1>1. replies \in SUBSET Reply /\ seen \in SUBSET Reply /\ \A r \in seen : Echoes(r, replies)
  BY DEF TypeOK, DocumentOK, ListingOK, MarkInv, SeenIsThere
<1>2. \A r \in seen : Echoes(r, replies')
  BY StillThereLater
<1>3. ASSUME comments' = comments
      PROVE  \A t \in Threads : /\ comments'[t].listed = comments[t].listed
                                /\ comments'[t].deleted => threads'[t].deleted
  BY <1>3 DEF MarkInv, DeadIsDead, Grows
<1>4. CASE DeleteReply
  <2>1. PICK t, id, answer :
            /\ replies' = IF Landed(answer) THEN StripReply(replies, t, id) ELSE replies
            /\ seen' = IF answer = "ok" THEN StripReply(seen, t, id) ELSE seen
    BY <1>4 DEF DeleteReply
  <2>2. answer = "ok" => SeenIsThere'
    BY <1>1, <2>1, StripBoth DEF SeenIsThere, Landed
  <2>3. answer # "ok" => SeenIsThere'
    BY <1>2, <2>1 DEF SeenIsThere
  <2>4. comments' = comments
    BY <1>4 DEF DeleteReply
  <2> QED
    BY <1>3, <2>2, <2>3, <2>4
<1>5. CASE DeleteThread
  <2> DEFINE t == Row.thread_id
  <2>0. t \in Threads
    BY <1>5 DEF DeleteThread, DeletesThread, Listed
  <2>1. PICK answer :
       /\ threads' = IF Landed(answer) THEN [threads EXCEPT ![t].deleted = TRUE] ELSE threads
       /\ replies' = IF Landed(answer) THEN StripThread(replies, t) ELSE replies
       /\ comments' = IF answer = "ok" THEN [comments EXCEPT ![t].deleted = TRUE] ELSE comments
       /\ seen' = IF answer = "ok" THEN StripThread(seen, t) ELSE seen
    BY <1>5 DEF DeleteThread
  <2>2. CASE answer = "ok"
    <3>1. SeenIsThere'
      BY <1>1, <2>1, <2>2, StripBoth DEF SeenIsThere, Landed
    <3>2. /\ threads' = [threads EXCEPT ![t].deleted = TRUE]
          /\ comments' = [comments EXCEPT ![t].deleted = TRUE]
      BY <2>1, <2>2 DEF Landed
    <3>3. \A u \in Threads : /\ comments'[u].listed = comments[u].listed
                             /\ comments'[u].deleted => u = t \/ comments[u].deleted
      BY <2>0, <3>2 DEF TypeOK, ListingOK
    <3>4. threads'[t].deleted
      BY <2>0, <3>2 DEF TypeOK, DocumentOK
    <3> QED
      BY <3>1, <3>3, <3>4 DEF MarkInv, DeadIsDead, Grows
  <2>3. CASE answer # "ok"
    BY <1>2, <1>3, <2>1, <2>3 DEF SeenIsThere
  <2> QED
    BY <2>2, <2>3
<1>6. CASE PostReply
  <2>1. PICK new, answer :
       /\ IF Landed(answer) THEN replies' = replies \cup {new} ELSE UNCHANGED replies
       /\ seen' = IF answer = "ok" THEN seen \cup {new} ELSE seen
    BY <1>6 DEF PostReply
  <2>2. \A r \in seen' : Echoes(r, replies')
    <3>1. CASE answer = "ok"
      <4>1. new \in replies' /\ seen' = seen \cup {new}
        BY <2>1, <3>1 DEF Landed
      <4>2. Echoes(new, replies')
        BY <4>1 DEF Echoes
      <4> QED
        BY <1>2, <4>1, <4>2
    <3>2. CASE answer # "ok"
      BY <1>2, <2>1, <3>2
    <3> QED
      BY <3>1, <3>2
  <2>3. comments' = comments
    BY <1>6 DEF PostReply
  <2> QED
    BY <1>3, <2>2, <2>3 DEF SeenIsThere
<1>7. CASE Settle
  <2>1. seen' = seen /\ threads' \in [Threads -> [resolved : BOOLEAN, deleted : BOOLEAN]]
    BY <1>7, ResolveTyped DEF Settle, ResolveStep, TypeOK, DocumentOK
  <2>2. \/ comments' = comments
        \/ \E t, b : comments' = [comments EXCEPT ![t].resolved = b]
    BY <1>7 DEF Settle
  <2>3. \A u \in Threads : /\ comments'[u].listed = comments[u].listed
                           /\ comments'[u].deleted = comments[u].deleted
    BY <2>2 DEF TypeOK, ListingOK
  <2> QED
    BY <1>2, <2>1, <2>3 DEF SeenIsThere, MarkInv, DeadIsDead, Grows
<1>8. CASE ~DeleteReply /\ ~DeleteThread /\ ~PostReply /\ ~Settle
  <2>1. UNCHANGED <<seen, comments>>
    BY <1>8 DEF RowStep, NothingRequested, RefuseRow, MissingStep, FoundTombstone, ReportMissing,
       DeleteStep, DeleteTicked, NoSuchReply, AlreadyDeleted, WouldDelete,
       ReplyStep, ReplyTicked, AlreadySaid, WouldReply, ResolveStep, AlreadySettled,
       ResolveTicked, WouldSettle, Untouched
  <2> QED
    BY <1>2, <1>3, <2>1 DEF SeenIsThere
<1> QED
  BY <1>4, <1>5, <1>6, <1>7, <1>8

LEMMA RowStepMarks ==
  ASSUME TypeOK, MarkInv, TypeOK', Grows, RowStep
  PROVE  MarkInv'
<1>1. PICK row : row = Row
  OBVIOUS
<1>2. EndsWell(row)
  BY <1>1, NoCallEnds, DeleteEnds, ReplyEnds, ResolveEnds DEF RowStep, MissingStep, DeleteStep
<1>3. PICK result \in Result, done \in SUBSET Ticks : RowEnds(row, result, done)
  BY <1>2 DEF EndsWell
<1>4. /\ pc \in {"row", "resolve"} /\ cur \in RowIds
      /\ UNCHANGED <<rows, mode, sheet, ticked>>
      /\ report' = [report EXCEPT ![cur] = result]
      /\ ticks' = [ticks EXCEPT ![cur] = @ \cup done]
      /\ \/ pc' = "row" /\ cur' = cur + 1
         \/ pc' = "write" /\ cur' = cur /\ cur = NRows
         \/ pc' = "resolve" /\ cur' = cur /\ ~result.failed
            /\ Replies /\ decision(Row.resolve_comment) # "none"
  BY <1>3, RowFrame
<1>5. \A i \in RowIds : /\ report'[i] = IF i = cur THEN result ELSE report[i]
                        /\ ticks'[i] = IF i = cur THEN ticks[i] \cup done ELSE ticks[i]
  BY <1>4 DEF TypeOK, LoopOK
<1>6. \A i \in RowIds : /\ rows[i] \in Request /\ sheet[i] \in Request
                        /\ Said(rows[i]) => Said(rows[i])'
                        /\ Said(sheet[i]) => Said(sheet[i])'
                        /\ Removed(rows[i]) => Removed(rows[i])'
                        /\ Removed(sheet[i]) => Removed(sheet[i])'
  BY <1>4, DoneStaysDone DEF TypeOK, LoopOK, RegisterOK
<1>7. Earned(sheet, ticked)'
  BY <1>4, <1>6 DEF MarkInv, Earned
<1>13. /\ row = rows[cur] /\ rows'[cur] = row
       /\ "reply" \in done => Said(row)'
       /\ "delete" \in done => Removed(row)'
       /\ apply => /\ result.replied \/ result.resolved \/ result.reopened \/ result.deleted
                      => result.landed
                   /\ result.replied => "reply" \in done \cup ticks[cur]
                   /\ ~result.failed => DoneNext(row)
  BY <1>1, <1>3, <1>4 DEF RowEnds, Row
<1>8. Earned(rows, ticks)'
  <2>1. ASSUME NEW i \in RowIds
        PROVE  /\ "reply" \in ticks'[i] => Said(rows[i])'
               /\ "delete" \in ticks'[i] => Removed(rows[i])'
    <3>1. CASE i = cur
      <4>1. "reply" \in ticks[i] => Said(row)'
        BY <1>1, <1>6, <1>4, <3>1 DEF Row, MarkInv, Earned
      <4>2. "delete" \in ticks[i] => Removed(row)'
        BY <1>1, <1>6, <1>4, <3>1 DEF Row, MarkInv, Earned
      <4> QED
        BY <1>5, <1>13, <3>1, <4>1, <4>2, <1>4
    <3>2. CASE i # cur
      BY <1>4, <1>5, <1>6, <3>2 DEF MarkInv, Earned
    <3> QED
      BY <3>1, <3>2
  <2> QED
    BY <2>1 DEF Earned
<1>9. SameRows' /\ SeenIsThere' /\ DeadIsDead'
  BY <1>4, RowStepKnows DEF MarkInv, SameRows, DeadIsDead, Grows
<1>10. Halfway'
  <2> SUFFICES ASSUME pc' = "resolve" PROVE Halfway'
    BY DEF Halfway
  <2>1. Replies /\ decision(row.resolve_comment) # "none" /\ ~result.failed /\ cur' = cur
    BY <1>1, <1>4
  <2>2. ~IsReplyRow(row) /\ ~WantsDelete(row) /\ Listed(row.thread_id)
        /\ row.reply_comment # NoText
        /\ decision(row.resolve_comment) \in {"act", "reverse"}
    <3>1. ~Malformed(row) /\ WantsTalk(row) /\ ~IsReplyRow(row) /\ Listed(row.thread_id)
      BY <1>1, <2>1 DEF Replies, Talks
    <3>2. decision(row.resolve_comment) # "unreadable" /\ ~WantsDelete(row)
      BY <3>1 DEF Malformed, Idle
    <3> QED
      BY <1>1, <2>1, <3>1, <3>2 DEF Replies, decision
  <2>3. apply => Said(row)'
    BY <1>13, <2>1, <2>2 DEF DoneNext
  <2>4. Listed(row.thread_id)'
    BY <2>2, RowStepKnows DEF Listed
  <2> QED
    BY <1>4, <1>13, <2>1, <2>2, <2>3, <2>4 DEF Halfway, Row, apply
<1>11. Accounts'
  <2>1. pc' \in {"row", "write", "resolve"}
    BY <1>4
  <2>2. ASSUME NEW i \in RowIds, ~Reached(i)' PROVE report'[i] = Blank
    BY <1>4, <1>5, <2>2 DEF Reached, Behind, MarkInv, Accounts, RowIds
  <2>3. ASSUME NEW i \in RowIds, apply', report'[i].replied PROVE "reply" \in ticks'[i]
    <3>1. apply
      BY <1>4, <2>3 DEF apply
    <3>2. CASE i = cur
      BY <1>5, <1>13, <2>3, <3>1, <3>2
    <3>3. CASE i # cur
      BY <1>5, <2>3, <3>1, <3>3 DEF MarkInv, Accounts
    <3> QED
      BY <3>2, <3>3
  <2> QED
    BY <2>1, <2>2, <2>3 DEF Accounts
<1>12. SuccessMeansDone'
  <2> SUFFICES ASSUME NEW i \in RowIds, apply, Over(i)', ~report'[i].failed
               PROVE  /\ ~IsReplyRow(rows[i]) /\ rows[i].reply_comment # NoText => Said(rows[i])'
                      /\ WantsDelete(rows[i]) => Removed(rows[i])'
    BY <1>4 DEF SuccessMeansDone, apply
  <2>1. CASE i = cur
    BY <1>4, <1>5, <1>13, <2>1 DEF DoneNext
  <2>2. CASE i # cur
    <3>1. Over(i)
      BY <1>4, <2>2 DEF Over, RowIds
    <3> QED
      BY <1>5, <1>6, <2>2, <3>1 DEF MarkInv, SuccessMeansDone
  <2> QED
    BY <2>1, <2>2
<1>14. ReportHonest'
  <2> SUFFICES ASSUME NEW i \in RowIds, apply
               PROVE  /\ report'[i].replied \/ report'[i].resolved \/ report'[i].reopened
                         \/ report'[i].deleted => report'[i].landed
                      /\ report'[i].failed /\ report'[i].replied => "reply" \in ticks'[i]
    BY <1>4 DEF ReportHonest, apply
  <2> QED
    BY <1>13, <1>5 DEF MarkInv, ReportHonest
<1> QED
  BY <1>7, <1>8, <1>9, <1>10, <1>11, <1>12, <1>14 DEF MarkInv

\* Nothing is reported, and nobody is halfway, while no rows are being worked on.
LEMMA Unreported ==
  ASSUME TypeOK', pc' \in {"idle", "list"}, cur' = 1, missing' = {},
         \A i \in RowIds : report'[i] = Blank
  PROVE  Halfway' /\ Accounts' /\ SuccessMeansDone' /\ ReportHonest'
<1>1. Halfway'
  BY DEF Halfway
<1>2. Accounts' /\ ReportHonest'
  BY Flags DEF Accounts, ReportHonest
<1>3. \A i \in RowIds : ~Over(i)'
  BY RegisterAssumption DEF Over, RowIds
<1> QED
  BY <1>1, <1>2, <1>3 DEF SuccessMeansDone

\* Two rows that ask for the same are done together.
LEMMA DoneAlike ==
  ASSUME NEW p, NEW q, SameRequest(p, q)
  PROVE  (Said(p) => Said(q)) /\ (Removed(p) => Removed(q))
  BY DEF SameRequest, Said, Removed, IsReplyRow, Tombstone

\* Starting, saving and dying: the markers move between the file and the run with their rows.
LEMMA FrameMarks ==
  ASSUME TypeOK, MarkInv, TypeOK', Grows,
         (\E a, f \in BOOLEAN : ReadRegister(a, f)) \/ ListComments \/ DryRunOver
         \/ write_back \/ WriteBackFails \/ Crash
  PROVE  MarkInv'
<1>1. UNCHANGED <<threads, replies>>
  BY DEF ReadRegister, ListComments, DryRunOver, write_back, WriteBackFails, Crash, document
<1>2. \A row : (Said(row) => Said(row)') /\ (Removed(row) => Removed(row)')
  BY <1>1 DEF Said, Removed, Tombstone
<1>3. ASSUME NEW a \in BOOLEAN, NEW f \in BOOLEAN, ReadRegister(a, f) PROVE MarkInv'
  <2>1. /\ pc = "idle" /\ pc' = "list" /\ rows' = sheet /\ ticks' = ticked
        /\ UNCHANGED <<sheet, ticked, cur, comments, seen, report, missing>>
    BY <1>3 DEF ReadRegister, register
  <2>2. cur' = 1 /\ missing' = {} /\ \A i \in RowIds : report'[i] = Blank
    BY <2>1, RegisterAssumption DEF MarkInv, Accounts, Reached, Behind, RowIds
  <2>3. Earned(sheet, ticked)' /\ Earned(rows, ticks)' /\ SameRows'
    BY <1>2, <2>1 DEF MarkInv, Earned, SameRows, SameRequest
  <2>4. SeenIsThere' /\ DeadIsDead'
    BY <1>1, <2>1 DEF MarkInv, SeenIsThere, Echoes, DeadIsDead
  <2> QED
    BY <2>1, <2>2, <2>3, <2>4, Unreported DEF MarkInv
<1>4. CASE ListComments
  <2>1. /\ pc = "list" /\ pc' = "row" /\ UNCHANGED <<sheet, ticked, rows, ticks, cur, mode, report, missing>>
    BY <1>4 DEF ListComments, register
  <2>2. Earned(sheet, ticked)' /\ Earned(rows, ticks)' /\ SameRows'
    BY <1>2, <2>1 DEF MarkInv, Earned, SameRows
  <2>3. SeenIsThere'
    BY <1>1, <1>4 DEF ListComments, SeenIsThere, Echoes
  <2>4. DeadIsDead'
    BY <1>1, <1>4 DEF ListComments, DeadIsDead, LiveThread
  <2>5. Halfway'
    BY <2>1 DEF Halfway
  <2>6. cur = 1 /\ \A i \in RowIds : report[i] = Blank
    BY <2>1, RegisterAssumption DEF MarkInv, Accounts, Reached, Behind, RowIds
  <2>7. Accounts' /\ ReportHonest'
    BY <2>1, <2>6, Flags DEF Accounts, ReportHonest
  <2>8. \A i \in RowIds : ~Over(i)'
    BY <2>1, <2>6, RegisterAssumption DEF Over, RowIds
  <2>9. SuccessMeansDone'
    BY <2>8 DEF SuccessMeansDone
  <2> QED
    BY <2>2, <2>3, <2>4, <2>5, <2>7, <2>9 DEF MarkInv
<1>5. CASE Forget /\ pc # "idle"
  <2>1. Halfway' /\ Accounts' /\ SuccessMeansDone' /\ ReportHonest'
    BY <1>5, Unreported DEF Forget, NothingReported
  <2>2. SameRows' /\ SeenIsThere' /\ DeadIsDead'
    BY <1>5 DEF Forget, SameRows, SeenIsThere, DeadIsDead, NothingListed
  <2>3. Earned(sheet, ticked)'
    <3>1. CASE UNCHANGED register
      BY <1>2, <3>1 DEF register, MarkInv, Earned
    <3>2. CASE write_back /\ Suffix = ".csv"
      <4>1. sheet' = rows /\ ticked' = ticks
        BY <3>2 DEF write_back
      <4> QED
        BY <1>2, <1>5, <4>1 DEF MarkInv, Earned
    <3>3. CASE write_back /\ Suffix # ".csv"
      <4>1. sheet' = sheet /\ ticked' = [i \in RowIds |-> ticked[i] \cup ticks[i]]
        BY <3>3 DEF write_back
      <4>2. \A i \in RowIds : (Said(rows[i]) => Said(sheet[i])) /\ (Removed(rows[i]) => Removed(sheet[i]))
        BY <1>5, <3>3, DoneAlike DEF MarkInv, SameRows
      <4>3. \A i \in RowIds : /\ "reply" \in ticked'[i] => Said(sheet[i])
                              /\ "delete" \in ticked'[i] => Removed(sheet[i])
        BY <1>5, <4>1, <4>2 DEF MarkInv, Earned
      <4> QED
        BY <1>2, <4>1, <4>3 DEF Earned
    <3> QED
      BY <1>5, <3>1, <3>2, <3>3 DEF ReadRegister, ListComments, DryRunOver, write_back,
         WriteBackFails, Crash
  <2> QED
    BY <1>5, <2>1, <2>2, <2>3 DEF MarkInv, Forget
<1> QED
  BY <1>3, <1>4, <1>5 DEF DryRunOver, write_back, WriteBackFails, Crash

\* People change the document, which only grows, and the file: a decision, or the order of
\* its rows, which a run over a .csv does not mind and a run over an .xlsx does.
LEMMA PeopleMarks ==
  ASSUME TypeOK, MarkInv, TypeOK', Grows, MarkersKeepTheirRow, People
  PROVE  MarkInv'
<1>1. UNCHANGED <<pc, cur, mode, rows, ticks, comments, seen, report, missing>>
  BY DEF People, SomebodyReplies, SomebodySettles, SomebodyDeletes, EditCell, SortSheet,
     Human, memory
<1>2. \A i \in RowIds : /\ rows[i] \in Request /\ sheet[i] \in Request
                        /\ Said(rows[i]) => Said(rows[i])'
                        /\ Removed(rows[i]) => Removed(rows[i])'
  BY <1>1, DoneStaysDone DEF TypeOK, LoopOK, RegisterOK
<1>3. pc # "idle" => Earned(rows, ticks)'
  BY <1>1, <1>2 DEF MarkInv, Earned
<1>4. SeenIsThere'
  BY <1>1, StillThereLater DEF SeenIsThere
<1>5. DeadIsDead'
  BY <1>1 DEF MarkInv, DeadIsDead, Grows
<1>6. Halfway'
  <2>1. CASE pc = "resolve"
    <3>1. Row' = Row /\ Row = rows[cur] /\ cur \in RowIds
      BY <1>1 DEF Row, TypeOK, LoopOK
    <3>2. apply => Said(Row)'
      BY <1>1, <1>2, <2>1, <3>1 DEF MarkInv, Halfway
    <3> QED
      BY <1>1, <2>1, <3>1, <3>2 DEF MarkInv, Halfway, Listed, apply
  <2>2. CASE pc # "resolve"
    BY <1>1, <2>2 DEF Halfway
  <2> QED
    BY <2>1, <2>2
<1>7. Accounts' /\ ReportHonest'
  BY <1>1 DEF MarkInv, Accounts, ReportHonest, Reached, Behind, apply
<1>8. SuccessMeansDone'
  BY <1>1, <1>2 DEF MarkInv, SuccessMeansDone, Over, apply
<1>9. \A i \in RowIds : /\ "reply" \in ticked[i] => Said(sheet[i])
                        /\ "delete" \in ticked[i] => Removed(sheet[i])
  BY DEF MarkInv, Earned
<1>10. CASE SomebodyReplies \/ SomebodySettles \/ SomebodyDeletes
  <2>1. UNCHANGED <<sheet, ticked>>
    BY <1>10 DEF SomebodyReplies, SomebodySettles, SomebodyDeletes, register
  <2>2. \A i \in RowIds : (Said(sheet[i]) => Said(sheet[i])') /\ (Removed(sheet[i]) => Removed(sheet[i])')
    BY <1>2, <2>1, DoneStaysDone
  <2>3. Earned(sheet, ticked)' /\ SameRows'
    BY <1>1, <1>9, <2>1, <2>2 DEF Earned, MarkInv, SameRows
  <2> QED
    BY <1>1, <1>3, <1>4, <1>5, <1>6, <1>7, <1>8, <2>3 DEF MarkInv
<1>11. CASE EditCell
  <2>1. PICK k \in RowIds, cell \in {"TRUE", "FALSE"} :
          sheet' = [sheet EXCEPT ![k].resolve_comment = cell]
    BY <1>11 DEF EditCell
  <2>2. UNCHANGED <<threads, replies, ticked>>
    BY <1>11 DEF EditCell, document
  <2>3. \A i \in RowIds : SameRequest(sheet[i], sheet'[i])
    <3>1. \A i \in RowIds :
            sheet'[i] = IF i = k THEN [sheet[k] EXCEPT !.resolve_comment = cell] ELSE sheet[i]
      BY <2>1 DEF TypeOK, RegisterOK
    <3> QED
      BY <1>2, <3>1 DEF Request, SameRequest
  <2>4. SameRows'
    BY <1>1, <2>3 DEF MarkInv, SameRows, SameRequest
  <2>5. \A p : (Said(p) => Said(p)') /\ (Removed(p) => Removed(p)')
    BY <2>2 DEF Said, Removed, Tombstone
  <2>7. Earned(sheet, ticked)'
    <3> SUFFICES ASSUME NEW i \in RowIds
                 PROVE  /\ "reply" \in ticked'[i] => Said(sheet[i])'
                        /\ "delete" \in ticked'[i] => Removed(sheet[i])'
      BY DEF Earned
    <3>1. PICK p : p = sheet[i]
      OBVIOUS
    <3>2. PICK q : q = sheet'[i]
      OBVIOUS
    <3>3. SameRequest(p, q)
      BY <2>3, <3>1, <3>2
    <3>4. (Said(p) => Said(q)') /\ (Removed(p) => Removed(q)')
      BY <2>5, <3>3, DoneAlike
    <3> QED
      BY <1>9, <2>2, <3>1, <3>2, <3>4
  <2> QED
    BY <1>1, <1>3, <1>4, <1>5, <1>6, <1>7, <1>8, <2>4, <2>7 DEF MarkInv
<1>12. CASE SortSheet
  <2>1. PICK i \in RowIds, j \in RowIds :
          /\ sheet' = [sheet EXCEPT ![i] = sheet[j], ![j] = sheet[i]]
          /\ ticked' = [ticked EXCEPT ![i] = ticked[j], ![j] = ticked[i]]
    BY <1>12 DEF SortSheet
  <2>2. \A k \in RowIds : \E m \in RowIds : sheet'[k] = sheet[m] /\ ticked'[k] = ticked[m]
    BY <2>1 DEF TypeOK, RegisterOK
  <2>3. \A p : (Said(p) => Said(p)') /\ (Removed(p) => Removed(p)')
    BY <1>12 DEF SortSheet, document, Said, Removed, Tombstone
  <2>4. Earned(sheet, ticked)'
    <3> SUFFICES ASSUME NEW k \in RowIds
                 PROVE  /\ "reply" \in ticked'[k] => Said(sheet[k])'
                        /\ "delete" \in ticked'[k] => Removed(sheet[k])'
      BY DEF Earned
    <3>1. PICK m \in RowIds : sheet'[k] = sheet[m] /\ ticked'[k] = ticked[m]
      BY <2>2
    <3>2. PICK p : p = sheet[m]
      OBVIOUS
    <3> QED
      BY <1>9, <2>3, <3>1, <3>2
  <2>5. SameRows'
    BY <1>12 DEF SortSheet, MarkersKeepTheirRow, SameRows
  <2> QED
    BY <1>1, <1>3, <1>4, <1>5, <1>6, <1>7, <1>8, <2>4, <2>5 DEF MarkInv
<1> QED
  BY <1>10, <1>11, <1>12 DEF People

LEMMA InitMarks ==
  ASSUME Init
  PROVE  MarkInv
<1>1. Earned(sheet, ticked) /\ pc = "idle" /\ seen = {}
  BY DEF Init, Earned, NothingTicked
<1>2. SeenIsThere /\ SameRows /\ DeadIsDead /\ Halfway
  BY <1>1 DEF Init, SeenIsThere, SameRows, DeadIsDead, Halfway, NothingListed
<1>3. cur = 1 /\ missing = {} /\ \A i \in RowIds : report[i] = Blank
  BY DEF Init, NothingReported
<1>4. Accounts /\ ReportHonest
  BY <1>3, Flags DEF Accounts, ReportHonest
<1>5. SuccessMeansDone
  BY <1>1 DEF SuccessMeansDone, Over
<1> QED
  BY <1>1, <1>2, <1>4, <1>5 DEF MarkInv

LEMMA NextMarks ==
  ASSUME TypeOK, MarkInv, MarkersKeepTheirRow, [Next]_vars
  PROVE  MarkInv'
<1>1. TypeOK' /\ Grows
  BY NextTyped, NextGrows
<1>2. CASE UNCHANGED vars
  <2>1. \A p : (Said(p) => Said(p)') /\ (Removed(p) => Removed(p)')
    BY <1>2 DEF vars, document, Said, Removed, Tombstone
  <2>2. Earned(sheet, ticked)' /\ (pc' # "idle" => Earned(rows, ticks)')
    BY <1>2, <2>1 DEF vars, register, memory, MarkInv, Earned
  <2>3. SameRows' /\ SeenIsThere' /\ DeadIsDead' /\ Accounts' /\ ReportHonest'
    BY <1>2 DEF vars, document, register, memory, MarkInv, SameRows, SeenIsThere, Echoes,
       DeadIsDead, Accounts, ReportHonest, Reached, Behind, apply
  <2>4. Halfway' /\ SuccessMeansDone'
    BY <1>2, <2>1 DEF vars, document, register, memory, MarkInv, Halfway, SuccessMeansDone,
       Over, Row, Listed, apply
  <2> QED
    BY <2>2, <2>3, <2>4 DEF MarkInv
<1> QED
  BY <1>1, <1>2, RowStepMarks, FrameMarks, PeopleMarks DEF Next, RunStep

LEMMA MarksHold ==
  ASSUME MarkersKeepTheirRow
  PROVE  Spec => [](TypeOK /\ MarkInv)
<1>1. Init => TypeOK /\ MarkInv
  BY InitTyped, InitMarks
<1>2. TypeOK /\ MarkInv /\ [Next]_vars => (TypeOK /\ MarkInv)'
  BY NextTyped, NextMarks
<1> QED
  BY <1>1, <1>2, PTL DEF Spec

\* A completed marker on disk is never set for work that was not done, whatever the run, its
\* failures and the people around it do, as long as no .xlsx is sorted under a run
\* (write_back, _apply.py; sorting is the one edit that breaks it).
THEOREM MarkersAreSound ==
  ASSUME MarkersKeepTheirRow
  PROVE  Spec => []MarkerSound
<1>1. MarkInv => MarkerSound
  BY DEF MarkInv, Earned, MarkerSound
<1> QED
  BY <1>1, MarksHold, PTL

\* What a report says of a row is so: a row that did not fail has its words on the thread
\* and its deletion made, and a flag stands for a call that took effect (_apply.py:380-395,
\* 449-520).  A stale marker would make a row count as done, hence the same assumption.
THEOREM ReportsAreTrue ==
  ASSUME MarkersKeepTheirRow
  PROVE  Spec => []ReportIsTrue
<1>1. MarkInv => ReportIsTrue
  BY DEF MarkInv, ReportIsTrue
<1> QED
  BY <1>1, MarksHold, PTL

-----------------------------------------------------------------------------
(* What one step of the run may do.                                        *)

\* A step of the run is none of a person, and does not start a run.
LEMMA ToolSteps ==
  ASSUME TypeOK, [Next]_vars, Tool
  PROVE  RunStep \/ Crash \/ UNCHANGED vars
<1>1. edits \in Nat
  BY RegisterAssumption DEF TypeOK, BoundsOK
<1>2. ~Human
  BY <1>1 DEF Tool, Human
<1> QED
  BY <1>2 DEF Next, People, SomebodyReplies, SomebodySettles, SomebodyDeletes, EditCell,
     SortSheet, ReadRegister, Tool

\* Only four actions of the run touch the document, and only on a real run.
LEMMA OnlyWrites ==
  ASSUME TypeOK, [Next]_vars, Tool
  PROVE  \/ apply /\ (DeleteReply \/ DeleteThread \/ PostReply \/ Settle \/ write_back)
         \/ UNCHANGED <<document, register>>
<1>1. CASE RowStep
  <2>1. \/ apply /\ (DeleteReply \/ DeleteThread \/ PostReply \/ Settle)
        \/ UNCHANGED document
    BY <1>1 DEF RowStep, NothingRequested, RefuseRow, MissingStep, FoundTombstone, ReportMissing,
       DeleteStep, DeleteTicked, NoSuchReply, AlreadyDeleted, WouldDelete,
       ReplyStep, ReplyTicked, AlreadySaid, WouldReply, ResolveStep, AlreadySettled,
       ResolveTicked, WouldSettle, Untouched, DeleteReply, DeleteThread, PostReply, Settle
  <2>2. \E result, done : Finish(result, done) \/ AfterReply(result, done)
    BY <1>1 DEF RowStep, NothingRequested, RefuseRow, MissingStep, FoundTombstone, ReportMissing,
       DeleteStep, DeleteTicked, NoSuchReply, AlreadyDeleted, WouldDelete, DeleteReply,
       DeleteThread, FinishDelete, PostReply, ReplyFailed, ReplyStep, ReplyTicked, AlreadySaid,
       WouldReply, ResolveStep, AlreadySettled, ResolveTicked, WouldSettle, Settle
  <2>3. UNCHANGED register
    BY <2>2 DEF Finish, AfterReply
  <2> QED
    BY <2>1, <2>3
<1>2. CASE write_back
  BY <1>2 DEF write_back
<1>3. CASE ListComments \/ DryRunOver \/ WriteBackFails \/ Crash \/ UNCHANGED vars
  BY <1>3 DEF ListComments, DryRunOver, WriteBackFails, Crash, vars
<1> QED
  BY <1>1, <1>2, <1>3, ToolSteps DEF RunStep

\* What the run does to a thread's state: Settle does what its row says, DeleteThread
\* deletes the thread of its row.
LEMMA ThreadChanges ==
  ASSUME TypeOK, [Next]_vars, Tool, NEW t \in Threads
  PROVE  /\ threads'[t].resolved # threads[t].resolved =>
              Settle /\ Row.thread_id = t /\ threads'[t].resolved = Wanted
         /\ threads'[t].deleted # threads[t].deleted => DeleteThread /\ Row.thread_id = t
<1>1. threads \in [Threads -> [resolved : BOOLEAN, deleted : BOOLEAN]] /\ Wanted \in BOOLEAN
  BY RowTyped DEF TypeOK, DocumentOK
<1>2. CASE Settle
  <2>1. \/ threads' = threads
        \/ threads' = [threads EXCEPT ![Row.thread_id].resolved = Wanted]
    BY <1>2 DEF Settle
  <2> QED
    BY <1>1, <1>2, <2>1
<1>3. CASE DeleteThread
  <2>1. \/ threads' = threads
        \/ threads' = [threads EXCEPT ![Row.thread_id].deleted = TRUE]
    BY <1>3 DEF DeleteThread
  <2> QED
    BY <1>1, <1>3, <2>1
<1>4. CASE DeleteReply \/ PostReply \/ write_back
  BY <1>4 DEF DeleteReply, PostReply, write_back, document
<1> QED
  BY <1>2, <1>3, <1>4, OnlyWrites DEF document

\* A reply disappears in its old form only when the run deletes it.
LEMMA ReplyChanges ==
  ASSUME TypeOK, [Next]_vars, Tool, NEW r \in replies, r \notin replies'
  PROVE  \/ DeleteReply /\ r.thread = Row.reply_to /\ r.id = Row.thread_id
         \/ DeleteThread /\ r.thread = Row.thread_id
<1>1. \A t, id : r \in StripReply(replies, t, id) \/ (r.thread = t /\ r.id = id)
  BY DEF StripReply
<1>2. \A t : r \in StripThread(replies, t) \/ r.thread = t
  BY DEF StripThread
<1>3. CASE DeleteReply
  BY <1>1, <1>3 DEF DeleteReply
<1>4. CASE DeleteThread
  BY <1>2, <1>4 DEF DeleteThread
<1>5. CASE PostReply \/ Settle \/ write_back
  BY <1>5 DEF PostReply, Settle, write_back, document
<1> QED
  BY <1>3, <1>4, <1>5, OnlyWrites DEF document

\* Every step of a run does what the row it is at asks for and nothing else, in the order
\* the row's reader expects: a dry run changes nothing, a thread is closed only after the
\* row's answer is on it, a deletion takes what the row names (_apply.py:413-520).
THEOREM EveryStepActsByItsRow ==
  ASSUME MarkersKeepTheirRow
  PROVE  Spec => ActsByItsRow
<1>1. TypeOK /\ MarkInv /\ [Next]_vars => (Tool /\ ~apply => UNCHANGED <<document, register>>)
  BY OnlyWrites
<1>2. ASSUME TypeOK, MarkInv, [Next]_vars, Tool, NEW t \in Threads,
             threads'[t].resolved # threads[t].resolved
      PROVE  /\ ~IsReplyRow(Row) /\ Row.thread_id = t /\ ~WantsDelete(Row)
             /\ decision(Row.resolve_comment) = IF threads'[t].resolved THEN "act" ELSE "reverse"
             /\ Row.reply_comment # NoText => Said(Row)
  <2>1. Settle /\ Row.thread_id = t /\ threads'[t].resolved = Wanted
    BY <1>2, ThreadChanges
  <2>2. apply /\ Settles
    BY <2>1 DEF Settle, StillToSettle
  <2>3. CASE pc = "resolve"
    BY <1>2, <2>1, <2>2, <2>3 DEF MarkInv, Halfway, Wanted
  <2>4. CASE pc # "resolve"
    <3>1. Talks /\ Row.reply_comment = NoText
      BY <2>2, <2>4 DEF Settles
    <3>2. ~IsReplyRow(Row) /\ ~WantsDelete(Row)
      BY <3>1, OneThing DEF Talks
    <3>3. decision(Row.resolve_comment) \in {"act", "reverse"}
      BY <3>1 DEF Talks, Malformed, Idle, WantsTalk, decision
    <3> QED
      BY <2>1, <3>1, <3>2, <3>3 DEF Wanted
  <2> QED
    BY <2>3, <2>4
<1>3. ASSUME TypeOK, MarkInv, [Next]_vars, Tool
      PROVE  /\ \A t \in Threads : threads'[t].deleted # threads[t].deleted =>
                  ~IsReplyRow(Row) /\ WantsDelete(Row) /\ ~WantsTalk(Row) /\ Row.thread_id = t
             /\ \A r \in replies : r \notin replies' =>
                  /\ WantsDelete(Row) /\ ~WantsTalk(Row)
                  /\ r.thread = IF IsReplyRow(Row) THEN Row.reply_to ELSE Row.thread_id
                  /\ IsReplyRow(Row) => r.id = Row.thread_id
  <2>1. DeleteThread => ~IsReplyRow(Row) /\ WantsDelete(Row) /\ ~WantsTalk(Row)
    BY OneThing DEF DeleteThread, DeletesThread, Deletes
  <2>2. DeleteReply => IsReplyRow(Row) /\ WantsDelete(Row) /\ ~WantsTalk(Row)
    BY OneThing DEF DeleteReply, DeletesReply, Deletes
  <2> QED
    BY <1>3, <2>1, <2>2, ThreadChanges, ReplyChanges
<1>4. TypeOK /\ MarkInv /\ [Next]_vars =>
        (Tool => \A t \in Threads : threads'[t].resolved # threads[t].resolved =>
           /\ ~IsReplyRow(Row) /\ Row.thread_id = t /\ ~WantsDelete(Row)
           /\ decision(Row.resolve_comment) = IF threads'[t].resolved THEN "act" ELSE "reverse"
           /\ Row.reply_comment # NoText => Said(Row))
  BY <1>2
<1>5. TypeOK /\ MarkInv /\ [Next]_vars =>
        (Tool => /\ \A t \in Threads : threads'[t].deleted # threads[t].deleted =>
                      ~IsReplyRow(Row) /\ WantsDelete(Row) /\ ~WantsTalk(Row) /\ Row.thread_id = t
                 /\ \A r \in replies : r \notin replies' =>
                      /\ WantsDelete(Row) /\ ~WantsTalk(Row)
                      /\ r.thread = IF IsReplyRow(Row) THEN Row.reply_to ELSE Row.thread_id
                      /\ IsReplyRow(Row) => r.id = Row.thread_id)
  BY <1>3
<1> QED
  BY <1>1, <1>4, <1>5, MarksHold, PTL DEF Spec, ActsByItsRow, DryRunPure, AnswerBeforeClosing,
     NoCollateralDeletion

-----------------------------------------------------------------------------
(* The warning about a register of another document.                       *)

\* The deletions of this document's threads that the run counts as missing.
Alarming == {i \in missing : ~IsReplyRow(rows[i]) /\ WantsDelete(rows[i])
                               /\ rows[i].thread_id \in Threads}

\* A thread is absent from the listing only because it was deleted, and no row is missing
\* before the rows are worked on.
AlarmInv ==
  /\ pc \in {"idle", "list"} => missing = {}
  /\ pc \in {"row", "resolve"} => \A t \in Threads : ~comments[t].listed => threads[t].deleted
  /\ NoFalseAlarm

\* Steps of a row keep what was listed and what is missing, a second look aside.
LEMMA RowStepLists ==
  ASSUME TypeOK, RowStep
  PROVE  /\ \A t \in Threads : comments'[t].listed = comments[t].listed
         /\ ReportMissing \/ missing' = missing
         /\ rows' = rows /\ pc \in {"row", "resolve"} /\ pc' \notin {"idle", "list"}
         /\ faults' \in Nat /\ faults' >= faults
<1>1. faults \in Nat
  BY RegisterAssumption DEF TypeOK, BoundsOK
<1>2. \A t \in Threads : comments'[t].listed = comments[t].listed
  <2>1. \/ comments' = comments
        \/ \E t : comments' = [comments EXCEPT ![t].deleted = TRUE]
        \/ \E t, b : comments' = [comments EXCEPT ![t].resolved = b]
    BY DEF RowStep, NothingRequested, RefuseRow, MissingStep, FoundTombstone, ReportMissing,
       DeleteStep, DeleteTicked, NoSuchReply, AlreadyDeleted, WouldDelete, DeleteReply,
       DeleteThread, PostReply, ReplyStep, ReplyTicked, AlreadySaid, WouldReply,
       ResolveStep, AlreadySettled, ResolveTicked, WouldSettle, Settle, Untouched
  <2> QED
    BY <2>1 DEF TypeOK, ListingOK
<1>3. ReportMissing \/ missing' = missing
  BY DEF RowStep, NothingRequested, RefuseRow, MissingStep, FoundTombstone,
     DeleteStep, DeleteTicked, NoSuchReply, AlreadyDeleted, WouldDelete, DeleteReply,
     DeleteThread, PostReply, ReplyStep, ReplyTicked, AlreadySaid, WouldReply,
     ResolveStep, AlreadySettled, ResolveTicked, WouldSettle, Settle, Untouched
<1>4. faults' \in Nat /\ faults' >= faults
  <2>1. (\E answer : Charge(answer)) \/ Fault \/ faults' = faults
    BY DEF RowStep, NothingRequested, RefuseRow, MissingStep, FoundTombstone, ReportMissing,
       DeleteStep, DeleteTicked, NoSuchReply, AlreadyDeleted, WouldDelete, DeleteReply,
       DeleteThread, PostReply, ReplyStep, ReplyTicked, AlreadySaid, WouldReply,
       ResolveStep, AlreadySettled, ResolveTicked, WouldSettle, Settle, Untouched
  <2> QED
    BY <1>1, <2>1 DEF Charge, Fault
<1>5. \E result, done : Finish(result, done) \/ AfterReply(result, done)
  BY DEF RowStep, NothingRequested, RefuseRow, MissingStep, FoundTombstone, ReportMissing,
     DeleteStep, DeleteTicked, NoSuchReply, AlreadyDeleted, WouldDelete, DeleteReply,
     DeleteThread, FinishDelete, PostReply, ReplyFailed, ReplyStep, ReplyTicked, AlreadySaid,
     WouldReply, ResolveStep, AlreadySettled, ResolveTicked, WouldSettle, Settle
<1>6. rows' = rows /\ pc' \notin {"idle", "list"}
  BY <1>5 DEF Finish, AfterReply
<1>7. pc \in {"row", "resolve"}
  BY DEF RowStep, NothingRequested, RefuseRow, MissingStep, FoundTombstone, ReportMissing,
     Missing, DeleteStep, DeleteTicked, NoSuchReply, AlreadyDeleted, WouldDelete, StillThere,
     DeletesReply, DeletesThread, Deletes, ReplyStep, ReplyTicked, AlreadySaid, WouldReply,
     StillToSay, Replies, Talks, ResolveStep, AlreadySettled, ResolveTicked, WouldSettle,
     StillToSettle, Settle, Settles, DeleteReply, DeleteThread, PostReply
<1> QED
  BY <1>2, <1>3, <1>4, <1>6, <1>7

LEMMA NextAlarms ==
  ASSUME TypeOK, AlarmInv, [Next]_vars
  PROVE  AlarmInv'
<1>1. TypeOK' /\ Grows /\ faults \in Nat /\ faults' \in Nat
  BY NextTyped, NextGrows, RegisterAssumption DEF TypeOK, BoundsOK
<1>2. IsFiniteSet(Alarming) /\ Cardinality(Alarming) \in Nat /\ Cardinality(Alarming) <= faults
  <2>1. IsFiniteSet(RowIds)
    BY RegisterAssumption, FS_Interval DEF RowIds
  <2>2. IsFiniteSet(Alarming)
    BY <2>1, FS_Subset DEF TypeOK, ListingOK, Alarming
  <2> QED
    BY <2>2, FS_CardinalityType DEF AlarmInv, NoFalseAlarm, Alarming
<1>3. ASSUME missing' = {} PROVE NoFalseAlarm'
  <2>1. Alarming' = {}
    BY <1>3 DEF Alarming
  <2> QED
    BY <1>1, <2>1, FS_EmptySet DEF NoFalseAlarm, Alarming
<1>4. ASSUME missing' = missing, rows' = rows, faults' >= faults PROVE NoFalseAlarm'
  <2>1. Alarming' = Alarming
    BY <1>4 DEF Alarming
  <2> QED
    BY <1>1, <1>2, <1>4, <2>1 DEF NoFalseAlarm, Alarming
<1>5. CASE RowStep
  <2>1. pc' \in {"row", "resolve"} => \A t \in Threads : ~comments'[t].listed => threads'[t].deleted
    BY <1>1, <1>5, RowStepLists DEF AlarmInv, Grows
  <2>2. CASE ReportMissing
    <3>1. rows' = rows /\ faults' >= faults /\ missing' = missing \cup {cur} /\ cur \in RowIds
      BY <1>5, <2>2, RowStepLists DEF ReportMissing, TypeOK, LoopOK
    <3>2. CASE WantsDelete(Row) /\ Row.thread_id \in Threads
      <4>1. Tombstone(Row.thread_id)
        BY <2>2, <3>2 DEF ReportMissing, Missing, Listed, AlarmInv, Tombstone
      <4>2. faults' = faults + 1
        BY <2>2, <3>2, <4>1 DEF ReportMissing, Fault
      <4>3. Alarming' \subseteq Alarming \cup {cur}
        BY <3>1 DEF Alarming
      <4>4. /\ IsFiniteSet(Alarming \cup {cur})
            /\ Cardinality(Alarming \cup {cur}) <= Cardinality(Alarming) + 1
        BY <1>2, FS_AddElement
      <4>5. Cardinality(Alarming') <= Cardinality(Alarming \cup {cur})
            /\ Cardinality(Alarming') \in Nat /\ Cardinality(Alarming \cup {cur}) \in Nat
        BY <4>3, <4>4, FS_Subset, FS_CardinalityType
      <4>6. Cardinality(Alarming') <= faults'
        BY <1>1, <1>2, <4>2, <4>4, <4>5
      <4>7. NoFalseAlarm'
        BY <4>6 DEF NoFalseAlarm, Alarming
      <4> QED
        BY <1>5, <2>1, <4>7, RowStepLists DEF AlarmInv
    <3>3. CASE ~(WantsDelete(Row) /\ Row.thread_id \in Threads)
      <4>1. Alarming' = Alarming
        BY <3>1, <3>3 DEF Alarming, Row
      <4>2. Cardinality(Alarming') <= faults'
        BY <1>1, <1>2, <3>1, <4>1
      <4>3. NoFalseAlarm'
        BY <4>2 DEF NoFalseAlarm, Alarming
      <4> QED
        BY <1>5, <2>1, <4>3, RowStepLists DEF AlarmInv
    <3> QED
      BY <3>2, <3>3
  <2>3. CASE ~ReportMissing
    BY <1>4, <1>5, <2>1, <2>3, RowStepLists DEF AlarmInv
  <2> QED
    BY <2>2, <2>3
<1>6. CASE Forget
  BY <1>3, <1>6 DEF Forget, AlarmInv
<1>7. ASSUME NEW a \in BOOLEAN, NEW f \in BOOLEAN, ReadRegister(a, f) PROVE AlarmInv'
  BY <1>3, <1>7 DEF ReadRegister, AlarmInv
<1>8. CASE ListComments
  <2>1. pc' = "row" /\ missing' = missing /\ rows' = rows /\ faults' = faults
    BY <1>8 DEF ListComments, bounds
  <2>2. \A t \in Threads : ~comments'[t].listed => threads'[t].deleted
    BY <1>8 DEF ListComments, document, LiveThread
  <2> QED
    BY <1>1, <1>4, <2>1, <2>2 DEF AlarmInv
<1>9. CASE People \/ UNCHANGED vars
  <2>1. UNCHANGED <<pc, missing, rows, comments, faults>>
    BY <1>9 DEF People, SomebodyReplies, SomebodySettles, SomebodyDeletes, EditCell, SortSheet,
       Human, memory, vars, bounds
  <2> QED
    BY <1>1, <1>4, <2>1 DEF AlarmInv, Grows
<1> QED
  BY <1>5, <1>6, <1>7, <1>8, <1>9 DEF Next, RunStep, DryRunOver, write_back, WriteBackFails, Crash

\* A deletion that has been made is counted towards "this register is of another document"
\* only when looking its thread up failed, whatever else goes wrong and whoever sorts the
\* sheet meanwhile (_apply.py:396-411).
THEOREM NoAlarmWithoutFault == Spec => []NoFalseAlarm
<1>1. Init => TypeOK /\ AlarmInv
  <2> SUFFICES ASSUME Init PROVE AlarmInv
    BY InitTyped
  <2>1. missing = {} /\ faults = 0 /\ pc = "idle"
    BY DEF Init
  <2>2. Alarming = {}
    BY <2>1 DEF Alarming
  <2> QED
    BY <2>1, <2>2, FS_EmptySet DEF AlarmInv, NoFalseAlarm, Alarming
<1>2. TypeOK /\ AlarmInv /\ [Next]_vars => (TypeOK /\ AlarmInv)'
  BY NextTyped, NextAlarms
<1>3. AlarmInv => NoFalseAlarm
  BY DEF AlarmInv
<1> QED
  BY <1>1, <1>2, <1>3, PTL DEF Spec
=============================================================================
