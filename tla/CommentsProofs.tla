--------------------------- MODULE CommentsProofs ---------------------------
(***************************************************************************)
(* The tools about comments, for any number of calls, threads, replies and *)
(* people in the editor; and the passage a comment is shown with, for any  *)
(* document, quote and limit.                                              *)
(***************************************************************************)
EXTENDS ThreadToolsProperties, RegisterExportProperties, PassageProperties, SequenceFacts

-----------------------------------------------------------------------------
(* The comment tools of one file: what Drive makes of a thread. *)

AllTools == ReplyTools \cup ChangeTools
Writers == ToolCalls \cup {Person}
Reply == [text : Writers \cup {Stripped}, action : ReplyTools, deleted : BOOLEAN]
Thread == [there : BOOLEAN, deleted : BOOLEAN, resolved : BOOLEAN,
           text : Writers \cup {Stripped}, replies : Seq(Reply), deleter : Writers \cup {Stripped}]

\* Of what is deleted neither text nor author is left, in a thread as in its replies.
SaidOrGone(r) == r.deleted <=> r.text = Stripped
Sound(t) ==
  /\ t \in Thread /\ SaidOrGone(t)
  /\ \A i \in DOMAIN t.replies : SaidOrGone(t.replies[i]) /\ (t.deleted => t.replies[i].deleted)

LEMMA WritersSpeak == \A w \in Writers : w # Stripped
  BY ThreadAssumption DEF Writers

LEMMA CreatedIsSound ==
  ASSUME NEW w \in Writers, NEW there \in BOOLEAN
  PROVE  /\ Sound([create_comment(w) EXCEPT !.there = there])
         /\ Sound(create_comment(w))
         /\ create_comment(w).deleter = Stripped /\ create_comment(w).there
         /\ ~create_comment(w).deleted
<1>1. PICK t : t = create_comment(w) OBVIOUS
<1>2. /\ t \in Thread /\ ~t.deleted /\ t.text = w /\ t.replies = <<>> /\ t.there
      /\ t.deleter = Stripped
  BY <1>1, EmptySeq DEF create_comment, Thread
<1>3. PICK u : u = [t EXCEPT !.there = there] OBVIOUS
<1>4. u \in Thread /\ ~u.deleted /\ u.text = w /\ u.replies = <<>>
  BY <1>2, <1>3 DEF Thread
<1> QED BY <1>1, <1>2, <1>3, <1>4, WritersSpeak DEF Sound, SaidOrGone

\* A reply that carries an action resolves or reopens.
LEMMA RepliedIsSound ==
  ASSUME NEW t, Sound(t), ~t.deleted, t.there, NEW w \in Writers, NEW action \in ReplyTools,
         NEW u, u = create_reply(t, w, action)
  PROVE  Sound(u) /\ u.there /\ ~u.deleted /\ u.deleter = t.deleter
<1>1. PICK r : r = [text |-> w, action |-> action, deleted |-> FALSE] OBVIOUS
<1>2. r \in Reply /\ SaidOrGone(r) BY <1>1, WritersSpeak DEF Reply, SaidOrGone
<1>3. t \in Thread /\ t.replies \in Seq(Reply) BY DEF Sound, Thread
<1>4. PICK said : said = Append(t.replies, r) OBVIOUS
<1>5. said \in Seq(Reply) /\ Len(said) = Len(t.replies) + 1
      /\ \A i \in 1 .. Len(said) : said[i] = IF i <= Len(t.replies) THEN t.replies[i] ELSE r
  BY <1>2, <1>3, <1>4
<1>6. PICK b \in BOOLEAN : b = IF action = "reply" THEN t.resolved ELSE action = "resolve"
  BY <1>3 DEF Thread
<1>7. u = [t EXCEPT !.replies = said, !.resolved = b]
  BY <1>1, <1>4, <1>6 DEF create_reply
<1>8. /\ u \in Thread /\ u.there = t.there /\ u.deleted = t.deleted /\ u.deleter = t.deleter
      /\ u.text = t.text /\ u.replies = said /\ u.resolved = b
  BY <1>3, <1>5, <1>7 DEF Thread
<1>9. \A i \in DOMAIN said : SaidOrGone(said[i])
  BY <1>2, <1>3, <1>5 DEF Sound
<1>10. Sound(u) BY <1>8, <1>9 DEF Sound, SaidOrGone
<1> QED BY <1>1, <1>4, <1>6, <1>8, <1>10

LEMMA RepliedSays ==
  ASSUME NEW t \in Thread, NEW w, NEW action, NEW u, u = create_reply(t, w, action)
  PROVE  /\ u.replies = Append(t.replies, [text |-> w, action |-> action, deleted |-> FALSE])
         /\ action # "reply" => (u.resolved <=> action = "resolve")
  BY DEF create_reply, Thread

LEMMA EditedIsSound ==
  ASSUME NEW t, Sound(t), ~t.deleted, t.there, NEW w \in Writers, NEW i \in DOMAIN t.replies,
         ~t.replies[i].deleted,
         NEW u, u = update_reply(t, i, w)
  PROVE  Sound(u) /\ u.there /\ ~u.deleted /\ u.deleter = t.deleter
<1>1. t \in Thread /\ t.replies \in Seq(Reply) /\ t.replies[i] \in Reply
  BY DEF Sound, Thread
<1>2. PICK r : r = [t.replies[i] EXCEPT !.text = w] OBVIOUS
<1>3. r \in Reply /\ r.text = w /\ r.deleted = t.replies[i].deleted BY <1>1, <1>2 DEF Reply
<1>4. PICK said : said = [t.replies EXCEPT ![i] = r] OBVIOUS
<1>5. said \in Seq(Reply) /\ DOMAIN said = DOMAIN t.replies
      /\ \A j \in DOMAIN said : said[j] = IF j = i THEN r ELSE t.replies[j]
  BY <1>1, <1>3, <1>4
<1>6. u = [t EXCEPT !.replies = said] BY <1>2, <1>4 DEF update_reply
<1>7. /\ u \in Thread /\ u.there = t.there /\ u.deleted = t.deleted /\ u.deleter = t.deleter
      /\ u.text = t.text /\ u.replies = said
  BY <1>1, <1>5, <1>6 DEF Thread
<1>8. SaidOrGone(r) BY <1>3, WritersSpeak DEF SaidOrGone
<1> QED BY <1>5, <1>7, <1>8 DEF Sound, SaidOrGone

LEMMA RewrittenIsSound ==
  ASSUME NEW t, Sound(t), ~t.deleted, t.there, NEW w \in Writers,
         NEW u, u = update_comment(t, w)
  PROVE  Sound(u) /\ u.there /\ ~u.deleted /\ u.deleter = t.deleter
<1>1. t \in Thread BY DEF Sound
<1>2. /\ u \in Thread /\ u.there = t.there /\ u.deleted = t.deleted /\ u.deleter = t.deleter
      /\ u.text = w /\ u.replies = t.replies
  BY <1>1 DEF Thread, update_comment
<1> QED BY <1>2, WritersSpeak DEF Sound, SaidOrGone

LEMMA StrippedIsGone ==
  ASSUME NEW r \in Reply
  PROVE  strip(r) \in Reply /\ SaidOrGone(strip(r)) /\ strip(r).deleted
  BY DEF Reply, strip, SaidOrGone

LEMMA UnsaidIsSound ==
  ASSUME NEW t, Sound(t), ~t.deleted, t.there, NEW i \in DOMAIN t.replies,
         NEW u, u = delete_reply(t, i)
  PROVE  Sound(u) /\ u.there /\ ~u.deleted /\ u.deleter = t.deleter
<1>1. t \in Thread /\ t.replies \in Seq(Reply) /\ t.replies[i] \in Reply
  BY DEF Sound, Thread
<1>2. PICK r : r = strip(t.replies[i]) OBVIOUS
<1>3. r \in Reply /\ SaidOrGone(r) BY <1>1, <1>2, StrippedIsGone
<1>4. PICK said : said = [t.replies EXCEPT ![i] = r] OBVIOUS
<1>5. said \in Seq(Reply) /\ DOMAIN said = DOMAIN t.replies
      /\ \A j \in DOMAIN said : said[j] = IF j = i THEN r ELSE t.replies[j]
  BY <1>1, <1>3, <1>4
<1>6. u = [t EXCEPT !.replies = said] BY <1>2, <1>4 DEF delete_reply
<1>7. /\ u \in Thread /\ u.there = t.there /\ u.deleted = t.deleted /\ u.deleter = t.deleter
      /\ u.text = t.text /\ u.replies = said
  BY <1>1, <1>5, <1>6 DEF Thread
<1> QED BY <1>3, <1>5, <1>7 DEF Sound, SaidOrGone

LEMMA DeletedIsSound ==
  ASSUME NEW t, Sound(t), ~t.deleted, t.there, NEW w \in Writers,
         NEW u, u = delete_comment(t, w)
  PROVE  Sound(u) /\ u.there /\ u.deleted /\ u.deleter = w
<1>1. t \in Thread /\ t.replies \in Seq(Reply) BY DEF Sound, Thread
<1>2. PICK said : said = [i \in DOMAIN t.replies |-> strip(t.replies[i])] OBVIOUS
<1>3. said \in Seq(Reply) /\ \A j \in DOMAIN said : SaidOrGone(said[j]) /\ said[j].deleted
  <2>1. \A j \in 1 .. Len(t.replies) : t.replies[j] \in Reply BY <1>1
  <2>2. said = [j \in 1 .. Len(t.replies) |-> strip(t.replies[j])] BY <1>1, <1>2
  <2>3. \A j \in 1 .. Len(t.replies) : /\ said[j] \in Reply
                                       /\ SaidOrGone(said[j]) /\ said[j].deleted
    BY <2>1, <2>2, StrippedIsGone
  <2>4. PICK n \in Nat : n = Len(t.replies) BY <1>1
  <2>5. said = [j \in 1 .. n |-> said[j]] BY <2>2, <2>4
  <2>6. said \in Seq(Reply) /\ DOMAIN said = 1 .. n BY <2>3, <2>4, <2>5
  <2> QED BY <2>3, <2>4, <2>6
<1>4. u = [t EXCEPT !.text = Stripped, !.deleted = TRUE, !.deleter = w, !.replies = said]
  BY <1>2 DEF delete_comment
<1>5. /\ u \in Thread /\ u.there = t.there /\ u.deleted /\ u.deleter = w
      /\ u.text = Stripped /\ u.replies = said
  BY <1>1, <1>3, <1>4 DEF Thread
<1> QED BY <1>3, <1>5 DEF Sound, SaidOrGone

\* What Drive makes of a thread at the request of a call: it stays what it was but for
\* what the call asks, and only the deletion of the whole thread deletes it.
LEMMA ChangedIsSound ==
  ASSUME NEW t, Sound(t), NEW call, call.tool \in AllTools, NEW w \in Writers,
         DriveTakes(t, call.reply), call.tool \in ReplyTools => call.reply = WholeThread,
         NEW u, u = Changed(t, call, w)
  PROVE  /\ Sound(u) /\ u.there
         /\ IF call.tool = "delete" /\ call.reply = WholeThread
              THEN u.deleted /\ u.deleter = w
              ELSE ~u.deleted /\ u.deleter = t.deleter
<1>1. t.there /\ ~t.deleted BY DEF DriveTakes
<1>2. CASE call.tool \in ReplyTools
  <2>1. PICK action \in ReplyTools : action = call.tool BY <1>2
  <2>2. u = create_reply(t, w, action) BY <2>1 DEF Changed, ReplyTools
  <2>3. call.tool # "delete" BY <1>2 DEF ReplyTools
  <2>4. Sound(u) /\ u.there /\ ~u.deleted /\ u.deleter = t.deleter
    BY <1>1, <2>2, RepliedIsSound
  <2> QED BY <2>3, <2>4
<1>3. CASE call.tool = "edit" /\ call.reply = WholeThread
  <2>1. u = update_comment(t, w) BY <1>3 DEF Changed, ReplyTools
  <2> QED BY <1>1, <1>3, <2>1, RewrittenIsSound
<1>4. CASE call.tool = "edit" /\ call.reply # WholeThread
  <2>1. u = update_reply(t, call.reply, w) BY <1>4 DEF Changed, ReplyTools
  <2>2. call.reply \in DOMAIN t.replies /\ ~t.replies[call.reply].deleted
    BY <1>4 DEF DriveTakes
  <2> QED BY <1>1, <1>4, <2>1, <2>2, EditedIsSound
<1>5. CASE call.tool = "delete" /\ call.reply = WholeThread
  <2>1. u = delete_comment(t, w) BY <1>5 DEF Changed, ReplyTools
  <2> QED BY <1>1, <1>5, <2>1, DeletedIsSound
<1>6. CASE call.tool = "delete" /\ call.reply # WholeThread
  <2>1. u = delete_reply(t, call.reply) BY <1>6 DEF Changed, ReplyTools
  <2>2. call.reply \in DOMAIN t.replies BY <1>6 DEF DriveTakes
  <2> QED BY <1>1, <1>6, <2>1, <2>2, UnsaidIsSound
<1> QED BY <1>2, <1>3, <1>4, <1>5, <1>6 DEF AllTools, ChangeTools

-----------------------------------------------------------------------------
(* The calls of the comment tools. *)

CallFields == {"at", "tool", "thread", "reply", "read_only", "copy", "wrote"}
Shaped ==
  /\ tool = [c \in ToolCalls |-> tool[c]]
  /\ \A c \in ToolCalls : DOMAIN tool[c] = CallFields

\* What a call knows on its way: it has written nothing before its change is carried
\* out; it comes to the change with a thread and with leave to write; a thread it has
\* changed is there, and one it does not find again has been deleted, though not by it.
CallKnows(c) ==
  /\ tool[c].at \in {"get", "change", "read back"} =>
       /\ tool[c].tool \in AllTools /\ tool[c].thread \in ThreadIds
       /\ tool[c].tool \in ReplyTools => tool[c].reply = WholeThread
  /\ tool[c].at \in {"unborn", "get", "change"} => tool[c].wrote = FALSE
  /\ tool[c].at = "change" => tool[c].copy \in Thread /\ ~tool[c].read_only
  /\ tool[c].at = "read back" =>
       tool[c].tool \in ChangeTools /\ threads[tool[c].thread].there
  /\ tool[c].at = "not found" /\ tool[c].wrote =>
       /\ ~wants_tombstone(tool[c]) /\ tool[c].thread \in ThreadIds
       /\ threads[tool[c].thread].there /\ threads[tool[c].thread].deleted

\* Who deleted a thread is a call that set out to.
DeletedBy(x, c) ==
  threads[x].deleter = c => wants_tombstone(tool[c]) /\ tool[c].at # "unborn"

ThreadInv ==
  /\ Shaped
  /\ threads \in [ThreadIds -> Thread] /\ \A x \in ThreadIds : Sound(threads[x])
  /\ meddling \in 0 .. MaxHands
  /\ \A c \in ToolCalls : CallKnows(c)
  /\ \A x \in ThreadIds, c \in ToolCalls : DeletedBy(x, c)

LEMMA InitThreads == ThreadInit => ThreadInv
<1> SUFFICES ASSUME ThreadInit PROVE ThreadInv OBVIOUS
<1>1. Person \in Writers BY DEF Writers
<1>2. ASSUME NEW x \in ThreadIds PROVE Sound(threads[x]) /\ threads[x].deleter = Stripped
  <2>1. PICK b \in BOOLEAN : b = (x \notin UnbornThreads) OBVIOUS
  <2>2. PICK t : t = create_comment(Person) OBVIOUS
  <2>3. threads[x] = [t EXCEPT !.there = b] BY <2>1, <2>2 DEF ThreadInit
  <2>4. Sound([t EXCEPT !.there = b]) /\ Sound(t) /\ t.deleter = Stripped
    BY <1>1, <2>2, CreatedIsSound
  <2>5. t \in Thread BY <2>4 DEF Sound
  <2>6. [t EXCEPT !.there = b].deleter = Stripped BY <2>4, <2>5 DEF Thread
  <2> QED BY <2>3, <2>4, <2>6
<1>3. threads \in [ThreadIds -> Thread] BY <1>2 DEF ThreadInit, Sound
<1>4. \A c \in ToolCalls : tool[c] = NotCalled BY DEF ThreadInit
<1>5. Shaped BY <1>4 DEF ThreadInit, Shaped, NotCalled, CallFields
<1>6. \A c \in ToolCalls : CallKnows(c)
  <2>1. \A c \in ToolCalls : tool[c].at = "unborn" /\ tool[c].wrote = FALSE
    BY <1>4 DEF NotCalled
  <2> QED BY <2>1 DEF CallKnows
<1>7. \A c \in ToolCalls : c # Stripped BY ThreadAssumption
<1>8. meddling \in 0 .. MaxHands BY ThreadAssumption DEF ThreadInit
<1> QED BY <1>2, <1>3, <1>5, <1>6, <1>7, <1>8 DEF ThreadInv, DeletedBy

LEMMA GoesMovesOn ==
  ASSUME Shaped, NEW c \in ToolCalls, NEW fields, Goes(c, fields)
  PROVE  /\ Shaped'
         /\ \A f \in CallFields : tool'[c][f] = IF f \in DOMAIN fields THEN fields[f] ELSE tool[c][f]
         /\ \A d \in ToolCalls \ {c} : tool'[d] = tool[d]
<1>1. tool = [d \in ToolCalls |-> tool[d]] /\ \A d \in ToolCalls : DOMAIN tool[d] = CallFields
  BY DEF Shaped
<1>2. /\ tool' = [d \in ToolCalls |-> tool'[d]] /\ DOMAIN tool'[c] = CallFields
      /\ \A d \in ToolCalls \ {c} : tool'[d] = tool[d]
  BY <1>1 DEF Goes
<1>3. \A f \in CallFields : tool'[c][f] = IF f \in DOMAIN fields THEN fields[f] ELSE tool[c][f]
  BY <1>1 DEF Goes
<1> QED BY <1>1, <1>2, <1>3 DEF Shaped

\* A step of one call: the others rest, no thread goes away, a deleted one stays as it is.
LEMMA OneCallSteps ==
  ASSUME ThreadInv, NEW c \in ToolCalls, Shaped', \A d \in ToolCalls \ {c} : tool'[d] = tool[d],
         CallKnows(c)', meddling' = meddling,
         threads' \in [ThreadIds -> Thread], \A x \in ThreadIds : Sound(threads'[x]),
         \A x \in ThreadIds : threads[x].there => threads'[x].there,
         \A x \in ThreadIds : threads[x].there /\ threads[x].deleted => threads'[x].deleted,
         \A x \in ThreadIds : threads'[x].deleter \in {threads[x].deleter, Stripped, c},
         \A x \in ThreadIds : threads'[x].deleter = c =>
                                wants_tombstone(tool'[c]) /\ tool'[c].at # "unborn"
  PROVE  ThreadInv'
<1>1. ASSUME NEW d \in ToolCalls PROVE CallKnows(d)'
  <2>1. CASE d = c BY <2>1
  <2>2. CASE d # c
    <3>1. tool'[d] = tool[d] /\ CallKnows(d) BY <2>2 DEF ThreadInv
    <3> QED BY <3>1 DEF CallKnows, wants_tombstone
  <2> QED BY <2>1, <2>2
<1>2. ASSUME NEW x \in ThreadIds, NEW d \in ToolCalls PROVE DeletedBy(x, d)'
  <2>1. d # Stripped BY ThreadAssumption
  <2>2. CASE d = c BY <2>2 DEF DeletedBy, wants_tombstone
  <2>3. CASE d # c
    <3>1. tool'[d] = tool[d] /\ DeletedBy(x, d) BY <2>3 DEF ThreadInv
    <3> QED BY <2>1, <2>3, <3>1 DEF DeletedBy, wants_tombstone
  <2> QED BY <2>2, <2>3
<1> QED BY <1>1, <1>2 DEF ThreadInv, Sound, SaidOrGone, Thread

\* A call that only moves on.
LEMMA OnlyMovesOn ==
  ASSUME ThreadInv, NEW c \in ToolCalls, Shaped', \A d \in ToolCalls \ {c} : tool'[d] = tool[d],
         CallKnows(c)', UNCHANGED <<threads, meddling>>,
         tool[c].at # "unborn" =>
           /\ tool'[c].tool = tool[c].tool /\ tool'[c].reply = tool[c].reply
           /\ tool'[c].at # "unborn"
  PROVE  ThreadInv'
<1>1. \A x \in ThreadIds : DeletedBy(x, c) BY DEF ThreadInv
<1> QED BY <1>1, OneCallSteps DEF ThreadInv, DeletedBy, wants_tombstone


LEMMA CallToolKeepsOn ==
  ASSUME ThreadInv, NEW c \in ToolCalls, tool[c].at = "unborn", NEW name \in AllTools,
         NEW x \in ThreadIds, NEW i, NEW read_only, CallTool(c, name, x, i, read_only)
  PROVE  ThreadInv'
<1>1. Goes(c, [at |-> "get", tool |-> name, thread |-> x, reply |-> i, read_only |-> read_only])
  BY DEF CallTool
<1>2. Shaped /\ CallKnows(c) BY DEF ThreadInv
<1>3. PICK fields : fields = [at |-> "get", tool |-> name, thread |-> x, reply |-> i,
                              read_only |-> read_only]
  OBVIOUS
<1>4. /\ Shaped'
      /\ \A f \in CallFields : tool'[c][f] = IF f \in DOMAIN fields THEN fields[f] ELSE tool[c][f]
      /\ \A d \in ToolCalls \ {c} : tool'[d] = tool[d]
  BY <1>1, <1>2, <1>3, GoesMovesOn
<1>5. /\ tool'[c].at = "get" /\ tool'[c].tool = name /\ tool'[c].thread = x
      /\ tool'[c].reply = i /\ tool'[c].wrote = tool[c].wrote
  BY <1>3, <1>4 DEF CallFields
<1>6. CallKnows(c)' BY <1>2, <1>5 DEF CallKnows, CallTool
<1>7. UNCHANGED <<threads, meddling>> BY DEF CallTool
<1> QED BY <1>4, <1>6, <1>7, OnlyMovesOn

LEMMA FetchMoves ==
  ASSUME ThreadInv, NEW c \in ToolCalls, Fetch(c)
  PROVE  /\ Shaped' /\ \A d \in ToolCalls \ {c} : tool'[d] = tool[d]
         /\ \A f \in CallFields \ {"at", "copy"} : tool'[c][f] = tool[c][f]
         /\ tool'[c].at \in {"not found", "read only", "change"}
         /\ tool'[c].at = "change" => tool'[c].copy \in Thread /\ ~tool[c].read_only
<1>1. Shaped /\ CallKnows(c) /\ tool[c].at = "get" BY DEF ThreadInv, Fetch
<1>2. tool[c].thread \in ThreadIds BY <1>1 DEF CallKnows
<1>3. PICK t \in Thread : t = threads[tool[c].thread] BY <1>2 DEF ThreadInv
<1>4. ASSUME NEW place \in {"not found", "read only"}, Goes(c, [at |-> place])
      PROVE  /\ Shaped' /\ \A d \in ToolCalls \ {c} : tool'[d] = tool[d]
             /\ \A f \in CallFields \ {"at", "copy"} : tool'[c][f] = tool[c][f]
             /\ tool'[c].at = place
  <2>1. PICK fields : fields = [at |-> place] OBVIOUS
  <2>2. /\ Shaped' /\ \A d \in ToolCalls \ {c} : tool'[d] = tool[d]
        /\ \A f \in CallFields : tool'[c][f] = IF f \in DOMAIN fields THEN fields[f] ELSE tool[c][f]
    BY <1>1, <1>4, <2>1, GoesMovesOn
  <2> QED BY <2>1, <2>2 DEF CallFields
<1>5. CASE Goes(c, [at |-> "change", copy |-> t]) /\ ~tool[c].read_only
  <2>1. PICK fields : fields = [at |-> "change", copy |-> t] OBVIOUS
  <2>2. /\ Shaped' /\ \A d \in ToolCalls \ {c} : tool'[d] = tool[d]
        /\ \A f \in CallFields : tool'[c][f] = IF f \in DOMAIN fields THEN fields[f] ELSE tool[c][f]
    BY <1>1, <1>5, <2>1, GoesMovesOn
  <2> QED BY <1>3, <1>5, <2>1, <2>2 DEF CallFields
<1>6. \/ \E place \in {"not found", "read only"} : Goes(c, [at |-> place])
      \/ Goes(c, [at |-> "change", copy |-> t]) /\ ~tool[c].read_only
  BY <1>3 DEF Fetch, _guard
<1> QED BY <1>4, <1>5, <1>6

LEMMA FetchKeepsOn ==
  ASSUME ThreadInv, NEW c \in ToolCalls, Fetch(c)
  PROVE  ThreadInv'
<1>1. /\ Shaped' /\ \A d \in ToolCalls \ {c} : tool'[d] = tool[d]
      /\ \A f \in CallFields \ {"at", "copy"} : tool'[c][f] = tool[c][f]
      /\ tool'[c].at \in {"not found", "read only", "change"}
      /\ tool'[c].at = "change" => tool'[c].copy \in Thread /\ ~tool[c].read_only
  BY FetchMoves
<1>2. /\ tool'[c].tool = tool[c].tool /\ tool'[c].thread = tool[c].thread
      /\ tool'[c].reply = tool[c].reply /\ tool'[c].wrote = tool[c].wrote
      /\ tool'[c].read_only = tool[c].read_only
  BY <1>1 DEF CallFields
<1>3. CallKnows(c) /\ tool[c].at = "get" BY DEF ThreadInv, Fetch
<1>4. CallKnows(c)' BY <1>1, <1>2, <1>3 DEF CallKnows
<1>5. UNCHANGED <<threads, meddling>> BY DEF Fetch
<1> QED BY <1>1, <1>2, <1>4, <1>5, OnlyMovesOn

\* A change that is carried out: to the thread of the call, by the call.
LEMMA CarriedOut ==
  ASSUME ThreadInv, NEW c \in ToolCalls, tool[c].at = "change", DriveTakes(threads[tool[c].thread], tool[c].reply),
         threads' = [threads EXCEPT ![tool[c].thread] = Changed(threads[tool[c].thread], tool[c], c)],
         tool'[c].tool = tool[c].tool, tool'[c].reply = tool[c].reply, tool'[c].at # "unborn"
  PROVE  /\ threads' \in [ThreadIds -> Thread] /\ \A x \in ThreadIds : Sound(threads'[x])
         /\ \A x \in ThreadIds : threads[x].there => threads'[x].there
         /\ \A x \in ThreadIds : threads[x].there /\ threads[x].deleted => threads'[x].deleted
         /\ \A x \in ThreadIds : threads'[x].deleter \in {threads[x].deleter, Stripped, c}
         /\ \A x \in ThreadIds : threads'[x].deleter = c =>
                                   wants_tombstone(tool'[c]) /\ tool'[c].at # "unborn"
         /\ threads'[tool[c].thread].there
         /\ threads'[tool[c].thread] = Changed(threads[tool[c].thread], tool[c], c)
<1>1. CallKnows(c) /\ \A x \in ThreadIds : DeletedBy(x, c) BY DEF ThreadInv
<1>2. PICK y \in ThreadIds : y = tool[c].thread BY <1>1 DEF CallKnows
<1>3. PICK t : t = threads[y] OBVIOUS
<1>4. PICK call : call = tool[c] OBVIOUS
<1>5. PICK u : u = Changed(t, call, c) OBVIOUS
<1>6. /\ Sound(t) /\ call.tool \in AllTools /\ DriveTakes(t, call.reply)
      /\ call.tool \in ReplyTools => call.reply = WholeThread
  BY <1>1, <1>2, <1>3, <1>4 DEF ThreadInv, CallKnows
<1>7. c \in Writers BY DEF Writers
<1>8. /\ Sound(u) /\ u.there
      /\ IF call.tool = "delete" /\ call.reply = WholeThread
           THEN u.deleted /\ u.deleter = c
           ELSE ~u.deleted /\ u.deleter = t.deleter
  BY <1>5, <1>6, <1>7, ChangedIsSound
<1>9. threads' = [threads EXCEPT ![y] = u] BY <1>2, <1>3, <1>4, <1>5
<1>10. threads \in [ThreadIds -> Thread] BY DEF ThreadInv
<1>11. threads'[y] = u /\ \A x \in ThreadIds \ {y} : threads'[x] = threads[x]
  BY <1>9, <1>10
<1>12. u \in Thread BY <1>8 DEF Sound
<1>13. threads' \in [ThreadIds -> Thread] BY <1>9, <1>10, <1>12
<1>14. ASSUME NEW x \in ThreadIds, threads'[x].deleter = c PROVE wants_tombstone(tool'[c])
  <2>1. CASE threads[x].deleter = c BY <1>1, <2>1 DEF DeletedBy, wants_tombstone
  <2>2. CASE threads[x].deleter # c
    <3>1. x = y /\ u.deleter = c BY <1>11, <1>14, <2>2
    <3>2. call.tool = "delete" /\ call.reply = WholeThread BY <1>3, <1>8, <2>2, <3>1
    <3> QED BY <1>4, <3>2 DEF wants_tombstone
  <2> QED BY <2>1, <2>2
<1>15. ~t.deleted BY <1>6 DEF DriveTakes
<1>16. \A x \in ThreadIds : Sound(threads'[x]) BY <1>8, <1>11 DEF ThreadInv
<1>17. \A x \in ThreadIds : /\ threads[x].there => threads'[x].there
                            /\ threads[x].there /\ threads[x].deleted => threads'[x].deleted
  BY <1>3, <1>8, <1>11, <1>15
<1>18. \A x \in ThreadIds : threads'[x].deleter \in {threads[x].deleter, Stripped, c}
  BY <1>3, <1>8, <1>11
<1> QED
  BY <1>2, <1>3, <1>4, <1>5, <1>8, <1>11, <1>13, <1>14, <1>16, <1>17, <1>18

\* What a change answers: after a reply the thread as the call holds it, with its own
\* reply at the end; after an edit or a deletion nothing yet.
LEMMA ChangeMoves ==
  ASSUME ThreadInv, NEW c \in ToolCalls, Change(c)
  PROVE  /\ Shaped' /\ \A d \in ToolCalls \ {c} : tool'[d] = tool[d]
         /\ \A f \in CallFields \ {"at", "copy", "wrote"} : tool'[c][f] = tool[c][f]
         /\ \/ tool'[c].at = "refused" /\ threads' = threads
            \/ /\ DriveTakes(threads[tool[c].thread], tool[c].reply)
               /\ threads' = [threads EXCEPT ![tool[c].thread] =
                                Changed(threads[tool[c].thread], tool[c], c)]
               /\ IF tool[c].tool \in ReplyTools
                    THEN tool'[c].at = "done" /\ tool'[c].copy = held_after(tool[c].copy, tool[c], c)
                    ELSE tool'[c].at = "read back"
<1>1. Shaped /\ tool[c].at = "change" BY DEF ThreadInv, Change
<1>2. ASSUME NEW fields, Goes(c, fields), DOMAIN fields \subseteq {"at", "copy", "wrote"},
             "at" \in DOMAIN fields
      PROVE  /\ Shaped' /\ \A d \in ToolCalls \ {c} : tool'[d] = tool[d]
             /\ \A f \in CallFields \ {"at", "copy", "wrote"} : tool'[c][f] = tool[c][f]
             /\ tool'[c].at = fields.at
             /\ "copy" \in DOMAIN fields => tool'[c].copy = fields.copy
  <2>1. /\ Shaped' /\ \A d \in ToolCalls \ {c} : tool'[d] = tool[d]
        /\ \A f \in CallFields : tool'[c][f] = IF f \in DOMAIN fields THEN fields[f] ELSE tool[c][f]
    BY <1>1, <1>2, GoesMovesOn
  <2> QED BY <1>2, <2>1 DEF CallFields
<1>3. CASE ~DriveTakes(threads[tool[c].thread], tool[c].reply)
  <2>1. Goes(c, [at |-> "refused"]) /\ threads' = threads BY <1>3 DEF Change
  <2>2. PICK fields : fields = [at |-> "refused"] OBVIOUS
  <2>3. DOMAIN fields = {"at"} /\ fields.at = "refused" BY <2>2
  <2> QED BY <1>2, <2>1, <2>2, <2>3
<1>4. CASE DriveTakes(threads[tool[c].thread], tool[c].reply)
  <2>1. threads' = [threads EXCEPT ![tool[c].thread] =
                      Changed(threads[tool[c].thread], tool[c], c)]
    BY <1>4 DEF Change
  <2>2. CASE tool[c].tool \in ReplyTools
    <3>1. PICK held : held = held_after(tool[c].copy, tool[c], c) OBVIOUS
    <3>2. PICK fields : fields = [at |-> "done", wrote |-> TRUE, copy |-> held] OBVIOUS
    <3>3. Goes(c, fields) BY <1>4, <2>2, <3>1, <3>2 DEF Change
    <3>4. DOMAIN fields = {"at", "wrote", "copy"} /\ fields.at = "done" /\ fields.copy = held
      BY <3>2
    <3> QED BY <1>2, <1>4, <2>1, <2>2, <3>1, <3>3, <3>4
  <2>3. CASE tool[c].tool \notin ReplyTools
    <3>1. PICK fields : fields = [at |-> "read back", wrote |-> TRUE] OBVIOUS
    <3>2. Goes(c, fields) BY <1>4, <2>3, <3>1 DEF Change
    <3>3. DOMAIN fields = {"at", "wrote"} /\ fields.at = "read back" BY <3>1
    <3> QED BY <1>2, <1>4, <2>1, <2>3, <3>2, <3>3
  <2> QED BY <2>2, <2>3
<1> QED BY <1>3, <1>4

LEMMA ChangeKeepsOn ==
  ASSUME ThreadInv, NEW c \in ToolCalls, Change(c)
  PROVE  ThreadInv'
<1>1. /\ Shaped' /\ \A d \in ToolCalls \ {c} : tool'[d] = tool[d]
      /\ \A f \in CallFields \ {"at", "copy", "wrote"} : tool'[c][f] = tool[c][f]
  BY ChangeMoves
<1>2. /\ tool'[c].tool = tool[c].tool /\ tool'[c].thread = tool[c].thread
      /\ tool'[c].reply = tool[c].reply
  BY <1>1 DEF CallFields
<1>3. CallKnows(c) /\ tool[c].at = "change" /\ meddling' = meddling BY DEF ThreadInv, Change
<1>4. CASE tool'[c].at = "refused" /\ threads' = threads
  <2>1. CallKnows(c)' BY <1>4 DEF CallKnows
  <2> QED BY <1>1, <1>2, <1>3, <1>4, <2>1, OnlyMovesOn
<1>5. CASE /\ DriveTakes(threads[tool[c].thread], tool[c].reply)
           /\ threads' = [threads EXCEPT ![tool[c].thread] =
                            Changed(threads[tool[c].thread], tool[c], c)]
           /\ IF tool[c].tool \in ReplyTools THEN tool'[c].at = "done" ELSE tool'[c].at = "read back"
  <2>1. tool'[c].at \in {"done", "read back"} BY <1>5
  <2>2. /\ threads' \in [ThreadIds -> Thread] /\ \A x \in ThreadIds : Sound(threads'[x])
        /\ \A x \in ThreadIds : threads[x].there => threads'[x].there
        /\ \A x \in ThreadIds : threads[x].there /\ threads[x].deleted => threads'[x].deleted
        /\ \A x \in ThreadIds : threads'[x].deleter \in {threads[x].deleter, Stripped, c}
        /\ \A x \in ThreadIds : threads'[x].deleter = c =>
                                  wants_tombstone(tool'[c]) /\ tool'[c].at # "unborn"
        /\ threads'[tool[c].thread].there
    BY <1>2, <1>3, <1>5, <2>1, CarriedOut
  <2>3. tool[c].tool \in AllTools BY <1>3 DEF CallKnows
  <2>4. CallKnows(c)' BY <1>2, <1>3, <1>5, <2>1, <2>2, <2>3 DEF CallKnows, AllTools
  <2> QED BY <1>1, <1>3, <2>2, <2>4, OneCallSteps
<1> QED BY <1>4, <1>5, ChangeMoves

LEMMA ReadBackMoves ==
  ASSUME ThreadInv, NEW c \in ToolCalls, ReadBack(c)
  PROVE  /\ Shaped' /\ \A d \in ToolCalls \ {c} : tool'[d] = tool[d]
         /\ \A f \in CallFields \ {"at", "copy"} : tool'[c][f] = tool[c][f]
         /\ \/ tool'[c].at = "done" /\ tool'[c].copy = threads[tool[c].thread]
            \/ /\ tool'[c].at = "not found"
               /\ ~get_comment(threads[tool[c].thread], wants_tombstone(tool[c]))
<1>1. Shaped /\ tool[c].at = "read back" BY DEF ThreadInv, ReadBack
<1>2. PICK t : t = threads[tool[c].thread] OBVIOUS
<1>3. CASE get_comment(threads[tool[c].thread], wants_tombstone(tool[c]))
  <2>1. PICK fields : fields = [at |-> "done", copy |-> t] OBVIOUS
  <2>2. Goes(c, fields) BY <1>2, <1>3, <2>1 DEF ReadBack
  <2>3. /\ Shaped' /\ \A d \in ToolCalls \ {c} : tool'[d] = tool[d]
        /\ \A f \in CallFields : tool'[c][f] = IF f \in DOMAIN fields THEN fields[f] ELSE tool[c][f]
    BY <1>1, <2>2, GoesMovesOn
  <2> QED BY <1>2, <2>1, <2>3 DEF CallFields
<1>4. CASE ~get_comment(threads[tool[c].thread], wants_tombstone(tool[c]))
  <2>1. PICK fields : fields = [at |-> "not found"] OBVIOUS
  <2>2. Goes(c, fields) BY <1>4, <2>1 DEF ReadBack
  <2>3. /\ Shaped' /\ \A d \in ToolCalls \ {c} : tool'[d] = tool[d]
        /\ \A f \in CallFields : tool'[c][f] = IF f \in DOMAIN fields THEN fields[f] ELSE tool[c][f]
    BY <1>1, <2>2, GoesMovesOn
  <2> QED BY <1>4, <2>1, <2>3 DEF CallFields
<1> QED BY <1>3, <1>4

LEMMA ReadBackKeepsOn ==
  ASSUME ThreadInv, NEW c \in ToolCalls, ReadBack(c)
  PROVE  ThreadInv'
<1>1. /\ Shaped' /\ \A d \in ToolCalls \ {c} : tool'[d] = tool[d]
      /\ \A f \in CallFields \ {"at", "copy"} : tool'[c][f] = tool[c][f]
      /\ \/ tool'[c].at = "done"
         \/ /\ tool'[c].at = "not found"
            /\ ~get_comment(threads[tool[c].thread], wants_tombstone(tool[c]))
  BY ReadBackMoves
<1>2. /\ tool'[c].tool = tool[c].tool /\ tool'[c].thread = tool[c].thread
      /\ tool'[c].reply = tool[c].reply
  BY <1>1 DEF CallFields
<1>3. CallKnows(c) /\ tool[c].at = "read back" BY DEF ThreadInv, ReadBack
<1>4. UNCHANGED <<threads, meddling>> BY DEF ReadBack
<1>5. tool[c].thread \in ThreadIds /\ threads[tool[c].thread].there BY <1>3 DEF CallKnows
<1>6. tool'[c].at = "not found" =>
        ~wants_tombstone(tool[c]) /\ threads[tool[c].thread].deleted
  BY <1>1, <1>5 DEF get_comment
<1>7. CallKnows(c)' BY <1>1, <1>2, <1>4, <1>5, <1>6 DEF CallKnows, wants_tombstone
<1> QED BY <1>1, <1>2, <1>3, <1>4, <1>7, OnlyMovesOn

LEMMA MakeThreadMoves ==
  ASSUME ThreadInv, NEW c \in ToolCalls, NEW x \in UnbornThreads, NEW read_only \in BOOLEAN,
         MakeThread(c, x, read_only)
  PROVE  /\ Shaped' /\ \A d \in ToolCalls \ {c} : tool'[d] = tool[d]
         /\ tool'[c].at \in {"read only", "done"}
         /\ \/ threads' = threads
            \/ /\ threads' = [threads EXCEPT ![x] = create_comment(c)] /\ tool'[c].at = "done"
               /\ tool'[c].thread = x /\ ~tool'[c].read_only
<1>1. Shaped BY DEF ThreadInv
<1>2. CASE read_only
  <2>1. PICK fields : fields = [at |-> "read only", tool |-> "create", read_only |-> TRUE]
    OBVIOUS
  <2>2. Goes(c, fields) /\ threads' = threads BY <1>2, <2>1 DEF MakeThread, _guard
  <2>3. /\ Shaped' /\ \A d \in ToolCalls \ {c} : tool'[d] = tool[d]
        /\ \A f \in CallFields : tool'[c][f] = IF f \in DOMAIN fields THEN fields[f] ELSE tool[c][f]
    BY <1>1, <2>2, GoesMovesOn
  <2> QED BY <2>1, <2>2, <2>3 DEF CallFields
<1>3. CASE ~read_only
  <2>1. PICK t : t = create_comment(c) OBVIOUS
  <2>2. PICK fields : fields = [at |-> "done", tool |-> "create", thread |-> x, copy |-> t,
                                wrote |-> TRUE, read_only |-> read_only]
    OBVIOUS
  <2>3. Goes(c, fields) /\ threads' = [threads EXCEPT ![x] = create_comment(c)]
    BY <1>3, <2>1, <2>2 DEF MakeThread, _guard
  <2>4. /\ Shaped' /\ \A d \in ToolCalls \ {c} : tool'[d] = tool[d]
        /\ \A f \in CallFields : tool'[c][f] = IF f \in DOMAIN fields THEN fields[f] ELSE tool[c][f]
    BY <1>1, <2>3, GoesMovesOn
  <2>5. tool'[c].at = "done" /\ tool'[c].thread = x /\ tool'[c].read_only = FALSE
    BY <1>3, <2>2, <2>4 DEF CallFields
  <2> QED BY <2>3, <2>4, <2>5
<1> QED BY <1>2, <1>3

LEMMA MakeThreadKeepsOn ==
  ASSUME ThreadInv, NEW c \in ToolCalls, tool[c].at = "unborn", NEW x \in UnbornThreads,
         NEW read_only \in BOOLEAN, MakeThread(c, x, read_only)
  PROVE  ThreadInv'
<1>1. /\ Shaped' /\ \A d \in ToolCalls \ {c} : tool'[d] = tool[d]
      /\ tool'[c].at \in {"read only", "done"}
  BY MakeThreadMoves
<1>2. CallKnows(c)' BY <1>1 DEF CallKnows
<1>3. meddling' = meddling /\ ~threads[x].there BY DEF MakeThread
<1>4. CASE threads' = threads BY <1>1, <1>2, <1>3, <1>4, OnlyMovesOn
<1>5. CASE threads' = [threads EXCEPT ![x] = create_comment(c)]
  <2>1. PICK t : t = create_comment(c) OBVIOUS
  <2>2. Sound(t) /\ t.deleter = Stripped BY <2>1, CreatedIsSound DEF Writers
  <2>3. t \in Thread BY <2>2 DEF Sound
  <2>4. x \in ThreadIds /\ threads \in [ThreadIds -> Thread]
    BY ThreadAssumption DEF ThreadInv
  <2>5. threads' \in [ThreadIds -> Thread] BY <1>5, <2>1, <2>3, <2>4
  <2>6. threads'[x] = t /\ \A y \in ThreadIds \ {x} : threads'[y] = threads[y]
    BY <1>5, <2>1, <2>4
  <2>7. \A y \in ThreadIds : threads[y].deleter # c
    BY DEF ThreadInv, DeletedBy
  <2>8. c # Stripped BY ThreadAssumption
  <2>9. \A y \in ThreadIds : Sound(threads'[y]) BY <2>2, <2>6 DEF ThreadInv
  <2>10. \A y \in ThreadIds : threads'[y].deleter \in {threads[y].deleter, Stripped, c}
                              /\ threads'[y].deleter # c
    BY <2>2, <2>6, <2>7, <2>8
  <2>11. \A y \in ThreadIds : threads[y].there => threads'[y] = threads[y] BY <1>3, <2>6
  <2> QED BY <1>1, <1>2, <1>3, <2>5, <2>9, <2>10, <2>11, OneCallSteps
<1> QED BY <1>4, <1>5, MakeThreadMoves

LEMMA ShowThreadsKeepsOn ==
  ASSUME ThreadInv, NEW c \in ToolCalls, tool[c].at = "unborn", NEW resolved, NEW include,
         ShowThreads(c, resolved, include)
  PROVE  ThreadInv'
<1>1. Shaped /\ CallKnows(c) BY DEF ThreadInv
<1>2. PICK shown : shown = {x \in ThreadIds : filter(threads[x], resolved, include)} OBVIOUS
<1>3. PICK fields : fields = [at |-> "done", tool |-> "list", copy |-> shown] OBVIOUS
<1>4. Goes(c, fields) BY <1>2, <1>3 DEF ShowThreads
<1>5. /\ Shaped'
      /\ \A f \in CallFields : tool'[c][f] = IF f \in DOMAIN fields THEN fields[f] ELSE tool[c][f]
      /\ \A d \in ToolCalls \ {c} : tool'[d] = tool[d]
  BY <1>1, <1>4, GoesMovesOn
<1>6. tool'[c].at = "done" BY <1>3, <1>5 DEF CallFields
<1>7. CallKnows(c)' BY <1>6 DEF CallKnows
<1> QED BY <1>5, <1>7, OnlyMovesOn DEF ShowThreads

LEMMA RequestFailsMoves ==
  ASSUME ThreadInv, NEW c \in ToolCalls, RequestFails(c)
  PROVE  /\ Shaped' /\ \A d \in ToolCalls \ {c} : tool'[d] = tool[d]
         /\ \A f \in CallFields \ {"at"} : tool'[c][f] = tool[c][f]
         /\ tool'[c].at = "failed"
         /\ \/ threads' = threads
            \/ /\ tool[c].at = "change" /\ DriveTakes(threads[tool[c].thread], tool[c].reply)
               /\ threads' = [threads EXCEPT ![tool[c].thread] =
                                Changed(threads[tool[c].thread], tool[c], c)]
<1>1. Shaped /\ threads \in [ThreadIds -> Thread] BY DEF ThreadInv
<1>2. PICK fields : fields = [at |-> "failed"] OBVIOUS
<1>3. Goes(c, fields) BY <1>2 DEF RequestFails
<1>4. /\ Shaped' /\ \A d \in ToolCalls \ {c} : tool'[d] = tool[d]
      /\ \A f \in CallFields : tool'[c][f] = IF f \in DOMAIN fields THEN fields[f] ELSE tool[c][f]
  BY <1>1, <1>3, GoesMovesOn
<1>5. /\ \A f \in CallFields \ {"at"} : tool'[c][f] = tool[c][f]
      /\ tool'[c].at = "failed"
  BY <1>2, <1>4 DEF CallFields
<1>6. CASE threads' = threads BY <1>4, <1>5, <1>6
<1>7. CASE threads' # threads
  <2>1. /\ tool[c].at = "change" /\ DriveTakes(threads[tool[c].thread], tool[c].reply)
        /\ threads' = [threads EXCEPT ![tool[c].thread] = Changed(@, tool[c], c)]
    BY <1>7 DEF RequestFails
  <2>2. tool[c].thread \in ThreadIds BY <2>1 DEF ThreadInv, CallKnows
  <2>3. threads' = [threads EXCEPT ![tool[c].thread] =
                      Changed(threads[tool[c].thread], tool[c], c)]
    BY <1>1, <2>1, <2>2
  <2> QED BY <1>4, <1>5, <2>1, <2>3
<1> QED BY <1>6, <1>7

LEMMA RequestFailsKeepsOn ==
  ASSUME ThreadInv, NEW c \in ToolCalls, RequestFails(c)
  PROVE  ThreadInv'
<1>1. /\ Shaped' /\ \A d \in ToolCalls \ {c} : tool'[d] = tool[d]
      /\ \A f \in CallFields \ {"at"} : tool'[c][f] = tool[c][f]
      /\ tool'[c].at = "failed"
  BY RequestFailsMoves
<1>2. tool'[c].tool = tool[c].tool /\ tool'[c].reply = tool[c].reply BY <1>1 DEF CallFields
<1>3. meddling' = meddling BY DEF RequestFails
<1>4. CallKnows(c)' BY <1>1 DEF CallKnows
<1>5. CASE threads' = threads BY <1>1, <1>2, <1>3, <1>4, <1>5, OnlyMovesOn
<1>6. CASE /\ tool[c].at = "change" /\ DriveTakes(threads[tool[c].thread], tool[c].reply)
           /\ threads' = [threads EXCEPT ![tool[c].thread] =
                            Changed(threads[tool[c].thread], tool[c], c)]
  <2>1. /\ threads' \in [ThreadIds -> Thread] /\ \A x \in ThreadIds : Sound(threads'[x])
        /\ \A x \in ThreadIds : threads[x].there => threads'[x].there
        /\ \A x \in ThreadIds : threads[x].there /\ threads[x].deleted => threads'[x].deleted
        /\ \A x \in ThreadIds : threads'[x].deleter \in {threads[x].deleter, Stripped, c}
        /\ \A x \in ThreadIds : threads'[x].deleter = c =>
                                  wants_tombstone(tool'[c]) /\ tool'[c].at # "unborn"
    BY <1>1, <1>2, <1>6, CarriedOut
  <2> QED BY <1>1, <1>3, <1>4, <2>1, OneCallSteps
<1> QED BY <1>5, <1>6, RequestFailsMoves

\* People in the editor change threads that are there, and delete them in their own name.
LEMMA SomebodyChangesKeepsOn ==
  ASSUME ThreadInv, meddling < MaxHands, NEW x \in ThreadIds, NEW name \in AllTools,
         NEW i \in 0 .. MaxReplies, SomebodyChanges(x, name, i)
  PROVE  ThreadInv'
<1>1. PICK t : t = threads[x] OBVIOUS
<1>2. PICK call : call = [tool |-> name, reply |-> i] OBVIOUS
<1>3. PICK u : u = Changed(t, call, Person) OBVIOUS
<1>4. threads \in [ThreadIds -> Thread] BY DEF ThreadInv
<1>5. threads' = [threads EXCEPT ![x] = u] BY <1>1, <1>2, <1>3, <1>4 DEF SomebodyChanges
<1>6. /\ Sound(t) /\ call.tool \in AllTools /\ DriveTakes(t, call.reply)
      /\ call.tool \in ReplyTools => call.reply = WholeThread
  BY <1>1, <1>2 DEF ThreadInv, SomebodyChanges
<1>7. Person \in Writers BY DEF Writers
<1>8. /\ Sound(u) /\ u.there
      /\ IF call.tool = "delete" /\ call.reply = WholeThread
           THEN u.deleted /\ u.deleter = Person
           ELSE ~u.deleted /\ u.deleter = t.deleter
  BY <1>3, <1>6, <1>7, ChangedIsSound
<1>9. u \in Thread BY <1>8 DEF Sound
<1>10. /\ threads' \in [ThreadIds -> Thread]
       /\ threads'[x] = u /\ \A y \in ThreadIds \ {x} : threads'[y] = threads[y]
  BY <1>4, <1>5, <1>9
<1>11. \A y \in ThreadIds : Sound(threads'[y]) BY <1>8, <1>10 DEF ThreadInv
<1>12. t.there /\ ~t.deleted BY <1>6 DEF DriveTakes
<1>13. tool' = tool BY DEF SomebodyChanges
<1>14. ASSUME NEW c \in ToolCalls PROVE CallKnows(c)'
  <2>1. CallKnows(c) BY DEF ThreadInv
  <2>2. \A y \in ThreadIds : /\ threads[y].there => threads'[y].there
                             /\ threads[y].there /\ threads[y].deleted => threads'[y].deleted
    BY <1>1, <1>8, <1>10, <1>12
  <2> QED BY <1>13, <2>1, <2>2 DEF CallKnows, wants_tombstone
<1>15. ASSUME NEW y \in ThreadIds, NEW c \in ToolCalls PROVE DeletedBy(y, c)'
  <2>1. DeletedBy(y, c) BY DEF ThreadInv
  <2>2. c # Person BY ThreadAssumption
  <2>3. threads'[y].deleter \in {threads[y].deleter, Person} BY <1>1, <1>8, <1>10
  <2> QED BY <1>13, <2>1, <2>2, <2>3 DEF DeletedBy, wants_tombstone
<1>16. meddling' \in 0 .. MaxHands BY ThreadAssumption DEF ThreadInv, SomebodyChanges
<1>17. Shaped' BY <1>13 DEF ThreadInv, Shaped
<1> QED BY <1>10, <1>11, <1>14, <1>15, <1>16, <1>17 DEF ThreadInv

LEMMA ThreadStutters == ThreadInv /\ UNCHANGED threadVars => ThreadInv'
<1> SUFFICES ASSUME ThreadInv, UNCHANGED threadVars PROVE ThreadInv' OBVIOUS
<1>1. threads' = threads /\ tool' = tool /\ meddling' = meddling BY DEF threadVars
<1> QED BY <1>1 DEF ThreadInv, Shaped, CallKnows, DeletedBy, wants_tombstone

LEMMA NextThreads == ThreadInv /\ [ThreadNext]_threadVars => ThreadInv'
<1> SUFFICES ASSUME ThreadInv, [ThreadNext]_threadVars PROVE ThreadInv' OBVIOUS
<1>1. ASSUME NEW c \in ToolCalls, tool[c].at = "unborn", Called(c) PROVE ThreadInv'
  <2>1. ASSUME NEW x \in ThreadIds, NEW name \in ReplyTools \cup ChangeTools,
               NEW i \in 0 .. MaxReplies, NEW read_only \in BOOLEAN, CallTool(c, name, x, i, read_only)
        PROVE  ThreadInv'
    BY <1>1, <2>1, CallToolKeepsOn DEF AllTools
  <2>2. ASSUME NEW x \in UnbornThreads, NEW read_only \in BOOLEAN, MakeThread(c, x, read_only)
        PROVE  ThreadInv'
    BY <1>1, <2>2, MakeThreadKeepsOn
  <2>3. ASSUME NEW resolved, NEW include, ShowThreads(c, resolved, include) PROVE ThreadInv'
    BY <1>1, <2>3, ShowThreadsKeepsOn
  <2> QED BY <1>1, <2>1, <2>2, <2>3 DEF Called
<1>2. ASSUME NEW c \in ToolCalls, Fetch(c) PROVE ThreadInv' BY <1>2, FetchKeepsOn
<1>3. ASSUME NEW c \in ToolCalls, Change(c) PROVE ThreadInv' BY <1>3, ChangeKeepsOn
<1>4. ASSUME NEW c \in ToolCalls, ReadBack(c) PROVE ThreadInv' BY <1>4, ReadBackKeepsOn
<1>5. ASSUME NEW c \in ToolCalls, RequestFails(c) PROVE ThreadInv' BY <1>5, RequestFailsKeepsOn
<1>6. ASSUME meddling < MaxHands, NEW x \in ThreadIds, NEW name \in ReplyTools \cup ChangeTools,
             NEW i \in 0 .. MaxReplies, SomebodyChanges(x, name, i)
      PROVE  ThreadInv'
  BY <1>6, SomebodyChangesKeepsOn DEF AllTools
<1>7. CASE UNCHANGED threadVars BY <1>7, ThreadStutters
<1> QED BY <1>1, <1>2, <1>3, <1>4, <1>5, <1>6, <1>7 DEF ThreadNext

\* In every reachable state, for any number of calls, threads, replies and people, the
\* threads are what Drive can hold and every call knows what its place in the code says
\* it knows (mcp/_tools/comments.py:633-754).
THEOREM ThreadInvariant == ThreadSpec => []ThreadInv
<1>1. ThreadInit => ThreadInv BY InitThreads
<1>2. ThreadInv /\ [ThreadNext]_threadVars => ThreadInv' BY NextThreads
<1> QED BY <1>1, <1>2, PTL DEF ThreadSpec

\* Of what is deleted, a thread or a reply, neither text nor author is left, and a thread
\* takes its replies with it (backend.py:213-225).
THEOREM NothingIsLeftOfTheDeleted == ThreadSpec => []ThreadTypeOK
<1>1. ASSUME ThreadInv PROVE ThreadTypeOK
  <2>1. ASSUME NEW t, Sound(t)
        PROVE  /\ t.deleted = (t.text = Stripped)
               /\ \A i \in DOMAIN t.replies :
                    /\ t.replies[i].deleted = (t.replies[i].text = Stripped)
                    /\ t.deleted => t.replies[i].deleted
    <3>1. t.deleted \in BOOLEAN /\ t.replies \in Seq(Reply) BY <2>1 DEF Sound, Thread
    <3>2. \A i \in DOMAIN t.replies : t.replies[i].deleted \in BOOLEAN 
      <4>1. \A i \in DOMAIN t.replies : t.replies[i] \in Reply BY <3>1
      <4> QED BY <4>1 DEF Reply
    <3> QED BY <2>1, <3>1, <3>2 DEF Sound, SaidOrGone
  <2> QED BY <1>1, <2>1 DEF ThreadInv, ThreadTypeOK
<1> QED BY <1>1, ThreadInvariant, PTL

\* A call that did not find its thread again had not deleted it.
LEMMA NotDenied == ThreadInv => DoneIsNotDenied
<1> SUFFICES ASSUME ThreadInv, NEW c \in ToolCalls, tool[c].at = "not found", tool[c].wrote
             PROVE  threads[tool[c].thread].deleted /\ threads[tool[c].thread].deleter # c
  BY DEF DoneIsNotDenied
<1>1. CallKnows(c) BY DEF ThreadInv
<1>2. PICK x \in ThreadIds : x = tool[c].thread BY <1>1 DEF CallKnows
<1>3. DeletedBy(x, c) BY DEF ThreadInv
<1> QED BY <1>1, <1>2, <1>3 DEF CallKnows, DeletedBy

\* One step of the call c, told from what happens to its record.
LEMMA AnswersOfAStep ==
  ASSUME ThreadInv, [ThreadNext]_threadVars, NEW c \in ToolCalls, tool'[c].at = "done",
         tool[c].at \in {"change", "read back"}
  PROVE  Change(c) \/ ReadBack(c)
<1>1. CASE UNCHANGED threadVars BY <1>1 DEF threadVars
<1>2. CASE \E x \in ThreadIds, name \in ReplyTools \cup ChangeTools, i \in 0 .. MaxReplies : SomebodyChanges(x, name, i)
  BY <1>2 DEF SomebodyChanges
<1>3. ASSUME NEW d \in ToolCalls,
             (tool[d].at = "unborn" /\ Called(d)) \/ Fetch(d) \/ Change(d) \/ ReadBack(d) \/ RequestFails(d)
      PROVE  Change(c) \/ ReadBack(c)
  <2>1. CASE d = c
    <3>1. ~ Fetch(c) BY DEF Fetch
    <3>2. ~ RequestFails(c) BY RequestFailsMoves
    <3> QED BY <1>3, <2>1, <3>1, <3>2
  <2>2. CASE d # c
    <3>1. tool[d].at = "unborn" /\ Called(d) => \E fields : Goes(d, fields)
      BY DEF Called, CallTool, MakeThread, ShowThreads
    <3>2. Fetch(d) => \E fields : Goes(d, fields)
      BY DEF Fetch
    <3>3. Change(d) => \A e \in ToolCalls \ {d} : tool'[e] = tool[e] BY ChangeMoves
    <3>4. ReadBack(d) => \A e \in ToolCalls \ {d} : tool'[e] = tool[e] BY ReadBackMoves
    <3>5. RequestFails(d) => \A e \in ToolCalls \ {d} : tool'[e] = tool[e] BY RequestFailsMoves
    <3>6. \A fields : Goes(d, fields) => \A e \in ToolCalls \ {d} : tool'[e] = tool[e]
      BY GoesMovesOn DEF ThreadInv
    <3>7. tool'[c] = tool[c] BY <1>3, <2>2, <3>1, <3>2, <3>3, <3>4, <3>5, <3>6
    <3> QED BY <3>7
  <2> QED BY <2>1, <2>2
<1> QED BY <1>1, <1>2, <1>3 DEF ThreadNext

\* What a call holds after its reply, and what Drive holds, end with the same reply.
LEMMA HeldAfterSays ==
  ASSUME NEW copy \in Thread, NEW call, call.tool \in ReplyTools, NEW w,
         NEW answer, answer = held_after(copy, call, w)
  PROVE  /\ answer.replies = Append(copy.replies, [text |-> w, action |-> call.tool, deleted |-> FALSE])
         /\ call.tool # "reply" => (answer.resolved <=> call.tool = "resolve")
  BY DEF held_after, Thread

LEMMA ReplyIsShown ==
  ASSUME ThreadInv, NEW c \in ToolCalls, Change(c), tool'[c].at = "done"
  PROVE  LET t == threads'[tool[c].thread] answer == tool'[c].copy IN
           /\ tool[c].tool \in ReplyTools
           /\ answer.replies # <<>>
           /\ answer.replies[Len(answer.replies)] = t.replies[Len(t.replies)]
           /\ tool[c].tool # "reply" => answer.resolved = t.resolved
<1>1. CallKnows(c) /\ tool[c].at = "change" BY DEF ThreadInv, Change
<1>2. /\ DriveTakes(threads[tool[c].thread], tool[c].reply)
      /\ threads' = [threads EXCEPT ![tool[c].thread] =
                       Changed(threads[tool[c].thread], tool[c], c)]
      /\ tool[c].tool \in ReplyTools
      /\ tool'[c].copy = held_after(tool[c].copy, tool[c], c)
  BY ChangeMoves
<1>3. PICK x \in ThreadIds : x = tool[c].thread BY <1>1 DEF CallKnows
<1>4. PICK t \in Thread : t = threads[x] BY DEF ThreadInv
<1>5. PICK call : call = tool[c] OBVIOUS
<1>6. PICK u : u = create_reply(t, c, call.tool) OBVIOUS
<1>7. call.tool \in ReplyTools BY <1>2, <1>5
<1>8. Changed(t, call, c) = u BY <1>6, <1>7 DEF Changed, ReplyTools
<1>9. threads'[x] = u BY <1>2, <1>3, <1>4, <1>5, <1>8 DEF ThreadInv
<1>10. PICK copy \in Thread : copy = call.copy BY <1>1, <1>5 DEF CallKnows
<1>11. PICK answer : answer = held_after(copy, call, c) OBVIOUS
<1>12. tool'[c].copy = answer BY <1>2, <1>5, <1>10, <1>11
<1>13. PICK r : r = [text |-> c, action |-> call.tool, deleted |-> FALSE] OBVIOUS
<1>14. /\ u.replies = Append(t.replies, r)
       /\ call.tool # "reply" => (u.resolved <=> call.tool = "resolve")
  BY <1>4, <1>6, <1>13, RepliedSays
<1>15. /\ answer.replies = Append(copy.replies, r)
       /\ call.tool # "reply" => (answer.resolved <=> call.tool = "resolve")
  BY <1>7, <1>10, <1>11, <1>13, HeldAfterSays
<1>16. c \in Writers /\ r \in Reply BY <1>7, <1>13 DEF Reply, Writers
<1>17. ASSUME NEW s \in Seq(Reply), NEW z, z = Append(s, r) PROVE z # <<>> /\ z[Len(z)] = r
  BY <1>16, <1>17
<1>18. copy.replies \in Seq(Reply) /\ t.replies \in Seq(Reply) BY DEF Thread
<1>19. answer.replies # <<>> /\ answer.replies[Len(answer.replies)] = r
  BY <1>15, <1>17, <1>18
<1>20. u.replies[Len(u.replies)] = r BY <1>14, <1>17, <1>18
<1>21. call.tool # "reply" => answer.resolved = u.resolved
  <2>1. Sound(t) BY <1>4 DEF ThreadInv
  <2>2. ~t.deleted /\ t.there BY <1>2, <1>3, <1>4 DEF DriveTakes
  <2>3. Sound(u) BY <1>6, <1>7, <1>16, <2>1, <2>2, RepliedIsSound
  <2>4. u.resolved \in BOOLEAN BY <2>3 DEF Sound, Thread
  <2>5. answer.resolved \in BOOLEAN BY <1>10, <1>11 DEF held_after, Thread
  <2> QED BY <1>14, <1>15, <2>4, <2>5
<1> QED BY <1>3, <1>5, <1>7, <1>9, <1>12, <1>19, <1>20, <1>21

LEMMA ChangeIsReadBack ==
  ASSUME ThreadInv, NEW c \in ToolCalls, ReadBack(c), tool'[c].at = "done"
  PROVE  tool[c].tool \notin ReplyTools /\ tool'[c].copy = threads'[tool[c].thread]
<1>1. CallKnows(c) /\ tool[c].at = "read back" BY DEF ThreadInv, ReadBack
<1>2. tool'[c].copy = threads[tool[c].thread] BY ReadBackMoves
<1>3. threads' = threads BY DEF ReadBack
<1> QED BY <1>1, <1>2, <1>3 DEF CallKnows, ChangeTools, ReplyTools

ShowsTheChange(c) ==
  LET t == threads'[tool[c].thread] answer == tool'[c].copy IN
    IF tool[c].tool \in ReplyTools
      THEN /\ answer.replies # <<>>
           /\ answer.replies[Len(answer.replies)] = t.replies[Len(t.replies)]
           /\ tool[c].tool # "reply" => answer.resolved = t.resolved
      ELSE answer = t

LEMMA StepsShowTheChange ==
  ASSUME ThreadInv, [ThreadNext]_threadVars, NEW c \in ToolCalls, tool'[c].at = "done",
         tool[c].at \in {"change", "read back"}
  PROVE  ShowsTheChange(c)
<1>1. CASE Change(c) BY <1>1, ReplyIsShown DEF ShowsTheChange
<1>2. CASE ReadBack(c) BY <1>2, ChangeIsReadBack DEF ShowsTheChange
<1> QED BY <1>1, <1>2, AnswersOfAStep

\* A step that changes a thread is somebody's hand, or one call's that may write to it.
LEMMA StepsWriteByLeave ==
  ASSUME ThreadInv, [ThreadNext]_threadVars, NEW x \in ThreadIds, threads'[x] # threads[x]
  PROVE  \/ meddling' # meddling
         \/ \E c \in ToolCalls : /\ tool'[c] # tool[c] /\ ~tool'[c].read_only
                                 /\ tool'[c].thread = x
<1>1. ASSUME NEW c \in ToolCalls, tool[c].at = "change",
             \A f \in CallFields \ {"at", "copy", "wrote"} : tool'[c][f] = tool[c][f],
             tool'[c].at # "change",
             threads' = [threads EXCEPT ![tool[c].thread] =
                           Changed(threads[tool[c].thread], tool[c], c)]
      PROVE  tool'[c] # tool[c] /\ ~tool'[c].read_only /\ tool'[c].thread = x
  <2>1. tool'[c].read_only = tool[c].read_only /\ tool'[c].thread = tool[c].thread
    BY <1>1 DEF CallFields
  <2>2. tool'[c] # tool[c] BY <1>1
  <2>3. ~tool[c].read_only BY <1>1 DEF ThreadInv, CallKnows
  <2>4. x = tool[c].thread BY <1>1 DEF ThreadInv
  <2> QED BY <2>1, <2>2, <2>3, <2>4
<1>2. ASSUME NEW c \in ToolCalls, Change(c)
      PROVE  tool'[c] # tool[c] /\ ~tool'[c].read_only /\ tool'[c].thread = x
  <2>1. tool[c].at = "change" BY <1>2 DEF Change
  <2>2. /\ \A f \in CallFields \ {"at", "copy", "wrote"} : tool'[c][f] = tool[c][f]
        /\ tool'[c].at # "change"
        /\ threads' = [threads EXCEPT ![tool[c].thread] =
                         Changed(threads[tool[c].thread], tool[c], c)]
    BY <1>2, ChangeMoves
  <2> QED BY <1>1, <2>1, <2>2
<1>3. ASSUME NEW c \in ToolCalls, RequestFails(c)
      PROVE  tool'[c] # tool[c] /\ ~tool'[c].read_only /\ tool'[c].thread = x
  <2>1. /\ \A f \in CallFields \ {"at"} : tool'[c][f] = tool[c][f]
        /\ tool'[c].at = "failed" /\ tool[c].at = "change"
        /\ threads' = [threads EXCEPT ![tool[c].thread] =
                         Changed(threads[tool[c].thread], tool[c], c)]
    BY <1>3, RequestFailsMoves
  <2> QED BY <1>1, <2>1
<1>4. ASSUME NEW c \in ToolCalls, tool[c].at = "unborn", Called(c)
      PROVE  tool'[c] # tool[c] /\ ~tool'[c].read_only /\ tool'[c].thread = x
  <2>1. PICK y \in UnbornThreads, read_only \in BOOLEAN : MakeThread(c, y, read_only)
    BY <1>4 DEF Called, CallTool, ShowThreads
  <2>2. /\ threads' = [threads EXCEPT ![y] = create_comment(c)] /\ tool'[c].at = "done"
        /\ tool'[c].thread = y /\ ~tool'[c].read_only
    BY <2>1, MakeThreadMoves
  <2>3. x = y BY <2>2 DEF ThreadInv
  <2> QED BY <1>4, <2>2, <2>3
<1>5. ASSUME NEW c \in ToolCalls, Fetch(c) \/ ReadBack(c) PROVE FALSE
  BY <1>5 DEF Fetch, ReadBack
<1>6. ASSUME NEW y \in ThreadIds, NEW name, NEW i, SomebodyChanges(y, name, i)
      PROVE  meddling' # meddling
  BY <1>6 DEF SomebodyChanges, ThreadInv
<1>7. CASE UNCHANGED threadVars BY <1>7 DEF threadVars
<1> QED BY <1>2, <1>3, <1>4, <1>5, <1>6, <1>7 DEF ThreadNext

\* The answers of the tools are true of what they did, for any number of calls and
\* people in the editor: a change that was carried out is not denied for want of the
\* thread, the answer shows it, and no call through a read-only workspace changes a
\* thread (comments.py:256-306, mcp/_tools/comments.py:633-754).
THEOREM AnswersAreTrueAlways == ThreadSpec => AnswersAreTrue
<1>1. ThreadInv => DoneIsNotDenied BY NotDenied
<1>2. ThreadInv /\ [ThreadNext]_threadVars =>
        [\A c \in ToolCalls : tool'[c].at = "done" /\ tool[c].at \in {"change", "read back"} =>
           LET t == threads'[tool[c].thread] answer == tool'[c].copy IN
             IF tool[c].tool \in ReplyTools
               THEN /\ answer.replies # <<>>
                    /\ answer.replies[Len(answer.replies)] = t.replies[Len(t.replies)]
                    /\ tool[c].tool # "reply" => answer.resolved = t.resolved
               ELSE answer = t]_threadVars
  BY StepsShowTheChange DEF ShowsTheChange
<1>3. ThreadInv /\ [ThreadNext]_threadVars =>
        [\A x \in ThreadIds : threads'[x] # threads[x] =>
           meddling' # meddling
           \/ \E c \in ToolCalls : /\ tool'[c] # tool[c] /\ ~tool'[c].read_only
                               /\ tool'[c].thread = x]_threadVars
  BY StepsWriteByLeave
<1>4. ThreadSpec => AnswersShowTheChange
  BY <1>2, ThreadInvariant, PTL DEF ThreadSpec, AnswersShowTheChange
<1>5. ThreadSpec => ReadOnlyWritesNothing
  BY <1>3, ThreadInvariant, PTL DEF ThreadSpec, ReadOnlyWritesNothing
<1> QED BY <1>1, <1>4, <1>5, ThreadInvariant, PTL DEF AnswersAreTrue

-----------------------------------------------------------------------------
(* The registers on this machine. *)

\* A call that is about to write chose a name that nothing bore when it looked, or one
\* with the second of its look in it.
Chose(c) ==
  export[c].at = "write" =>
    \/ \A f \in export[c].seen : f.name # export[c].target
    \/ \E i \in DOMAIN export[c].target.stamps : export[c].target.stamps[i] = export[c].stamp

ChoiceInv == export = [c \in Calls |-> export[c]] /\ \A c \in Calls : Chose(c)

\* The name of a register: free, or with the moment in it.
LEMMA ChosenName ==
  ASSUME NEW given, NEW dest, NEW stamp, NEW target, target = resolve_export_path(given, dest, stamp)
  PROVE  \/ \A f \in disk : f.name # target
         \/ \E i \in DOMAIN target.stamps : target.stamps[i] = stamp
<1>1. PICK first : first = as_given(given, dest, stamp) OBVIOUS
<1>2. PICK stamps \in Seq({stamp}) : first.stamps = stamps /\ DOMAIN first = {"base", "stamps", "suffix"}
  <2>1. <<>> \in Seq({stamp}) /\ <<stamp>> \in Seq({stamp}) OBVIOUS
  <2>2. CASE given = NoName
    <3>1. first = [base |-> "document", stamps |-> <<stamp>>, suffix |-> dest]
      BY <1>1, <2>2 DEF as_given, Name
    <3> QED BY <2>1, <3>1
  <2>3. CASE given # NoName
    <3>1. first = [base |-> given, stamps |-> <<>>, suffix |-> dest]
      BY <1>1, <2>3 DEF as_given, Name
    <3> QED BY <2>1, <3>1
  <2> QED BY <2>2, <2>3
<1>3. CASE ~Taken(first)
  <2>1. target = first BY <1>1, <1>3 DEF resolve_export_path
  <2> QED BY <1>3, <2>1 DEF Taken
<1>4. CASE Taken(first)
  <2>1. target = [first EXCEPT !.stamps = Append(@, stamp)] BY <1>1, <1>4 DEF resolve_export_path
  <2>2. PICK more : more = Append(stamps, stamp) OBVIOUS
  <2>3. target.stamps = more BY <1>2, <2>1, <2>2
  <2>4. Len(more) \in DOMAIN more /\ more[Len(more)] = stamp BY <2>2
  <2> QED BY <2>3, <2>4
<1> QED BY <1>3, <1>4

\* The invariant of the calls under every step of theirs that chooses no name.
LEMMA FieldAt ==
  ASSUME NEW call, NEW fields, "at" \in DOMAIN fields
  PROVE  With(call, fields).at = fields.at
<1>1. "at" \in DOMAIN Unborn BY DEF Unborn
<1> QED BY <1>1 DEF With

\* A step that leaves its call elsewhere than about to write keeps the invariant.
LEMMA ElsewhereKeeps ==
  ASSUME ChoiceInv, NEW c \in Calls, NEW call, call.at # "write",
         export' = [export EXCEPT ![c] = call]
  PROVE  ChoiceInv'
<1>1. PICK was : was = export OBVIOUS
<1>2. was = [d \in Calls |-> was[d]] BY <1>1 DEF ChoiceInv
<1>3. PICK now : now = [was EXCEPT ![c] = call] OBVIOUS
<1>4. /\ DOMAIN now = Calls /\ now = [d \in Calls |-> now[d]]
      /\ now[c] = call /\ \A d \in Calls \ {c} : now[d] = was[d]
  BY <1>2, <1>3
<1>5. export' = now BY <1>1, <1>3
<1>6. \A d \in Calls : Chose(d)'
  <2> SUFFICES ASSUME NEW d \in Calls PROVE Chose(d)' OBVIOUS
  <2>1. CASE d = c BY <2>1, <1>4, <1>5 DEF Chose
  <2>2. CASE d # c
    <3>1. export'[d] = export[d] BY <2>2, <1>1, <1>4, <1>5
    <3> QED BY <3>1 DEF ChoiceInv, Chose
  <2> QED BY <2>1, <2>2
<1> QED BY <1>4, <1>5, <1>6 DEF ChoiceInv

LEMMA StillElsewhere ==
  ASSUME NEW c \in Calls, NEW fields, "at" \in DOMAIN fields, fields.at # "write",
         ChoiceInv, Step(c, fields)
  PROVE  ChoiceInv'
<1>1. PICK call : call = With(export[c], fields) OBVIOUS
<1>2. call.at # "write" BY <1>1, FieldAt
<1>3. export' = [export EXCEPT ![c] = call] BY <1>1 DEF Step
<1> QED BY <1>2, <1>3, ElsewhereKeeps

LEMMA OverIsElsewhere ==
  ASSUME NEW c \in Calls, ChoiceInv, Over(c)
  PROVE  ChoiceInv' /\ export'[c].at = "over"
<1>1. PICK call : call = [Unborn EXCEPT !.at = "over"] OBVIOUS
<1>2. call.at = "over" BY <1>1 DEF Unborn
<1>3. export' = [export EXCEPT ![c] = call] BY <1>1 DEF Over
<1>4. export = [d \in Calls |-> export[d]] BY DEF ChoiceInv
<1>5. export'[c] = call BY <1>3, <1>4
<1> QED BY <1>2, <1>3, <1>5, ElsewhereKeeps

LEMMA ChoosingKeeps ==
  ASSUME NEW c \in Calls, ChoiceInv, ChooseName(c)
  PROVE  ChoiceInv'
<1>1. PICK target :
        target = resolve_export_path(export[c].given, export[c].dest, second) OBVIOUS
<1>2. PICK fields : fields = [at |-> "write", target |-> target, stamp |-> second, seen |-> disk]
  OBVIOUS
<1>3. PICK call : call = With(Unborn, fields) OBVIOUS
<1>4. export' = [export EXCEPT ![c] = call] BY <1>1, <1>2, <1>3 DEF ChooseName
<1>5. {"target", "stamp", "seen"} \subseteq DOMAIN Unborn BY DEF Unborn
<1>6. call.target = target /\ call.stamp = second /\ call.seen = disk
  BY <1>2, <1>3, <1>5 DEF With
<1>7. \/ \A f \in disk : f.name # target
      \/ \E i \in DOMAIN target.stamps : target.stamps[i] = second
  BY <1>1, ChosenName
<1>8. PICK was : was = export OBVIOUS
<1>9. was = [d \in Calls |-> was[d]] BY <1>8 DEF ChoiceInv
<1>10. PICK now : now = [was EXCEPT ![c] = call] OBVIOUS
<1>11. /\ DOMAIN now = Calls /\ now = [d \in Calls |-> now[d]]
       /\ now[c] = call /\ \A d \in Calls \ {c} : now[d] = was[d]
  BY <1>9, <1>10
<1>12. export' = now BY <1>4, <1>8, <1>10
<1>13. \A d \in Calls : Chose(d)'
  <2> SUFFICES ASSUME NEW d \in Calls PROVE Chose(d)' OBVIOUS
  <2>1. CASE d = c BY <2>1, <1>6, <1>7, <1>11, <1>12 DEF Chose
  <2>2. CASE d # c
    <3>1. export'[d] = export[d] BY <2>2, <1>8, <1>11, <1>12
    <3> QED BY <3>1 DEF ChoiceInv, Chose
  <2> QED BY <2>1, <2>2
<1> QED BY <1>11, <1>12, <1>13 DEF ChoiceInv

LEMMA FillingIsElsewhere ==
  ASSUME NEW c \in Calls, ChoiceInv, UploadSheet(c)
  PROVE  ChoiceInv'
<1>1. CASE c \in OpenpyxlInstalled BY <1>1, OverIsElsewhere DEF UploadSheet
<1>2. CASE c \notin OpenpyxlInstalled
  <2>1. PICK call : call = [Unborn EXCEPT !.at = "fill"] OBVIOUS
  <2>2. call.at # "write" BY <2>1 DEF Unborn
  <2>3. export' = [export EXCEPT ![c] = call] BY <1>2, <2>1 DEF UploadSheet
  <2> QED BY <2>2, <2>3, ElsewhereKeeps
<1> QED BY <1>1, <1>2

LEMMA ReadingIsElsewhere ==
  ASSUME NEW c \in Calls, ChoiceInv
  PROVE  /\ \A dest, given : ExportComments(c, dest, given) => ChoiceInv'
         /\ ListThreads(c) \/ ReadTabs(c) \/ ReadCells(c) => ChoiceInv'
<1>1. ASSUME NEW dest, NEW given, ExportComments(c, dest, given) PROVE ChoiceInv'
  BY <1>1, StillElsewhere DEF ExportComments
<1>2. CASE ListThreads(c)
  <2>1. PICK located : Step(c, [at |-> "tabs", located |-> located])
    BY <1>2 DEF ListThreads
  <2> QED BY <2>1, StillElsewhere
<1>3. CASE ReadTabs(c)
  <2>1. Step(c, [at |-> "cells", tabs |-> present]) BY <1>3 DEF ReadTabs
  <2> QED BY <2>1, StillElsewhere
<1>4. CASE ReadCells(c)
  <2>1. PICK rows, caveats : Step(c, [at |-> "deliver", rows |-> rows, caveats |-> caveats])
    BY <1>4 DEF ReadCells
  <2> QED BY <2>1, StillElsewhere
<1> QED BY <1>1, <1>2, <1>3, <1>4

\* The invariant holds at every moment.
LEMMA ChoiceStep ==
  ASSUME ChoiceInv, [ExportNext]_exportVars
  PROVE  ChoiceInv'
<1>1. CASE UNCHANGED export BY <1>1 DEF ChoiceInv, Chose
<1>2. ASSUME NEW c \in Calls, NEW dest, NEW given, ExportComments(c, dest, given) PROVE ChoiceInv'
  BY <1>2, ReadingIsElsewhere
<1>3. ASSUME NEW c \in Calls, CallStep(c) PROVE ChoiceInv'
  <2>1. CASE ListThreads(c) \/ ReadTabs(c) \/ ReadCells(c) BY <2>1, ReadingIsElsewhere
  <2>2. CASE Deliver(c) BY <2>2, OverIsElsewhere DEF Deliver
  <2>3. CASE ChooseName(c) BY <2>3, ChoosingKeeps
  <2>4. CASE WriteRegister(c) BY <2>4, OverIsElsewhere DEF WriteRegister
  <2>5. CASE UploadSheet(c) BY <2>5, FillingIsElsewhere
  <2>6. CASE FillSheet(c) BY <2>6, OverIsElsewhere DEF FillSheet
  <2>7. CASE ExportFails(c) BY <2>7, OverIsElsewhere DEF ExportFails
  <2> QED BY <1>3, <2>1, <2>2, <2>3, <2>4, <2>5, <2>6, <2>7 DEF CallStep
<1> QED
  BY <1>1, <1>2, <1>3 DEF ExportNext, exportVars, Tick, SomebodyWrites, SomebodyDeletesTab

LEMMA ChoiceInit ==
  ASSUME ExportInit
  PROVE  ChoiceInv
<1>1. \A c \in Calls : export[c].at # "write" BY DEF ExportInit, Unborn
<1>2. export = [c \in Calls |-> export[c]] BY DEF ExportInit
<1> QED BY <1>1, <1>2 DEF ChoiceInv, Chose

\* The only file a step takes away bears the name its writer chose.
LEMMA OverwritesItsTarget ==
  ASSUME ChoiceInv, [ExportNext]_exportVars, NEW f \in disk \ disk'
  PROVE  \E c \in Calls :
           /\ export[c].at = "write" /\ export'[c].at = "over" /\ export[c].target = f.name
           /\ \/ f \notin export[c].seen
              \/ \E i \in DOMAIN f.name.stamps : f.name.stamps[i] = export[c].stamp
<1>1. ASSUME NEW c \in Calls, WriteRegister(c)
      PROVE  /\ export[c].at = "write" /\ export'[c].at = "over" /\ export[c].target = f.name
             /\ \/ f \notin export[c].seen
                \/ \E i \in DOMAIN f.name.stamps : f.name.stamps[i] = export[c].stamp
  <2>1. export[c].at = "write" /\ export[c].target = f.name BY <1>1 DEF WriteRegister
  <2>2. export'[c].at = "over" BY <1>1, OverIsElsewhere DEF WriteRegister
  <2>3. Chose(c) BY DEF ChoiceInv
  <2> QED BY <2>1, <2>2, <2>3 DEF Chose
<1>2. ASSUME ~\E c \in Calls : WriteRegister(c) PROVE FALSE
  <2>1. ~(disk \subseteq disk') OBVIOUS
  <2>2. CASE UNCHANGED disk BY <2>1, <2>2
  <2>3. ASSUME NEW given, SomebodyWrites(given) PROVE FALSE
    BY <2>1, <2>3 DEF SomebodyWrites
  <2>4. ASSUME NEW c \in Calls, CallStep(c) PROVE UNCHANGED disk
    BY <1>2, <2>4 DEF CallStep, ListThreads, ReadTabs, ReadCells, Deliver, ChooseName,
                      UploadSheet, FillSheet, ExportFails
  <2>5. ASSUME NEW c \in Calls, NEW dest, NEW given, ExportComments(c, dest, given)
        PROVE  UNCHANGED disk
    BY <2>5 DEF ExportComments
  <2> QED
    BY <2>2, <2>3, <2>4, <2>5 DEF ExportNext, exportVars, Tick, SomebodyDeletesTab
<1> QED BY <1>1, <1>2

\* export_comments never writes over a register that was there when it chose its name,
\* but for one made in the second it names its own after: resolve_export_path looks and
\* the write comes later, so two calls may race, whatever names were given
\* (_export.py:377-432).
THEOREM OverwritesAreRaces == ExportSpec => OverwritesOnlyInARace
<1>1. ChoiceInv /\ [ExportNext]_exportVars => ChoiceInv' BY ChoiceStep
<1>2. ExportInit => ChoiceInv BY ChoiceInit
<1>3. ChoiceInv /\ [ExportNext]_exportVars =>
        [\A f \in disk \ disk' : \E c \in Calls :
           /\ export[c].at = "write" /\ export'[c].at = "over" /\ export[c].target = f.name
           /\ f \notin export[c].seen \/ \E i \in DOMAIN f.name.stamps : f.name.stamps[i] = export[c].stamp
        ]_exportVars
  BY OverwritesItsTarget
<1> QED BY <1>1, <1>2, <1>3, PTL DEF ExportSpec, OverwritesOnlyInARace
-----------------------------------------------------------------------------
(* What the rows of a register say. *)

\* The comments as they were listed: each once, with the tab it is known to be on.
AsListed(L) ==
  /\ IsFiniteSet(L)
  /\ \A t \in L : t \in [id : {t.id}, replies : Nat, tab : TabNames \cup {Unsaid, Fileless}]
  /\ \A t, u \in L : t.id = u.id => t = u

\* A cell is told by the tab it was read from.
Grids(readable, T) == [t \in T |-> IF t \in readable THEN t ELSE NoName]

\* A row that leaves its tab open, and one that is counted.
Open(r) == r.cell /\ r.tab = NoName /\ r.cell_text = {}

\* What is said of one row, by the tabs it was made with.
RowIsSound(r, T) ==
  /\ r.tab \in TabNames \cup {NoName}
  /\ r.cell_text \subseteq TabNames \cup {NoName}
  /\ r.cell_text = {} \/ (r.by_tab = {} /\ Cardinality(r.cell_text) = 1)
  /\ r.tab \in T => r.cell_text \subseteq {r.tab, NoName}
  /\ r.cell /\ r.tab = NoName /\ r.cell_text # {} => Cardinality(T) = 1
  /\ r.by_tab # {} <=> Open(r)

\* One tab is a number of tabs.
LEMMA TabsCounted ==
  ASSUME NEW T \in SUBSET TabNames, T # {}
  PROVE  Cardinality(T) \in Nat /\ Cardinality(T) # 0 /\ (Cardinality(T) = 1 <=> \E x : T = {x})
<1>1. IsFiniteSet(T) BY ExportAssumption, FS_Subset
<1> QED BY <1>1, FS_CardinalityType, FS_EmptySet, FS_Singleton

LEMMA CommentRowIsSound ==
  ASSUME NEW T \in SUBSET TabNames, T # {}, NEW readable, NEW t,
         t.tab \in TabNames \cup {Unsaid, Fileless}
  PROVE  RowIsSound(comment_row(t, T, Grids(readable, T)), T)
<1>0. PICK g : g = Grids(readable, T) OBVIOUS
<1> DEFINE on == IF t.tab # Fileless THEN reads_on(t.tab, T) ELSE {}
           text == IF Cardinality(on) = 1 THEN {g[x] : x \in on} ELSE {}
           texts == IF Cardinality(on) > 1 THEN {<<x, g[x]>> : x \in on} ELSE {}
<1>1. \A x \in T : g[x] \in {x, NoName} BY <1>0 DEF Grids
<1>2. PICK r : r = comment_row(t, T, g) OBVIOUS
<1>3. /\ r.cell = (t.tab # Fileless)
      /\ r.tab = IF keeps_tab(t.tab, T) THEN t.tab ELSE NoName
      /\ r.cell_text = text /\ r.by_tab = texts
  BY <1>2 DEF comment_row
<1>4. Cardinality({}) = 0 /\ \A x : Cardinality({x}) = 1 BY FS_EmptySet, FS_Singleton
<1>5. NoName \notin TabNames /\ Fileless \notin TabNames /\ NoName # Fileless BY ExportAssumption
<1>6. ASSUME t.tab = Fileless PROVE RowIsSound(r, T)
  <2>1. on = {} BY <1>6
  <2>2. text = {} /\ texts = {} BY <1>4, <2>1
  <2>3. r.tab = NoName BY <1>3, <1>5, <1>6 DEF keeps_tab
  <2> HIDE DEF text, texts, on
  <2> QED BY <1>3, <1>6, <2>2, <2>3 DEF RowIsSound, Open
<1>7. ASSUME t.tab \in T PROVE RowIsSound(r, T)
  <2>1. t.tab # Fileless BY <1>5, <1>7
  <2>2. on = {t.tab} BY <1>7, <2>1 DEF reads_on
  <2>6. Cardinality(on) = 1 BY <1>4, <2>2
  <2>3. text = {g[t.tab]} /\ texts = {} BY <2>2, <2>6
  <2>4. r.tab = t.tab BY <1>3, <1>7 DEF keeps_tab, keeps_any
  <2>5. g[t.tab] \in {t.tab, NoName} BY <1>1, <1>7
  <2> HIDE DEF text, texts, on
  <2> QED BY <1>3, <1>4, <1>5, <1>7, <2>1, <2>3, <2>4, <2>5 DEF RowIsSound, Open
<1>8. ASSUME t.tab # Fileless /\ t.tab \notin T PROVE RowIsSound(r, T)
  <2>1. on = T BY <1>8 DEF reads_on
  <2>2. r.tab \in TabNames \cup {NoName} /\ r.tab \notin T BY <1>3, <1>5, <1>8 DEF keeps_tab
  <2>3. CASE Cardinality(T) = 1
    <3>1. PICK x \in T : T = {x} BY <2>3, TabsCounted
    <3>2. on = {x} BY <2>1, <3>1
    <3>5. Cardinality(on) = 1 BY <1>4, <3>2
    <3>3. text = {g[x]} /\ texts = {} BY <3>2, <3>5
    <3>4. g[x] \in TabNames \cup {NoName} BY <1>1, <3>1
    <3> HIDE DEF text, texts, on
    <3> QED BY <1>3, <1>4, <2>2, <2>3, <3>3, <3>4 DEF RowIsSound, Open
  <2>4. CASE Cardinality(T) # 1
    <3>1. Cardinality(T) > 1 BY <2>4, TabsCounted
    <3>2. text = {} /\ texts = {<<x, g[x]>> : x \in T} BY <2>1, <2>4, <3>1
    <3>3. texts # {} BY <3>2
    <3>4. r.tab = NoName BY <1>3, <1>8, <2>4 DEF keeps_tab, keeps_any
    <3> HIDE DEF text, texts, on
    <3> QED BY <1>3, <1>8, <2>2, <3>2, <3>3, <3>4 DEF RowIsSound, Open
  <2> QED BY <2>3, <2>4
<1> QED BY <1>0, <1>2, <1>5, <1>6, <1>7, <1>8

LEMMA ReplyRowIsSound ==
  ASSUME NEW T \in SUBSET TabNames, NEW t, NEW k
  PROVE  RowIsSound(reply_row(t, k), T) /\ reply_row(t, k).by_tab = {}
BY ExportAssumption DEF RowIsSound, Open, reply_row

\* A row of a register: a comment's, or a reply's; which one its id says.
RowAt(L, T, g, f, order, off) ==
  /\ order \in Seq(L)
  /\ \A i, j \in 1 .. Len(order) : order[i] = order[j] => i = j
  /\ \A i \in 1 .. Len(f) : \E p \in 1 .. Len(order), k \in Nat \ {0} :
       /\ i = off[p - 1] + k
       /\ f[i] = IF k = 1 THEN comment_row(order[p], T, g) ELSE reply_row(order[p], k - 1)
  /\ f \in Seq({f[i] : i \in 1 .. Len(f)})
  /\ L # {} => f # <<>>

LEMMA RowsOfAComment ==
  ASSUME NEW t, t.replies \in Nat, NEW T, NEW g,
         NEW S, comment_row(t, T, g) \in S, \A k \in Nat : reply_row(t, k) \in S
  PROVE  /\ rows_of(t, T, g) \in Seq(S)
         /\ Len(rows_of(t, T, g)) = t.replies + 1
         /\ \A k \in 1 .. t.replies + 1 :
              rows_of(t, T, g)[k] = IF k = 1 THEN comment_row(t, T, g) ELSE reply_row(t, k - 1)
<1> DEFINE n == t.replies
<1>1. PICK a \in S : a = comment_row(t, T, g) OBVIOUS
<1>2. PICK b : b = [k \in 1 .. n |-> reply_row(t, k)] OBVIOUS
<1>3. b \in Seq(S) /\ Len(b) = n
  <2>1. b \in [1 .. n -> S] BY <1>2
  <2> QED BY <2>1
<1>4. <<a>> \in Seq(S) /\ Len(<<a>>) = 1 /\ <<a>>[1] = a OBVIOUS
<1>5. PICK one \in Seq(S) : one = <<a>> BY <1>4
<1>6. /\ one \o b \in Seq(S) /\ Len(one \o b) = Len(one) + Len(b)
      /\ \A k \in 1 .. Len(one) + Len(b) :
           (one \o b)[k] = IF k <= Len(one) THEN one[k] ELSE b[k - Len(one)]
  BY <1>3, ConcatProperties
<1>7. rows_of(t, T, g) = one \o b BY <1>1, <1>2, <1>5 DEF rows_of
<1>8. Len(one) = 1 /\ one[1] = a /\ Len(b) = n BY <1>3, <1>4, <1>5
<1>9. ASSUME NEW k \in 1 .. n + 1
      PROVE  (one \o b)[k] = IF k = 1 THEN a ELSE reply_row(t, k - 1)
  <2>1. k \in 1 .. Len(one) + Len(b) BY <1>8
  <2>2. (one \o b)[k] = IF k <= 1 THEN one[k] ELSE b[k - 1] BY <1>6, <1>8, <2>1
  <2>3. CASE k = 1 BY <1>8, <2>2, <2>3
  <2>4. CASE k # 1
    <3>1. k - 1 \in 1 .. n /\ ~(k <= 1) BY <2>4
    <3>2. b[k - 1] = reply_row(t, k - 1) BY <1>2, <3>1
    <3> QED BY <2>2, <2>4, <3>1, <3>2
  <2> QED BY <2>3, <2>4
<1>10. PICK v : v = one \o b OBVIOUS
<1>11. v \in Seq(S) /\ Len(v) = n + 1 BY <1>6, <1>8, <1>10
<1>12. \A k \in 1 .. n + 1 : v[k] = IF k = 1 THEN a ELSE reply_row(t, k - 1) BY <1>9, <1>10, Zenon
<1> QED BY <1>1, <1>7, <1>10, <1>11, <1>12, Zenon

LEMMA RegisterRows ==
  ASSUME NEW L, AsListed(L), NEW T, NEW g
  PROVE  \E order, off : RowAt(L, T, g, comment_rows(L, T, g).rows, order, off)
<1> DEFINE S == {comment_row(t, T, g) : t \in L} \cup {reply_row(t, k) : t \in L, k \in Nat}
<1>1. PICK order : order = SetToSeq(L) OBVIOUS
<1>2. /\ order \in Seq(L)
      /\ \A t \in L : \E i \in 1 .. Len(order) : order[i] = t
      /\ \A i, j \in 1 .. Len(order) : order[i] = order[j] => i = j
  BY <1>1, SetInSequence DEF AsListed
<1>3. Len(order) \in Nat /\ DOMAIN order = 1 .. Len(order) /\ \A p \in 1 .. Len(order) : order[p] \in L
  BY <1>2, LenProperties, ElementOfSeq
<1>4. PICK parts : parts = [p \in 1 .. Len(order) |-> rows_of(order[p], T, g)] OBVIOUS
<1>5. ASSUME NEW p \in 1 .. Len(order)
      PROVE  /\ parts[p] \in Seq(S)
             /\ \A k \in 1 .. Len(parts[p]) :
                  parts[p][k] = IF k = 1 THEN comment_row(order[p], T, g) ELSE reply_row(order[p], k - 1)
             /\ Len(parts[p]) \in Nat \ {0}
  <2>1. PICK t \in L : t = order[p] BY <1>3
  <2>2. t.replies \in Nat BY DEF AsListed
  <2>3. comment_row(t, T, g) \in S /\ \A k \in Nat : reply_row(t, k) \in S OBVIOUS
  <2> HIDE DEF S
  <2>4. /\ rows_of(t, T, g) \in Seq(S)
        /\ Len(rows_of(t, T, g)) = t.replies + 1
        /\ \A k \in 1 .. t.replies + 1 :
             rows_of(t, T, g)[k] = IF k = 1 THEN comment_row(t, T, g) ELSE reply_row(t, k - 1)
    BY <2>2, <2>3, RowsOfAComment
  <2>5. parts[p] = rows_of(t, T, g) BY <1>4, <2>1
  <2>6. Len(parts[p]) = t.replies + 1 BY <2>4, <2>5
  <2> QED BY <2>1, <2>2, <2>4, <2>5, <2>6
<1> HIDE DEF S
<1>6. parts \in Seq(Seq(S)) /\ Len(parts) = Len(order)
  <2>1. parts \in [1 .. Len(order) -> Seq(S)] BY <1>4, <1>5
  <2> QED BY <1>3, <2>1
<1>7. PICK f : f = FlattenSeq(parts) OBVIOUS
<1>8. f \in Seq(S) /\ \E off : Offsets(parts, off) /\ Laid(parts, off, Len(parts), f)
  BY <1>6, <1>7, FlattenPositions
<1>9. PICK off : Offsets(parts, off) /\ Laid(parts, off, Len(parts), f) BY <1>8
<1>10. comment_rows(L, T, g).rows = f BY <1>1, <1>3, <1>4, <1>7 DEF comment_rows
<1>11. ASSUME NEW i \in 1 .. Len(f)
       PROVE  \E p \in 1 .. Len(order), k \in Nat \ {0} :
                /\ i = off[p - 1] + k
                /\ f[i] = IF k = 1 THEN comment_row(order[p], T, g) ELSE reply_row(order[p], k - 1)
  <2>1. i \in 1 .. off[Len(parts)] BY <1>9 DEF Laid
  <2>2. PICK p \in 1 .. Len(parts) : \E k \in 1 .. Len(parts[p]) : i = off[p - 1] + k
    BY <1>9, <2>1 DEF Laid
  <2>3. PICK k \in 1 .. Len(parts[p]) : i = off[p - 1] + k BY <2>2
  <2>4. f[off[p - 1] + k] = parts[p][k] BY <1>9 DEF Laid
  <2>5. p \in 1 .. Len(order) BY <1>6
  <2>6. k \in Nat \ {0} BY <1>5, <2>5
  <2>7. f[i] = parts[p][k] BY <2>3, <2>4
  <2> QED BY <1>5, <2>3, <2>5, <2>6, <2>7
<1>12. Len(f) \in Nat /\ DOMAIN f = 1 .. Len(f) BY <1>8, LenProperties
<1>13. f \in Seq({f[i] : i \in 1 .. Len(f)})
  <2>1. f \in [1 .. Len(f) -> {f[i] : i \in 1 .. Len(f)}] BY <1>8, <1>12
  <2> QED BY <1>12, <2>1
<1>14. ASSUME L # {} PROVE f # <<>>
  <2>1. PICK t \in L : TRUE BY <1>14
  <2>2. PICK p \in 1 .. Len(order) : order[p] = t BY <1>2
  <2>3. 1 \in 1 .. Len(parts[p]) BY <1>5
  <2>4. p \in 1 .. Len(parts) BY <1>6
  <2>5. off[p - 1] + 1 \in 1 .. off[Len(parts)] BY <1>9, <2>3, <2>4 DEF Laid
  <2>6. Len(f) = off[Len(parts)] BY <1>9 DEF Laid
  <2>7. Len(f) # 0 BY <2>5, <2>6, <1>12
  <2> QED BY <2>7, EmptySeq
<1>15. RowAt(L, T, g, f, order, off) BY <1>2, <1>11, <1>13, <1>14 DEF RowAt
<1> QED BY <1>10, <1>15

\* What a register tells, for the tabs it was made with.
RegisterTells(rows, caveats, T) ==
  /\ \A r \in {rows[i] : i \in DOMAIN rows} : RowIsSound(r, T)
  /\ LET open == Cardinality({r \in {rows[i] : i \in DOMAIN rows} : Open(r)})
     IN  {v \in caveats : v[1] = "unplaced"} = IF open = 0 THEN {} ELSE {<<"unplaced", open>>}
  /\ {"thread_id", "reply_comment", "resolve_comment", "delete_comment",
      "reply_comment_completed", "resolve_comment_completed", "delete_comment_completed"}
       \subseteq used_columns(rows)

\* No two rows that leave their tab open are alike, so they are as many as their places.
LEMMA OpenRowsCounted ==
  ASSUME NEW L, AsListed(L), NEW T \in SUBSET TabNames, T # {}, NEW g,
         NEW f, NEW order, NEW off, RowAt(L, T, g, f, order, off),
         \A r \in {f[i] : i \in DOMAIN f} : r.by_tab # {} <=> Open(r)
  PROVE  /\ unplaced_in(f, L) = Cardinality({r \in {f[i] : i \in DOMAIN f} : Open(r)})
         /\ unplaced_in(f, L) \in Nat
<1> DEFINE I == {i \in DOMAIN f : f[i].by_tab # {}}
           O == {r \in {f[i] : i \in DOMAIN f} : Open(r)}
<1>1. Len(f) \in Nat /\ DOMAIN f = 1 .. Len(f)
  <2>1. PICK R : f \in Seq(R) BY DEF RowAt
  <2> QED BY <2>1, LenProperties
<1>2. IsFiniteSet(I)
  <2>0. \A n \in Nat : IsFiniteSet(1 .. n) BY FS_Interval
  <2>1. IsFiniteSet(1 .. Len(f)) BY <1>1, <2>0
  <2>2. I \in SUBSET (1 .. Len(f)) BY <1>1
  <2> QED BY <2>1, <2>2, FS_Subset
<1>3. ASSUME NEW i \in I, NEW j \in I, f[i] = f[j] PROVE i = j
  <2>1. i \in 1 .. Len(f) /\ j \in 1 .. Len(f) /\ f[i].by_tab # {} /\ f[j].by_tab # {} BY <1>1
  <2>2. PICK p \in 1 .. Len(order), k \in Nat \ {0} :
          /\ i = off[p - 1] + k
          /\ f[i] = IF k = 1 THEN comment_row(order[p], T, g) ELSE reply_row(order[p], k - 1)
    BY <2>1 DEF RowAt
  <2>3. PICK q \in 1 .. Len(order), l \in Nat \ {0} :
          /\ j = off[q - 1] + l
          /\ f[j] = IF l = 1 THEN comment_row(order[q], T, g) ELSE reply_row(order[q], l - 1)
    BY <2>1 DEF RowAt
  <2>4. k = 1 /\ l = 1 BY <2>1, <2>2, <2>3 DEF reply_row
  <2>5. comment_row(order[p], T, g).id = <<order[p].id, 0>>
        /\ comment_row(order[q], T, g).id = <<order[q].id, 0>>
    BY DEF comment_row
  <2>6. f[i].id = <<order[p].id, 0>> /\ f[j].id = <<order[q].id, 0>> BY <2>2, <2>3, <2>4, <2>5
  <2>7. <<order[p].id, 0>> = <<order[q].id, 0>> BY <1>3, <2>6
  <2>8. order[p].id = order[q].id BY <2>7
  <2>9. order[p] \in L /\ order[q] \in L BY ElementOfSeq DEF RowAt
  <2>10. order[p] = order[q] BY <2>8, <2>9 DEF AsListed
  <2>11. p = q BY <2>10 DEF RowAt
  <2> QED BY <2>2, <2>3, <2>4, <2>11
<1>4. \A i \in I : f[i] \in O OBVIOUS
<1>5. \A r \in O : \E i \in I : f[i] = r OBVIOUS
<1> HIDE DEF I, O
<1>6. PICK h : h = [i \in I |-> f[i]] OBVIOUS
<1>7. h \in [I -> O] /\ (\A i, j \in I : h[i] = h[j] => i = j) /\ \A r \in O : \E i \in I : h[i] = r
  BY <1>3, <1>4, <1>5, <1>6
<1>8. h \in Bijection(I, O) BY <1>7 DEF Bijection, Injection, IsInjective, Surjection, Range
<1>9. ExistsBijection(I, O) BY <1>8 DEF ExistsBijection
<1>10. Cardinality(O) = Cardinality(I) BY <1>2, <1>9, FS_Bijection
<1>11. Cardinality(I) \in Nat BY <1>2, FS_CardinalityType
<1> QED BY <1>10, <1>11 DEF unplaced_in, I, O

LEMMA RegisterMade ==
  ASSUME NEW L, AsListed(L), NEW T \in SUBSET TabNames, T # {}, NEW readable,
         NEW made, made = comment_rows(L, T, Grids(readable, T))
  PROVE  RegisterTells(made.rows, made.caveats, T)
<1>1. PICK g : g = Grids(readable, T) OBVIOUS
<1>2. PICK f : f = made.rows OBVIOUS
<1>3. PICK order, off : RowAt(L, T, g, f, order, off) BY <1>1, <1>2, RegisterRows
<1>4. Len(f) \in Nat /\ DOMAIN f = 1 .. Len(f) BY <1>3, LenProperties DEF RowAt
<1>5. ASSUME NEW i \in DOMAIN f PROVE RowIsSound(f[i], T)
  <2>1. PICK p \in 1 .. Len(order), k \in Nat \ {0} :
          /\ i = off[p - 1] + k
          /\ f[i] = IF k = 1 THEN comment_row(order[p], T, g) ELSE reply_row(order[p], k - 1)
    BY <1>3, <1>4 DEF RowAt
  <2>2. order[p] \in L BY <1>3, ElementOfSeq DEF RowAt
  <2>3. order[p].tab \in TabNames \cup {Unsaid, Fileless} BY <2>2 DEF AsListed
  <2>4. RowIsSound(comment_row(order[p], T, g), T) BY <1>1, <2>3, CommentRowIsSound
  <2>5. RowIsSound(reply_row(order[p], k - 1), T) BY ReplyRowIsSound
  <2> QED BY <2>1, <2>4, <2>5
<1>6. \A r \in {f[i] : i \in DOMAIN f} : RowIsSound(r, T) BY <1>5
<1>7. \A r \in {f[i] : i \in DOMAIN f} : r.by_tab # {} <=> Open(r) BY <1>6 DEF RowIsSound
<1>8. PICK u : u = unplaced_in(f, L) OBVIOUS
<1>9. u = Cardinality({r \in {f[i] : i \in DOMAIN f} : Open(r)}) /\ u \in Nat
  BY <1>3, <1>7, <1>8, OpenRowsCounted
<1>10. PICK none : /\ none \in {{}, {<<"none mapped", 0>>}}
                   /\ made.caveats = none \cup (IF u > 0 THEN {<<"unplaced", u>>} ELSE {})
  BY <1>1, <1>2, <1>8 DEF comment_rows
<1> DEFINE found == IF u > 0 THEN {<<"unplaced", u>>} ELSE {}
<1>13. none \in {{}, {<<"none mapped", 0>>}} /\ made.caveats = none \cup found BY <1>10
<1>11. {v \in made.caveats : v[1] = "unplaced"} = IF u = 0 THEN {} ELSE {<<"unplaced", u>>}
  <2>0. <<"none mapped", 0>>[1] # "unplaced" OBVIOUS
  <2>1. \A v \in none : v[1] # "unplaced" BY <1>13, <2>0, Zenon
  <2>2. <<"unplaced", u>>[1] = "unplaced" OBVIOUS
  <2>3. CASE u = 0
    <3>1. found = {} BY <2>3
    <3>2. made.caveats = none BY <1>13, <3>1
    <3> QED BY <2>1, <2>3, <3>2
  <2>4. CASE u # 0
    <3>1. found = {<<"unplaced", u>>} BY <1>9, <2>4
    <3>2. made.caveats = none \cup {<<"unplaced", u>>} BY <1>13, <3>1
    <3> QED BY <2>1, <2>2, <2>4, <3>2
  <2> QED BY <2>3, <2>4
<1>12. {"thread_id", "reply_comment", "resolve_comment", "delete_comment",
        "reply_comment_completed", "resolve_comment_completed", "delete_comment_completed"}
         \subseteq used_columns(f)
  <2>1. CASE f = <<>> BY <2>1 DEF used_columns, TO_FILL_IN, COMPLETED, REPORTED
  <2>2. CASE f # <<>>
    <3>1. 1 \in DOMAIN f BY <1>4, <2>2, EmptySeq, <1>3 DEF RowAt
    <3>2. Fills(f[1], "thread_id") BY DEF Fills
    <3>3. "thread_id" \in {c \in REPORTED : \E i \in DOMAIN f : Fills(f[i], c)}
      BY <3>1, <3>2 DEF REPORTED
    <3> QED BY <2>2, <3>3 DEF used_columns, TO_FILL_IN, COMPLETED
  <2> QED BY <2>1, <2>2
<1> QED BY <1>2, <1>6, <1>9, <1>11, <1>12 DEF RegisterTells

\* The comments are listed as they were when the call asked, each tab is read as it was
\* then, and what a call holds to deliver is a register that tells the truth.
CallIsSound(call) ==
  /\ call.at \in {"tabs", "cells"} => AsListed(call.located)
  /\ call.at = "cells" => call.tabs \in SUBSET TabNames /\ call.tabs # {}
  /\ IF call.at = "deliver"
       THEN /\ call.tabs \in SUBSET TabNames /\ call.tabs # {}
            /\ RegisterTells(call.rows, call.caveats, call.tabs)
       ELSE call.rows = <<>>

RegisterInv ==
  /\ export = [c \in Calls |-> export[c]]
  /\ \A c \in Calls : CallIsSound(export[c])
  /\ present \subseteq TabNames /\ present # {} /\ second \in 1 .. MaxSecond
  /\ \A f, g \in disk : f.name = g.name => f = g

\* The steps of a call, one at a time.
LEMMA OneExportSteps ==
  ASSUME RegisterInv, NEW c \in Calls, NEW call, CallIsSound(call),
         export' = [export EXCEPT ![c] = call]
  PROVE  export' = [d \in Calls |-> export'[d]] /\ \A d \in Calls : CallIsSound(export'[d])
<1>1. PICK was : was = export OBVIOUS
<1>2. was = [d \in Calls |-> was[d]] /\ \A d \in Calls : CallIsSound(was[d]) BY <1>1 DEF RegisterInv
<1>3. PICK now : now = [was EXCEPT ![c] = call] OBVIOUS
<1>4. /\ now = [d \in Calls |-> now[d]]
      /\ now[c] = call /\ \A d \in Calls \ {c} : now[d] = was[d]
  BY <1>2, <1>3
<1>5. \A d \in Calls : CallIsSound(now[d]) BY <1>2, <1>4
<1>6. export' = now BY <1>1, <1>3
<1>7. export' = [d \in Calls |-> export'[d]] BY <1>4, <1>6
<1>8. ASSUME NEW d \in Calls PROVE CallIsSound(export'[d])
  <2>1. export'[d] = now[d] BY <1>6
  <2>2. CallIsSound(now[d]) BY <1>5
  <2> QED BY <2>1, <2>2, Zenon
<1> QED BY <1>7, <1>8

\* What a step of a call leaves of its record.
LEMMA Fields ==
  ASSUME NEW call, NEW fields, NEW x \in DOMAIN Unborn
  PROVE  With(call, fields)[x] = IF x \in DOMAIN fields THEN fields[x] ELSE call[x]
BY DEF With

LEMMA UnbornFields ==
  /\ DOMAIN Unborn = {"at", "dest", "given", "located", "tabs", "rows", "caveats", "target",
                      "stamp", "seen"}
  /\ Unborn.rows = <<>>
BY DEF Unborn

LEMMA ListingIsSound ==
  ASSUME RegisterInv, NEW c \in Calls, ListThreads(c)
  PROVE  RegisterInv'
<1>1. PICK mapped \in BOOLEAN :
        Step(c, [at |-> "tabs",
                 located |-> {IF mapped THEN t ELSE [t EXCEPT !.tab = Fileless] :
                                t \in {u \in Threads : u.tab \notin TabNames \ present}}])
  BY DEF ListThreads
<1> DEFINE there == {u \in Threads : u.tab \notin TabNames \ present}
           F(t) == IF mapped THEN t ELSE [t EXCEPT !.tab = Fileless]
           L == {F(t) : t \in there}
<1>2. ASSUME NEW t \in Threads
      PROVE  /\ F(t) \in [id : {t.id}, replies : Nat, tab : TabNames \cup {Unsaid, Fileless}]
             /\ F(t).id = t.id
  <2>1. t \in [id : {t.id}, replies : Nat, tab : TabNames \cup {Unsaid, Fileless}]
    BY ExportAssumption
  <2>2. PICK k : k = t.id OBVIOUS
  <2>3. PICK s \in [id : {k}, replies : Nat, tab : TabNames \cup {Unsaid, Fileless}] : s = t
    BY <2>1, <2>2
  <2>4. [s EXCEPT !.tab = Fileless] \in [id : {k}, replies : Nat, tab : TabNames \cup {Unsaid, Fileless}]
    OBVIOUS
  <2>5. F(t) \in [id : {k}, replies : Nat, tab : TabNames \cup {Unsaid, Fileless}]
    BY <2>3, <2>4
  <2>6. \A r \in [id : {k}, replies : Nat, tab : TabNames \cup {Unsaid, Fileless}] : r.id = k OBVIOUS
  <2> HIDE DEF F
  <2> QED BY <2>2, <2>5, <2>6
<1>3. IsFiniteSet(L)
  <2>1. IsFiniteSet(there) BY ExportAssumption, FS_Subset
  <2>2. PICK h : h = [t \in there |-> F(t)] OBVIOUS
  <2>3. h \in [there -> L] /\ \A x \in L : \E t \in there : h[t] = x BY <2>2
  <2> HIDE DEF L, there, F
  <2>4. h \in Surjection(there, L) BY <2>3 DEF Surjection, Range
  <2> QED BY <2>1, <2>4, FS_Surjection
<1> HIDE DEF F
<1>4. AsListed(L)
  <2>1. ASSUME NEW x \in L
        PROVE  x \in [id : {x.id}, replies : Nat, tab : TabNames \cup {Unsaid, Fileless}]
    <3>1. PICK t \in Threads : x = F(t) OBVIOUS
    <3>2. x.id = t.id BY <1>2, <3>1
    <3> QED BY <1>2, <3>1, <3>2
  <2>2. ASSUME NEW x \in L, NEW y \in L, x.id = y.id PROVE x = y
    <3>1. PICK t \in Threads : x = F(t) OBVIOUS
    <3>2. PICK u \in Threads : y = F(u) OBVIOUS
    <3>3. t.id = u.id BY <1>2, <2>2, <3>1, <3>2
    <3>4. t = u BY <3>3, ExportAssumption
    <3> QED BY <3>1, <3>2, <3>4
  <2> HIDE DEF L
  <2> QED BY <1>3, <2>1, <2>2 DEF AsListed
<1>5. PICK fields : fields = [at |-> "tabs", located |-> L] OBVIOUS
<1>6. Step(c, fields) BY <1>1, <1>5 DEF F
<1> HIDE DEF L
<1>7. PICK call : call = With(export[c], fields) OBVIOUS
<1>8. call.at = "tabs" /\ call.located = L /\ call.rows = export[c].rows
  BY <1>5, <1>7, Fields, UnbornFields
<1>9. export[c].rows = <<>>
  <2>1. CallIsSound(export[c]) /\ export[c].at = "list" BY DEF RegisterInv, ListThreads
  <2> QED BY <2>1 DEF CallIsSound
<1>10. CallIsSound(call) BY <1>4, <1>8, <1>9 DEF CallIsSound
<1>11. export' = [export EXCEPT ![c] = call] BY <1>6, <1>7 DEF Step
<1>12. export' = [d \in Calls |-> export'[d]] /\ \A d \in Calls : CallIsSound(export'[d])
  BY <1>10, <1>11, OneExportSteps
<1> QED BY <1>12 DEF RegisterInv, ListThreads

\* A step that leaves a call without rows, and not among those who read.
LEMMA IdleKeeps ==
  ASSUME RegisterInv, NEW c \in Calls, NEW call, call.rows = <<>>,
         call.at \notin {"tabs", "cells", "deliver"},
         export' = [export EXCEPT ![c] = call]
  PROVE  export' = [d \in Calls |-> export'[d]] /\ \A d \in Calls : CallIsSound(export'[d])
<1>1. CallIsSound(call) BY DEF CallIsSound
<1> QED BY <1>1, OneExportSteps

LEMMA OverKeeps ==
  ASSUME RegisterInv, NEW c \in Calls, Over(c)
  PROVE  export' = [d \in Calls |-> export'[d]] /\ \A d \in Calls : CallIsSound(export'[d])
<1>1. PICK call : call = [Unborn EXCEPT !.at = "over"] OBVIOUS
<1>2. call.at = "over" /\ call.rows = <<>> BY <1>1 DEF Unborn
<1>3. export' = [export EXCEPT ![c] = call] BY <1>1 DEF Over
<1> QED BY <1>2, <1>3, IdleKeeps

LEMMA AskingIsSound ==
  ASSUME RegisterInv, NEW c \in Calls, NEW dest, NEW given, ExportComments(c, dest, given)
  PROVE  RegisterInv'
<1>1. PICK fields : fields = [at |-> "list", dest |-> dest, given |-> given] OBVIOUS
<1>2. PICK call : call = With(export[c], fields) OBVIOUS
<1>3. call.at = "list" /\ call.rows = export[c].rows BY <1>1, <1>2, Fields, UnbornFields
<1>4. export[c].rows = <<>>
  <2>1. CallIsSound(export[c]) /\ export[c].at = "unborn" BY DEF RegisterInv, ExportComments
  <2> QED BY <2>1 DEF CallIsSound
<1>5. export' = [export EXCEPT ![c] = call] BY <1>1, <1>2 DEF ExportComments, Step
<1>6. export' = [d \in Calls |-> export'[d]] /\ \A d \in Calls : CallIsSound(export'[d])
  BY <1>3, <1>4, <1>5, IdleKeeps
<1> QED BY <1>6 DEF RegisterInv, ExportComments

LEMMA ReadingTabsIsSound ==
  ASSUME RegisterInv, NEW c \in Calls, ReadTabs(c)
  PROVE  RegisterInv'
<1>1. PICK fields : fields = [at |-> "cells", tabs |-> present] OBVIOUS
<1>2. PICK call : call = With(export[c], fields) OBVIOUS
<1>3. /\ call.at = "cells" /\ call.tabs = present
      /\ call.rows = export[c].rows /\ call.located = export[c].located
  BY <1>1, <1>2, Fields, UnbornFields
<1>4. export[c].rows = <<>> /\ AsListed(export[c].located)
  <2>1. CallIsSound(export[c]) /\ export[c].at = "tabs" BY DEF RegisterInv, ReadTabs
  <2> QED BY <2>1 DEF CallIsSound
<1>5. present \in SUBSET TabNames /\ present # {} BY DEF RegisterInv
<1>6. CallIsSound(call) BY <1>3, <1>4, <1>5 DEF CallIsSound
<1>7. export' = [export EXCEPT ![c] = call] BY <1>1, <1>2 DEF ReadTabs, Step
<1>8. export' = [d \in Calls |-> export'[d]] /\ \A d \in Calls : CallIsSound(export'[d])
  BY <1>6, <1>7, OneExportSteps
<1> QED BY <1>8 DEF RegisterInv, ReadTabs

LEMMA ReadingCellsIsSound ==
  ASSUME RegisterInv, NEW c \in Calls, ReadCells(c)
  PROVE  RegisterInv'
<1>1. PICK L, T : L = export[c].located /\ T = export[c].tabs OBVIOUS
<1>2. PICK readable, made :
        /\ made = comment_rows(L, T, [t \in T |-> IF t \in readable THEN t ELSE NoName])
        /\ Step(c, [at |-> "deliver", rows |-> made.rows, caveats |-> made.caveats])
  BY <1>1 DEF ReadCells
<1>3. made = comment_rows(L, T, Grids(readable, T)) BY <1>2 DEF Grids
<1>4. AsListed(L) /\ T \in SUBSET TabNames /\ T # {}
  <2>1. CallIsSound(export[c]) /\ export[c].at = "cells" BY DEF RegisterInv, ReadCells
  <2> QED BY <1>1, <2>1 DEF CallIsSound
<1>5. RegisterTells(made.rows, made.caveats, T) BY <1>3, <1>4, RegisterMade
<1>6. PICK fields : fields = [at |-> "deliver", rows |-> made.rows, caveats |-> made.caveats] OBVIOUS
<1>7. PICK call : call = With(export[c], fields) OBVIOUS
<1>8. call.at = "deliver" /\ call.tabs = T /\ call.rows = made.rows /\ call.caveats = made.caveats
  BY <1>1, <1>6, <1>7, Fields, UnbornFields
<1>9. CallIsSound(call) BY <1>4, <1>5, <1>8 DEF CallIsSound
<1>10. export' = [export EXCEPT ![c] = call] BY <1>2, <1>6, <1>7 DEF Step
<1>11. export' = [d \in Calls |-> export'[d]] /\ \A d \in Calls : CallIsSound(export'[d])
  BY <1>9, <1>10, OneExportSteps
<1> QED BY <1>11 DEF RegisterInv, ReadCells

LEMMA WritingIsSound ==
  ASSUME RegisterInv, NEW c \in Calls,
         ChooseName(c) \/ WriteRegister(c) \/ UploadSheet(c) \/ FillSheet(c) \/ Deliver(c) \/ ExportFails(c)
  PROVE  RegisterInv'
<1>1. CASE ChooseName(c)
  <2>1. PICK target :
          target = resolve_export_path(export[c].given, export[c].dest, second) OBVIOUS
  <2>2. PICK fields : fields = [at |-> "write", target |-> target, stamp |-> second, seen |-> disk]
    OBVIOUS
  <2>3. PICK call : call = With(Unborn, fields) OBVIOUS
  <2>4. export' = [export EXCEPT ![c] = call] BY <1>1, <2>1, <2>2, <2>3 DEF ChooseName
  <2>5. call.at = "write" /\ call.rows = <<>> BY <2>2, <2>3, Fields, UnbornFields
  <2>6. export' = [d \in Calls |-> export'[d]] /\ \A d \in Calls : CallIsSound(export'[d])
    BY <2>4, <2>5, IdleKeeps
  <2> QED BY <1>1, <2>6 DEF RegisterInv, ChooseName
<1>2. CASE WriteRegister(c)
  <2>1. export' = [d \in Calls |-> export'[d]] /\ \A d \in Calls : CallIsSound(export'[d])
    BY <1>2, OverKeeps DEF WriteRegister
  <2>2. PICK target : target = export[c].target OBVIOUS
  <2>3. disk' = {f \in disk : f.name # target} \cup {[name |-> target, by |-> c]}
    BY <1>2, <2>2 DEF WriteRegister
  <2>4. \A f, g \in disk' : f.name = g.name => f = g BY <2>3 DEF RegisterInv
  <2> QED BY <1>2, <2>1, <2>4 DEF RegisterInv, WriteRegister
<1>3. CASE UploadSheet(c)
  <2>1. export' = [d \in Calls |-> export'[d]] /\ \A d \in Calls : CallIsSound(export'[d])
    <3>1. CASE c \in OpenpyxlInstalled BY <1>3, <3>1, OverKeeps DEF UploadSheet
    <3>2. CASE c \notin OpenpyxlInstalled
      <4>1. PICK call : call = [Unborn EXCEPT !.at = "fill"] OBVIOUS
      <4>2. call.at = "fill" /\ call.rows = <<>> BY <4>1 DEF Unborn
      <4>3. export' = [export EXCEPT ![c] = call] BY <1>3, <3>2, <4>1 DEF UploadSheet
      <4> QED BY <4>2, <4>3, IdleKeeps
    <3> QED BY <3>1, <3>2
  <2> QED BY <1>3, <2>1 DEF RegisterInv, UploadSheet
<1>4. CASE FillSheet(c)
  <2>1. export' = [d \in Calls |-> export'[d]] /\ \A d \in Calls : CallIsSound(export'[d])
    BY <1>4, OverKeeps DEF FillSheet
  <2> QED BY <1>4, <2>1 DEF RegisterInv, FillSheet
<1>5. CASE Deliver(c) \/ ExportFails(c)
  <2>1. export' = [d \in Calls |-> export'[d]] /\ \A d \in Calls : CallIsSound(export'[d])
    BY <1>5, OverKeeps DEF Deliver, ExportFails
  <2> QED BY <1>5, <2>1 DEF RegisterInv, Deliver, ExportFails
<1> QED BY <1>1, <1>2, <1>3, <1>4, <1>5

LEMMA RegisterStep ==
  ASSUME RegisterInv, [ExportNext]_exportVars
  PROVE  RegisterInv'
<1>1. CASE UNCHANGED exportVars BY <1>1 DEF exportVars, RegisterInv
<1>2. ASSUME NEW c \in Calls, NEW dest, NEW given, ExportComments(c, dest, given)
      PROVE  RegisterInv'
  BY <1>2, AskingIsSound
<1>3. ASSUME NEW c \in Calls, CallStep(c) PROVE RegisterInv'
  BY <1>3, ListingIsSound, ReadingTabsIsSound, ReadingCellsIsSound, WritingIsSound DEF CallStep
<1>4. CASE Tick BY <1>4, ExportAssumption DEF Tick, RegisterInv
<1>5. ASSUME NEW given, SomebodyWrites(given) PROVE RegisterInv'
  <2>1. PICK name : name = Name(given, <<>>, "file") OBVIOUS
  <2>2. disk' = disk \cup {[name |-> name, by |-> NoName]} /\ \A f \in disk : f.name # name
    BY <1>5, <2>1 DEF SomebodyWrites, Taken
  <2>3. \A f, g \in disk' : f.name = g.name => f = g BY <2>2 DEF RegisterInv
  <2> QED BY <1>5, <2>3 DEF SomebodyWrites, RegisterInv
<1>6. ASSUME NEW t, SomebodyDeletesTab(t) PROVE RegisterInv'
  BY <1>6 DEF SomebodyDeletesTab, RegisterInv
<1> QED BY <1>1, <1>2, <1>3, <1>4, <1>5, <1>6 DEF ExportNext

LEMMA RegisterInitially ==
  ASSUME ExportInit
  PROVE  RegisterInv
<1>1. \A c \in Calls : export[c].at = "unborn" /\ export[c].rows = <<>> BY DEF ExportInit, Unborn
<1>2. export = [c \in Calls |-> export[c]] BY DEF ExportInit
<1>3. \A c \in Calls : CallIsSound(export[c]) BY <1>1 DEF CallIsSound
<1>4. present \subseteq TabNames /\ present # {} /\ second \in 1 .. MaxSecond /\ disk = {}
  BY ExportAssumption DEF ExportInit
<1> QED BY <1>2, <1>3, <1>4 DEF RegisterInv

\* A register says what the spreadsheet said: each row, the shortfall and the columns.
LEMMA ReportTellsTruly ==
  ASSUME RegisterInv
  PROVE  ExportTypeOK /\ RegisterIsSound
<1>1. ASSUME NEW c \in Calls
      PROVE  /\ \A r \in Rows(c) : RowIsSound(r, export[c].tabs)
             /\ Made(c) => RegisterTells(export[c].rows, export[c].caveats, export[c].tabs)
  <2>1. CallIsSound(export[c]) BY DEF RegisterInv
  <2>2. CASE export[c].at = "deliver"
    BY <2>1, <2>2 DEF CallIsSound, RegisterTells, Rows
  <2>3. CASE export[c].at # "deliver"
    <3>1. export[c].rows = <<>> BY <2>1, <2>3 DEF CallIsSound
    <3>2. Rows(c) = {} BY <3>1 DEF Rows
    <3> QED BY <2>3, <3>2 DEF Made
  <2> QED BY <2>2, <2>3
<1>2. ExportTypeOK BY <1>1 DEF RegisterInv, ExportTypeOK, RowIsSound
<1>3. CellTextIsOfItsTab BY <1>1 DEF CellTextIsOfItsTab, RowIsSound
<1>4. ShortfallCounted BY <1>1 DEF ShortfallCounted, RegisterTells, Rows, Open
<1>5. CanBeHandedBack BY <1>1 DEF CanBeHandedBack, RegisterTells
<1> QED BY <1>2, <1>3, <1>4, <1>5 DEF RegisterIsSound

\* Whatever is listed, renamed or deleted between the requests of an export, its rows,
\* its caveats and its columns are true to each other and to the tabs that were read
\* (_export.py:176-281, 499-516).
THEOREM RegistersAreSound == ExportSpec => []RegisterIsSound
<1>1. ExportInit => RegisterInv BY RegisterInitially
<1>2. RegisterInv /\ [ExportNext]_exportVars => RegisterInv' BY RegisterStep
<1>3. RegisterInv => RegisterIsSound BY ReportTellsTruly
<1> QED BY <1>1, <1>2, <1>3, PTL DEF ExportSpec

\* The variables of an export keep their types, and no two files bear one name.
THEOREM ExportTypes == ExportSpec => []ExportTypeOK
<1>1. ExportInit => RegisterInv BY RegisterInitially
<1>2. RegisterInv /\ [ExportNext]_exportVars => RegisterInv' BY RegisterStep
<1>3. RegisterInv => ExportTypeOK BY ReportTellsTruly
<1> QED BY <1>1, <1>2, <1>3, PTL DEF ExportSpec

-----------------------------------------------------------------------------
(* Texts and the places of a quote in them. *)

\* A quote stands in a text at a place, word by word.
Occurs(text, q, i) ==
  /\ i \in 1 .. Len(text) - Len(q) + 1
  /\ \A j \in 1 .. Len(q) : text[i - 1 + j] = q[j]

LEMMA StartsAre ==
  ASSUME NEW text \in Seq(STRING), NEW q \in Seq(STRING)
  PROVE  \A i : i \in StartsIn(text, q) <=> Occurs(text, q, i)
<1>1. PICK n \in Nat, l \in Nat : n = Len(text) /\ l = Len(q) OBVIOUS
<1>2. \A k \in 1 .. n : text[k] \in STRING BY <1>1
<1>3. ASSUME NEW i \in 1 .. n - l + 1
      PROVE  SubSeq(text, i, i + l - 1) = q <=> \A j \in 1 .. l : text[i - 1 + j] = q[j]
  <2>1. i \in Int /\ i + l - 1 \in Int /\ \A k \in i .. i + l - 1 : k \in 1 .. n BY <1>1
  <2>2. PICK u : u = SubSeq(text, i, i + l - 1) OBVIOUS
  <2>3. /\ u \in Seq(STRING) /\ Len(u) = (IF i <= i + l - 1 THEN (i + l - 1) - i + 1 ELSE 0)
        /\ \A j \in 1 .. (i + l - 1) - i + 1 : u[j] = text[i + j - 1]
    BY <1>2, <2>1, <2>2, SubSeqProperties
  <2>4. Len(u) = l BY <1>1, <2>1, <2>3
  <2>5. \A j \in 1 .. l : u[j] = text[i - 1 + j]
    <3>1. \A j \in 1 .. l : j \in 1 .. (i + l - 1) - i + 1 /\ i + j - 1 = i - 1 + j BY <1>1, <2>1
    <3> QED BY <2>3, <3>1
  <2>6. ASSUME \A j \in 1 .. l : text[i - 1 + j] = q[j] PROVE u = q
    <3>1. \A j \in 1 .. Len(u) : u[j] = q[j] BY <2>4, <2>5, <2>6
    <3> QED BY <1>1, <2>3, <2>4, <3>1, SeqEqual
  <2> QED BY <2>2, <2>5, <2>6
<1> QED BY <1>1, <1>3 DEF StartsIn, Occurs

\* A text that holds a quote holds it somewhere first.
LEMMA FirstStart ==
  ASSUME NEW text \in Seq(STRING), NEW q \in Seq(STRING), Holds(text, q)
  PROVE  /\ Min(StartsIn(text, q)) \in StartsIn(text, q)
         /\ Min(StartsIn(text, q)) \in Nat
         /\ \A t \in StartsIn(text, q) : Min(StartsIn(text, q)) <= t
<1>1. StartsIn(text, q) \in SUBSET Nat
  <2>1. Len(text) \in Nat /\ Len(q) \in Nat OBVIOUS
  <2> QED BY <2>1 DEF StartsIn
<1>2. StartsIn(text, q) # {} BY DEF Holds
<1>3. PICK m \in StartsIn(text, q) : \A j \in StartsIn(text, q) : m <= j BY <1>1, <1>2, HasLeast
<1> QED BY <1>1, <1>3 DEF Min

\* What a text is once, it holds.
LEMMA TextHasWords ==
  ASSUME NEW q \in Seq(STRING), has_text(q)
  PROVE  Len(q) \in Nat \ {0}
<1>1. PICK i \in DOMAIN q : TRUE BY DEF has_text
<1> QED BY <1>1

-----------------------------------------------------------------------------
(* Counting. *)

\* The equation by which count declares its recursive function.
CountsFrom(text, q, F) ==
  F = [i \in 1 .. Len(text) + 1 |->
         IF i > Len(text) THEN 0
         ELSE IF i \in StartsIn(text, q) THEN 1 + F[i + Len(q)] ELSE F[i + 1]]

\* Such a function exists: it is made from the end of the text.
LEMMA CountExists ==
  ASSUME NEW text \in Seq(STRING), NEW q \in Seq(STRING), Len(q) > 0
  PROVE  \E F : CountsFrom(text, q, F)
<1>1. PICK n \in Nat, l \in Nat : n = Len(text) /\ l = Len(q) /\ l > 0 OBVIOUS
<1> DEFINE Body(F, i) == IF i > n THEN 0
                         ELSE IF i \in StartsIn(text, q) THEN 1 + F[i + l] ELSE F[i + 1]
           Good(m, F) == /\ F = [i \in 1 .. n + 1 |-> F[i]]
                         /\ \A i \in 1 .. n + 1 : i > n + 1 - m => F[i] = Body(F, i)
           G == {m \in 0 .. n + 1 : \E F : Good(m, F)}
<1>2. \A i \in StartsIn(text, q) : i + l \in 1 .. n + 1 /\ i + l > i
  BY <1>1 DEF StartsIn
<1>3. 0 \in G
  <2>1. PICK F : F = [i \in 1 .. n + 1 |-> 0] OBVIOUS
  <2>2. Good(0, F) BY <1>1, <2>1
  <2> HIDE DEF Good
  <2> QED BY <1>1, <2>2
<1>4. ASSUME NEW m \in 1 .. n + 1, m - 1 \in G PROVE m \in G
  <2>1. PICK F : Good(m - 1, F) BY <1>4
  <2>0. n + 2 - m \in 1 .. n + 1 BY <1>1
  <2>2. PICK x \in 1 .. n + 1 : x = n + 2 - m BY <2>0
  <2>3. PICK H : H = [F EXCEPT ![x] = Body(F, x)] OBVIOUS
  <2>4. DOMAIN F = 1 .. n + 1 BY <2>1
  <2>5. H = [i \in 1 .. n + 1 |-> H[i]] BY <2>1, <2>3, <2>4
  <2>6. \A i \in 1 .. n + 1 : i # x => H[i] = F[i] BY <2>3, <2>4
  <2>7. H[x] = Body(F, x) BY <2>2, <2>3, <2>4
  <2>8. ASSUME NEW i \in 1 .. n + 1, i > n + 1 - m PROVE H[i] = Body(H, i)
    <3>1. i >= x BY <1>1, <2>2, <2>8
    <3>2. Body(H, i) = Body(F, i)
      <4>1. i \in StartsIn(text, q) => H[i + l] = F[i + l] BY <1>1, <1>2, <2>2, <2>6, <3>1
      <4>2. i <= n => H[i + 1] = F[i + 1] BY <1>1, <2>2, <2>6, <3>1
      <4> QED BY <1>1, <4>1, <4>2
    <3>3. CASE i = x BY <2>7, <3>2, <3>3
    <3>4. CASE i # x
      <4>1. i > n + 1 - (m - 1) BY <1>1, <2>2, <3>1, <3>4
      <4> QED BY <2>1, <2>6, <3>2, <3>4, <4>1
    <3> QED BY <3>3, <3>4
  <2>9. Good(m, H) BY <2>5, <2>8
  <2> HIDE DEF Good
  <2> QED BY <2>9
<1> HIDE DEF G
<1>5. 0 .. n + 1 \subseteq G
  <2>1. n + 1 \in Nat BY <1>1
  <2> QED BY <1>3, <1>4, <2>1, UpTo
<1>6. PICK F : Good(n + 1, F)
  <2>1. n + 1 \in 0 .. n + 1 BY <1>1
  <2> QED BY <1>5, <2>1 DEF G
<1>7. \A i \in 1 .. n + 1 : F[i] = Body(F, i)
  <2>1. \A i \in 1 .. n + 1 : i > n + 1 - (n + 1) BY <1>1
  <2> QED BY <1>6, <2>1
<1>8. F = [i \in 1 .. n + 1 |-> Body(F, i)]
  <2>1. F = [i \in 1 .. n + 1 |-> F[i]] BY <1>6
  <2> QED BY <1>7, <2>1
<1> QED BY <1>1, <1>8 DEF CountsFrom

LEMMA CountIsFrom ==
  ASSUME NEW text \in Seq(STRING), NEW q \in Seq(STRING), Len(q) > 0
  PROVE  \E F : CountsFrom(text, q, F) /\ count(text, q) = F[1]
<1> DEFINE P(c) == c = [i \in 1 .. Len(text) + 1 |->
                          IF i > Len(text) THEN 0
                          ELSE IF i \in StartsIn(text, q) THEN 1 + c[i + Len(q)] ELSE c[i + 1]]
<1>1. count(text, q) = (CHOOSE c : P(c))[1] BY DEF count
<1>2. \A c : P(c) <=> CountsFrom(text, q, c) BY DEF CountsFrom
<1>3. \E c : P(c) BY <1>2, CountExists
<1>4. PICK c : c = CHOOSE d : P(d) OBVIOUS
<1> HIDE DEF P
<1>5. P(c) BY <1>3, <1>4
<1> QED BY <1>1, <1>2, <1>4, <1>5

\* None is counted where the quote is not, and one where it is and all its places overlap.
LEMMA CountTells ==
  ASSUME NEW text \in Seq(STRING), NEW q \in Seq(STRING), Len(q) > 0
  PROVE  /\ count(text, q) \in Nat
         /\ count(text, q) = 0 <=> ~Holds(text, q)
         /\ count(text, q) = 1 <=> Once(text, q)
<1>1. PICK n \in Nat, l \in Nat : n = Len(text) /\ l = Len(q) /\ l > 0 OBVIOUS
<1>2. PICK F : CountsFrom(text, q, F) /\ count(text, q) = F[1] BY CountIsFrom
<1>3. PICK St : St = StartsIn(text, q) OBVIOUS
<1>4. \A s \in St : s \in 1 .. n /\ s + l \in 1 .. n + 1 BY <1>1, <1>3 DEF StartsIn
<1>5. \A i \in 1 .. n + 1 : F[i] = IF i > n THEN 0 ELSE IF i \in St THEN 1 + F[i + l] ELSE F[i + 1]
  BY <1>1, <1>2, <1>3 DEF CountsFrom
<1> DEFINE Tells(i) == /\ F[i] \in Nat
                       /\ F[i] = 0 <=> \A s \in St : s < i
                       /\ F[i] = 1 <=> \E s \in St : s >= i /\ \A t \in St : t >= i => s <= t /\ t < s + l
           Bad == {i \in 1 .. n + 1 : ~Tells(i)}
<1>6. Bad = {}
  <2>1. SUFFICES ASSUME Bad # {} PROVE FALSE OBVIOUS
  <2>2. Bad \in SUBSET (0 .. n + 1) BY <1>1
  <2>3. PICK i \in Bad : \A j \in Bad : j <= i
    <3>1. n + 1 \in Nat BY <1>1
    <3> HIDE DEF Bad
    <3> QED BY <2>1, <2>2, <3>1, HasGreatest
  <2>4. i \in 1 .. n + 1 /\ i \in Nat BY <1>1
  <2>5. \A j \in 1 .. n + 1 : j > i => Tells(j)
    <3>1. \A j \in 1 .. n + 1 : j > i => ~(j <= i) BY <1>1
    <3> HIDE DEF Tells
    <3> QED BY <2>3, <3>1
  <2>6. CASE i > n
    <3>1. F[i] = 0 BY <1>5, <2>4, <2>6
    <3>2. \A s \in St : s < i /\ ~(s >= i) BY <1>1, <1>4, <2>4, <2>6
    <3> QED BY <2>3, <3>1, <3>2
  <2>7. CASE i <= n /\ i \in St
    <3>1. PICK j \in 1 .. n + 1 : j = i + l /\ j > i BY <1>1, <1>4, <2>4, <2>7
    <3>2. PICK c \in Nat : c = F[j] /\ (c = 0 <=> \A s \in St : s < j) BY <2>5, <3>1
    <3>3. F[i] = 1 + c BY <1>1, <1>5, <2>4, <2>7, <3>1, <3>2
    <3>4. F[i] \in Nat /\ F[i] # 0 BY <3>2, <3>3
    <3>5. ~ \A s \in St : s < i BY <2>4, <2>7
    <3>6. F[i] = 1 <=> \A t \in St : t < i + l BY <3>1, <3>2, <3>3
    <3>7. \A t \in St : (t >= i <=> i <= t) /\ (t >= i \/ t < i + l) /\ (t <= i /\ t >= i => t = i)
      <4>1. \A t \in St : t \in Nat BY <1>1, <1>4
      <4> QED BY <1>1, <2>4, <4>1
    <3>8. F[i] = 1 => \E s \in St : s >= i /\ \A t \in St : t >= i => s <= t /\ t < s + l
      <4>1. i >= i BY <2>4
      <4> QED BY <2>7, <3>6, <3>7, <4>1
    <3>9. ASSUME NEW s \in St, s >= i, \A t \in St : t >= i => s <= t /\ t < s + l PROVE F[i] = 1
      <4>1. i >= i BY <2>4
      <4>2. s = i BY <2>7, <3>7, <3>9, <4>1
      <4> QED BY <3>6, <3>7, <3>9, <4>2
    <3> QED BY <2>3, <3>4, <3>5, <3>8, <3>9
  <2>8. CASE i <= n /\ i \notin St
    <3>1. PICK j \in 1 .. n + 1 : j = i + 1 /\ j > i BY <1>1, <2>4, <2>8
    <3>2. Tells(j) BY <2>5, <3>1
    <3>3. F[i] = F[j] BY <1>1, <1>5, <2>4, <2>8, <3>1
    <3>4. \A s \in St : (s < j <=> s < i) /\ (s >= j <=> s >= i)
      <4>0. \A s \in St : s # i BY <2>8
      <4>1. \A s \in St : s \in Nat
        <5>1. \A s \in St : s \in 1 .. n BY <1>4
        <5>2. \A s \in 1 .. n : s \in Nat BY <1>1
        <5> QED BY <5>1, <5>2
      <4>2. \A s \in Nat : s # i => (s < j <=> s < i) /\ (s >= j <=> s >= i) BY <2>4, <3>1
      <4> QED BY <4>0, <4>1, <4>2
    <3>5. Tells(i) BY <3>2, <3>3, <3>4
    <3> QED BY <2>3, <3>5
  <2> QED BY <1>1, <2>4, <2>6, <2>7, <2>8
<1>7. Tells(1)
  <2>1. 1 \in 1 .. n + 1 BY <1>1
  <2> HIDE DEF Tells
  <2> QED BY <1>6, <2>1
<1>8. \A s \in St : ~(s < 1) /\ s >= 1 /\ s \in Nat BY <1>1, <1>4
<1>9. F[1] = 1 => Once(text, q)
  <2>1. SUFFICES ASSUME F[1] = 1 PROVE Once(text, q) OBVIOUS
  <2>2. PICK s \in St : \A t \in St : s <= t /\ t < s + l BY <1>7, <1>8, <2>1
  <2>3. \A t, u \in St : t < u + l
    <3>1. \A a, t, u \in Nat : a <= u /\ t < a + l => t < u + l BY <1>1
    <3> QED BY <1>8, <2>2, <3>1
  <2>4. Holds(text, q) BY <1>3, <2>2 DEF Holds
  <2> QED BY <1>1, <1>3, <2>3, <2>4 DEF Once
<1>11. ASSUME Once(text, q) PROVE F[1] = 1
  <2>1. St # {} /\ \A s, t \in St : s < t + l BY <1>1, <1>3, <1>11 DEF Once, Holds
  <2>2. PICK s \in St : \A t \in St : s <= t
    <3>1. St \in SUBSET Nat BY <1>1, <1>4
    <3> QED BY <2>1, <3>1, HasLeast
  <2> QED BY <1>7, <1>8, <2>1, <2>2
<1>10. F[1] = 0 <=> ~Holds(text, q) BY <1>3, <1>7, <1>8 DEF Holds
<1> QED BY <1>2, <1>7, <1>9, <1>10, <1>11

-----------------------------------------------------------------------------
(* Elements and documents. *)

\* What is known of the text of an element: a quote's brackets are not in it, it ends in
\* a newline, and but for a table it has no other.
LEMMA ElementText ==
  ASSUME NEW b \in Elements
  PROVE  /\ TextOf(b) \in Seq(STRING)
         /\ \A k \in 1 .. Len(TextOf(b)) :
              /\ TextOf(b)[k] # OPEN
              /\ k = Len(TextOf(b)) => TextOf(b)[k] = Newline
              /\ b.kind # "table" /\ TextOf(b)[k] = Newline => k = Len(TextOf(b))
<1>1. PICK s \in Seq(Seq(STRING)) : s = b.rows BY PassageAssumption
<1>2. PICK n \in Nat : n = Len(s) /\ DOMAIN s = 1 .. n BY <1>1
<1>3. \A p \in 1 .. n : s[p] \in Seq(STRING) /\ Len(s[p]) \in Nat /\ DOMAIN s[p] = 1 .. Len(s[p])
  BY <1>1, <1>2, ElementOfSeq, LenProperties
<1>4. PICK f : f = FlattenSeq(s) OBVIOUS
<1>5. f \in Seq(STRING) BY <1>4, FlattenPositions
<1>6. PICK off : Offsets(s, off) /\ Laid(s, off, n, f) BY <1>2, <1>4, FlattenPositions
<1>7. /\ off \in [0 .. n -> Nat]
      /\ \A p \in 1 .. n : off[p - 1] \in Nat /\ off[p] \in Nat /\ off[p] = off[p - 1] + Len(s[p])
  <2>1. off \in [0 .. n -> Nat] /\ \A p \in 1 .. n : off[p] = off[p - 1] + Len(s[p])
    BY <1>2, <1>6 DEF Offsets
  <2>2. \A p \in 1 .. n : p \in 0 .. n /\ p - 1 \in 0 .. n BY <1>2
  <2> QED BY <2>1, <2>2
<1>8. PICK l \in Nat : l = off[n] /\ Len(f) = l
  <2>1. n \in 0 .. n BY <1>2
  <2> QED BY <1>6, <1>7, <2>1 DEF Laid
<1>9. \A p \in 1 .. n : off[p] <= l
  <2>1. \A p \in 1 .. n : p \in 0 .. n /\ n \in 0 .. n BY <1>2
  <2>2. \A p \in 1 .. n : off[p] <= off[n]
    <3>1. SUFFICES ASSUME NEW p \in 1 .. n PROVE off[p] <= off[n] OBVIOUS
    <3>2. n \in 0 .. Len(s) /\ p \in 0 .. n BY <1>2, <2>1
    <3> QED BY <1>6, <3>2, OffsetsGrow
  <2> QED BY <1>8, <2>2
<1>10. ASSUME NEW k \in 1 .. l
       PROVE  /\ f[k] # OPEN
              /\ k = l => f[k] = Newline
              /\ b.kind # "table" /\ f[k] = Newline => k = l
  <2>1. PICK p \in 1 .. n : \E j \in 1 .. Len(s[p]) : k = off[p - 1] + j BY <1>6, <1>8 DEF Laid
  <2>2. PICK m \in Nat : m = Len(s[p]) BY <1>3
  <2>3. PICK j \in 1 .. m : k = off[p - 1] + j BY <2>1, <2>2
  <2>4. f[k] = s[p][j] BY <1>6, <2>2, <2>3 DEF Laid
  <2>5. p \in DOMAIN b.rows /\ j \in DOMAIN b.rows[p] BY <1>1, <1>2, <1>3, <2>2
  <2>6. /\ s[p][j] # OPEN
        /\ j = m => s[p][j] = Newline
        /\ b.kind # "table" /\ s[p][j] = Newline => p = n /\ j = m
    BY <1>1, <1>2, <2>2, <2>5, PassageAssumption
  <2>7. off[p] = off[p - 1] + m BY <1>7, <2>2
  <2>8. k = l => j = m BY <1>7, <1>9, <2>2, <2>3, <2>7
  <2>9. p = n /\ j = m => k = l BY <1>8, <2>3, <2>7
  <2> QED BY <2>4, <2>6, <2>8, <2>9
<1> QED BY <1>1, <1>4, <1>5, <1>8, <1>10 DEF TextOf

\* The texts of the elements, that joined puts one after the other.
Texts(bs) == [i \in DOMAIN bs |-> TextOf(bs[i])]

LEMMA TextsTyped ==
  ASSUME NEW bs \in Seq(Elements)
  PROVE  /\ Len(bs) \in Nat /\ DOMAIN bs = 1 .. Len(bs)
         /\ Texts(bs) \in Seq(Seq(STRING)) /\ Len(Texts(bs)) = Len(bs)
         /\ \A i \in 1 .. Len(bs) : /\ bs[i] \in Elements /\ Texts(bs)[i] = TextOf(bs[i])
                                    /\ TextOf(bs[i]) \in Seq(STRING) /\ Len(TextOf(bs[i])) \in Nat
<1>1. PICK n \in Nat : n = Len(bs) /\ DOMAIN bs = 1 .. n OBVIOUS
<1>2. \A i \in 1 .. n : bs[i] \in Elements BY <1>1
<1>3. \A i \in 1 .. n : TextOf(bs[i]) \in Seq(STRING) BY <1>2, ElementText
<1>4. PICK t : t = [i \in 1 .. n |-> TextOf(bs[i])] OBVIOUS
<1>5. t \in [1 .. n -> Seq(STRING)] BY <1>3, <1>4
<1>6. t \in Seq(Seq(STRING)) /\ Len(t) = n BY <1>5
<1>7. \A i \in 1 .. n : Len(TextOf(bs[i])) \in Nat BY <1>3, LenProperties
<1> QED BY <1>1, <1>2, <1>3, <1>4, <1>6, <1>7 DEF Texts

\* A quote that is in a part is in the whole, at its place there.
LEMMA PartInWhole ==
  ASSUME NEW s \in Seq(Seq(STRING)), NEW off, NEW f \in Seq(STRING), Offsets(s, off), Laid(s, off, Len(s), f),
         NEW q \in Seq(STRING), Len(q) > 0, NEW p \in 1 .. Len(s), NEW i, Occurs(s[p], q, i)
  PROVE  Occurs(f, q, off[p - 1] + i)
<1>0. PICK n \in Nat, l \in Nat, e \in Nat : n = Len(s) /\ l = Len(q) /\ l > 0 /\ e = Len(f) OBVIOUS
<1>1. PICK m \in Nat, a \in Nat : /\ m = Len(s[p]) /\ a = off[p - 1]
                                  /\ e = off[n] /\ off[p] = a + m
  <2>1. s[p] \in Seq(STRING) BY ElementOfSeq
  <2>2. Len(s[p]) \in Nat BY <2>1
  <2>3. off \in [0 .. n -> Nat] /\ off[p] = off[p - 1] + Len(s[p]) BY <1>0 DEF Offsets
  <2>4. p - 1 \in 0 .. n BY <1>0
  <2>5. e = off[n] BY <1>0 DEF Laid
  <2>6. off[p - 1] \in Nat BY <2>3, <2>4
  <2> QED BY <2>2, <2>3, <2>5, <2>6
<1>2. a + m <= e
  <2>1. n \in 0 .. Len(s) /\ p \in 0 .. n BY <1>0
  <2>2. off[p] <= off[n] BY <2>1, OffsetsGrow
  <2> QED BY <1>1, <2>2
<1>3. i \in 1 .. m - l + 1 /\ \A j \in 1 .. l : s[p][i - 1 + j] = q[j] BY <1>0, <1>1 DEF Occurs
<1>4. \A k \in 1 .. m : f[a + k] = s[p][k] BY <1>1 DEF Laid
<1>5. a + i \in 1 .. e - l + 1
  <2>1. i \in Int /\ 1 <= i /\ i <= m - l + 1 BY <1>0, <1>3
  <2>2. a + m <= e BY <1>2
  <2> QED BY <1>0, <2>1, <2>2
<1>6. ASSUME NEW j \in 1 .. l PROVE f[a + i - 1 + j] = q[j]
  <2>1. i \in Int /\ 1 <= i /\ i <= m - l + 1 /\ j \in Int BY <1>0, <1>3
  <2>2. PICK k \in 1 .. m : k = i - 1 + j
    <3>1. i - 1 + j \in 1 .. m BY <1>0, <2>1
    <3> QED BY <3>1
  <2>3. a + i - 1 + j = a + k BY <2>1, <2>2
  <2> QED BY <1>3, <1>4, <2>2, <2>3
<1>7. Occurs(f, q, a + i) BY <1>0, <1>5, <1>6 DEF Occurs
<1> QED BY <1>1, <1>7

\* What one of the elements holds, the document holds.
LEMMA HeldIsHeld ==
  ASSUME NEW bs \in Seq(Elements), NEW q \in Seq(STRING), Len(q) > 0,
         NEW p \in 1 .. Len(bs), Holds(TextOf(bs[p]), q)
  PROVE  Holds(joined(bs), q)
<1>1. PICK s \in Seq(Seq(STRING)) : s = Texts(bs) /\ Len(s) = Len(bs) /\ s[p] = TextOf(bs[p])
  BY TextsTyped
<1>2. joined(bs) = FlattenSeq(s) BY <1>1 DEF joined, Texts
<1>3. PICK f \in Seq(STRING) : f = FlattenSeq(s) BY FlattenPositions
<1>4. PICK off : Offsets(s, off) /\ Laid(s, off, Len(s), f) BY <1>3, FlattenPositions
<1>5. PICK i : i \in StartsIn(s[p], q) BY <1>1 DEF Holds
<1>6. s[p] \in Seq(STRING) BY <1>1, ElementOfSeq
<1>7. Occurs(s[p], q, i) BY <1>5, <1>6, StartsAre
<1>8. p \in 1 .. Len(s) BY <1>1
<1>9. Occurs(f, q, off[p - 1] + i) BY <1>4, <1>7, <1>8, PartInWhole
<1>10. off[p - 1] + i \in StartsIn(f, q) BY <1>9, StartsAre
<1> QED BY <1>2, <1>3, <1>10 DEF Holds

\* Where a quote is in no element, in one element once, or elsewhere.
LEMMA OccurrencesTell ==
  ASSUME NEW bs \in Seq(Elements), NEW q \in Seq(STRING), Len(q) > 0
  PROVE  /\ occurrences(bs, q) \in Nat
         /\ occurrences(bs, q) = 0 <=> \A i \in 1 .. Len(bs) : ~Holds(TextOf(bs[i]), q)
         /\ occurrences(bs, q) = 1 <=>
              \E i \in 1 .. Len(bs) : /\ Once(TextOf(bs[i]), q)
                                      /\ \A j \in 1 .. Len(bs) : Holds(TextOf(bs[j]), q) => j = i
<1>1. PICK n \in Nat : n = Len(bs) BY TextsTyped
<1>2. PICK c \in [1 .. n -> Nat] : c = [i \in 1 .. n |-> count(TextOf(bs[i]), q)]
  <2>1. \A i \in 1 .. n : count(TextOf(bs[i]), q) \in Nat BY <1>1, TextsTyped, CountTells
  <2> QED BY <2>1
<1> DEFINE P(U) == U = [k \in 0 .. Len(bs) |-> IF k = 0 THEN 0 ELSE U[k - 1] + count(TextOf(bs[k]), q)]
<1>3. occurrences(bs, q) = (CHOOSE U : P(U))[Len(bs)] BY DEF occurrences
<1>4. \E U : P(U)
  <2>1. PICK step \in [1 .. n -> [Nat -> Nat]] : step = [i \in 1 .. n |-> [v \in Nat |-> v + c[i]]]
    <3>1. \A i \in 1 .. n : [v \in Nat |-> v + c[i]] \in [Nat -> Nat] OBVIOUS
    <3> QED BY <3>1
  <2>2. PICK f \in [0 .. n -> Nat] : f[0] = 0 /\ \A i \in 1 .. n : f[i] = step[i][f[i - 1]]
    <3>1. 0 \in Nat OBVIOUS
    <3>2. \E f \in [0 .. n -> Nat] : MadeBy(f, 0, n, step) BY <3>1, Iterates
    <3> QED BY <3>2 DEF MadeBy
  <2>3. \A i \in 1 .. n : f[i] = f[i - 1] + count(TextOf(bs[i]), q)
    <3>1. \A i \in 1 .. n : i - 1 \in 0 .. n BY <1>1
    <3> QED BY <1>2, <2>1, <2>2, <3>1
  <2>4. \A k \in 0 .. n : k = 0 \/ k \in 1 .. n BY <1>1
  <2>5. \A k \in 0 .. n : f[k] = IF k = 0 THEN 0 ELSE f[k - 1] + count(TextOf(bs[k]), q)
    BY <2>2, <2>3, <2>4
  <2>6. f = [k \in 0 .. n |-> f[k]] OBVIOUS
  <2>7. P(f) BY <1>1, <2>5, <2>6
  <2> QED BY <2>7
<1>5. PICK U : U = CHOOSE V : P(V) OBVIOUS
<1>6. P(U) BY <1>4, <1>5
<1>7. U[0] = 0 /\ \A k \in 1 .. n : U[k] = U[k - 1] + c[k]
  <2>1. 0 \in 0 .. n /\ \A k \in 1 .. n : k \in 0 .. n /\ k # 0 BY <1>1
  <2> QED BY <1>1, <1>2, <1>6, <2>1
<1> HIDE DEF P
<1>8. \A i \in 1 .. n : /\ c[i] \in Nat /\ (c[i] = 0 <=> ~Holds(TextOf(bs[i]), q))
                        /\ c[i] = 1 <=> Once(TextOf(bs[i]), q)
  BY <1>1, <1>2, TextsTyped, CountTells
<1> DEFINE G == {k \in 0 .. n :
                   /\ U[k] \in Nat
                   /\ U[k] = 0 <=> \A i \in 1 .. k : c[i] = 0
                   /\ U[k] = 1 <=> \E i \in 1 .. k : c[i] = 1 /\ \A j \in 1 .. k : j # i => c[j] = 0}
<1>9. 0 \in G BY <1>1, <1>7
<1>10. ASSUME NEW k \in 1 .. n, k - 1 \in G PROVE k \in G
  <2>1. PICK u \in Nat : /\ u = U[k - 1]
                         /\ u = 0 <=> \A i \in 1 .. k - 1 : c[i] = 0
                         /\ u = 1 <=> \E i \in 1 .. k - 1 : c[i] = 1 /\ \A j \in 1 .. k - 1 : j # i => c[j] = 0
    BY <1>10
  <2>2. PICK d \in Nat : d = c[k] BY <1>8
  <2>3. U[k] = u + d BY <1>7, <2>1, <2>2
  <2>4. k \in 0 .. n /\ \A i \in 1 .. k : i = k \/ i \in 1 .. k - 1 BY <1>1
  <2>5. \A i \in 1 .. k - 1 : i \in 1 .. k /\ i # k BY <1>1
  <2>6. u + d = 0 <=> u = 0 /\ d = 0 OBVIOUS
  <2>7. u + d = 1 => (u = 1 /\ d = 0) \/ (u = 0 /\ d = 1) OBVIOUS
  <2>8. U[k] = 0 <=> \A i \in 1 .. k : c[i] = 0
    <3>1. k \in 1 .. k BY <1>1
    <3> QED BY <2>1, <2>2, <2>3, <2>4, <2>5, <2>6, <3>1
  <2>9. U[k] = 1 => \E i \in 1 .. k : c[i] = 1 /\ \A j \in 1 .. k : j # i => c[j] = 0
    <3>1. CASE u = 1 /\ d = 0
      <4>1. PICK i \in 1 .. k - 1 : c[i] = 1 /\ \A j \in 1 .. k - 1 : j # i => c[j] = 0 BY <2>1, <3>1
      <4>2. \A j \in 1 .. k : j # i => c[j] = 0 BY <2>2, <2>4, <3>1, <4>1
      <4> QED BY <2>5, <4>1, <4>2
    <3>2. CASE u = 0 /\ d = 1
      <4>1. \A j \in 1 .. k : j # k => c[j] = 0 BY <2>1, <2>4, <3>2
      <4>2. k \in 1 .. k BY <1>1
      <4> QED BY <2>2, <3>2, <4>1, <4>2
    <3> QED BY <2>3, <2>7, <3>1, <3>2
  <2>10. ASSUME NEW i \in 1 .. k, c[i] = 1, \A j \in 1 .. k : j # i => c[j] = 0 PROVE U[k] = 1
    <3>1. CASE i = k
      <4>1. u = 0 BY <2>1, <2>5, <2>10, <3>1
      <4>2. d = 1 BY <2>2, <2>10, <3>1
      <4> QED BY <2>3, <4>1, <4>2
    <3>2. CASE i # k
      <4>1. i \in 1 .. k - 1 BY <2>4, <3>2
      <4>2. u = 1 BY <2>1, <2>5, <2>10, <4>1
      <4>3. k \in 1 .. k BY <1>1
      <4>4. d = 0 BY <2>2, <2>10, <3>2, <4>3
      <4> QED BY <2>3, <4>2, <4>4
    <3> QED BY <3>1, <3>2
  <2>11. U[k] \in Nat BY <2>3
  <2>12. U[k] = 1 <=> \E i \in 1 .. k : c[i] = 1 /\ \A j \in 1 .. k : j # i => c[j] = 0
    BY <2>9, <2>10
  <2> QED BY <2>4, <2>8, <2>11, <2>12
<1> HIDE DEF G
<1>11. 0 .. n \subseteq G BY <1>9, <1>10, UpTo
<1>12. n \in G BY <1>11
<1>13. occurrences(bs, q) = U[n] BY <1>1, <1>3, <1>5
<1>14. \A i \in 1 .. n : Holds(TextOf(bs[i]), q) => c[i] # 0 BY <1>8
<1>15. U[n] = 1 <=> \E i \in 1 .. n : c[i] = 1 /\ \A j \in 1 .. n : j # i => c[j] = 0 BY <1>12 DEF G
<1>16. U[n] = 1 => \E i \in 1 .. n : /\ Once(TextOf(bs[i]), q)
                                     /\ \A j \in 1 .. n : Holds(TextOf(bs[j]), q) => j = i
  BY <1>8, <1>14, <1>15
<1>17. U[n] \in Nat /\ (U[n] = 0 <=> \A i \in 1 .. n : c[i] = 0) BY <1>12 DEF G
<1>18. ASSUME NEW i \in 1 .. n, Once(TextOf(bs[i]), q),
              \A j \in 1 .. n : Holds(TextOf(bs[j]), q) => j = i
       PROVE  U[n] = 1
  <2>1. c[i] = 1 BY <1>8, <1>18
  <2>2. \A j \in 1 .. n : j # i => c[j] = 0 BY <1>8, <1>18
  <2> QED BY <1>15, <2>1, <2>2
<1> QED BY <1>1, <1>8, <1>13, <1>16, <1>17, <1>18

-----------------------------------------------------------------------------
(* The headings above an element. *)

Members(p) == {p[i] : i \in DOMAIN p}

LEMMA OneMore ==
  ASSUME NEW p \in Seq(Nat), NEW x \in Nat
  PROVE  p \o <<x>> \in Seq(Nat) /\ Members(p \o <<x>>) = Members(p) \cup {x}
<1>1. PICK n \in Nat : n = Len(p) /\ DOMAIN p = 1 .. n OBVIOUS
<1>2. <<x>> \in Seq(Nat) /\ Len(<<x>>) = 1 /\ <<x>>[1] = x OBVIOUS
<1>3. PICK r : r = p \o <<x>> OBVIOUS
<1>4. /\ r \in Seq(Nat) /\ Len(r) = n + 1
      /\ \A i \in 1 .. n + 1 : r[i] = IF i <= n THEN p[i] ELSE <<x>>[i - n]
  BY <1>1, <1>2, <1>3, ConcatProperties
<1>5. DOMAIN r = 1 .. n + 1 BY <1>4
<1>6. r[n + 1] = x /\ \A i \in 1 .. n : r[i] = p[i]
  <2>1. n + 1 \in 1 .. n + 1 /\ ~(n + 1 <= n) /\ (n + 1) - n = 1 BY <1>1
  <2>2. \A i \in 1 .. n : i \in 1 .. n + 1 /\ i <= n BY <1>1
  <2> QED BY <1>2, <1>4, <2>1, <2>2
<1>7. \A i \in 1 .. n + 1 : i \in 1 .. n \/ i = n + 1 BY <1>1
<1>8. n + 1 \in 1 .. n + 1 /\ \A i \in 1 .. n : i \in 1 .. n + 1 BY <1>1
<1>9. \A y : (\E i \in 1 .. n + 1 : y = r[i]) <=> ((\E i \in 1 .. n : y = p[i]) \/ y = x)
  BY <1>6, <1>7, <1>8
<1>10. \A y : y \in Members(r) <=> y \in Members(p) \/ y = x BY <1>1, <1>5, <1>9 DEF Members
<1> QED BY <1>3, <1>4, <1>10

\* The headings down to an element that are more senior than a level and that no later
\* one equals or outranks.
Governing(bs, at, seen) ==
  {i \in 1 .. at : /\ is_heading(bs[i]) /\ bs[i].level < seen
                   /\ \A j \in 1 .. at : j > i /\ is_heading(bs[j]) => bs[j].level > bs[i].level}

\* One element more, seen from the paths above it.
OneElement(b, i, prev) ==
  [seen \in 0 .. NotAHeading |->
     IF is_heading(b) /\ more_senior(b.level, seen)
       THEN (IF b.level = 0 THEN <<>> ELSE prev[b.level]) \o <<i>>
       ELSE prev[seen]]

Paths == [0 .. NotAHeading -> Seq(Nat)]

LEMMA OneElementTyped ==
  ASSUME NEW b \in Elements, NEW i \in Nat, NEW prev \in Paths
  PROVE  OneElement(b, i, prev) \in Paths
<1>1. b.level \in 0 .. NotAHeading BY PassageAssumption
<1>2. <<>> \in Seq(Nat) OBVIOUS
<1>3. prev[b.level] \in Seq(Nat) BY <1>1 DEF Paths
<1>4. \A p \in Seq(Nat) : p \o <<i>> \in Seq(Nat) BY OneMore
<1>5. (IF b.level = 0 THEN <<>> ELSE prev[b.level]) \o <<i>> \in Seq(Nat) BY <1>2, <1>3, <1>4
<1> QED BY <1>5 DEF OneElement, Paths

\* The headings that govern an element are, after a heading, itself and those above it
\* that outrank it.
LEMMA GoverningGrows ==
  ASSUME NEW bs \in Seq(Elements), NEW i \in 1 .. Len(bs), NEW seen \in 0 .. NotAHeading
  PROVE  Governing(bs, i, seen) =
           IF is_heading(bs[i]) /\ bs[i].level < seen
             THEN (IF bs[i].level = 0 THEN {} ELSE Governing(bs, i - 1, bs[i].level)) \cup {i}
             ELSE Governing(bs, i - 1, seen)
<1>1. PICK n \in Nat : n = Len(bs) /\ DOMAIN bs = 1 .. n OBVIOUS
<1>2. NotAHeading \in Nat BY DEF NotAHeading
<1>3. \A j \in 1 .. n : bs[j].level \in Nat
  <2>1. \A j \in 1 .. n : bs[j] \in Elements BY <1>1
  <2>2. \A e \in Elements : e.level \in 0 .. NotAHeading BY PassageAssumption
  <2>3. \A k \in 0 .. NotAHeading : k \in Nat BY <1>2
  <2> QED BY <2>1, <2>2, <2>3
<1>4a. PICK h \in [1 .. n -> Nat] : h = [j \in 1 .. n |-> IF is_heading(bs[j]) THEN 1 ELSE 0]
  <2>1. [j \in 1 .. n |-> IF is_heading(bs[j]) THEN 1 ELSE 0] \in [1 .. n -> Nat] OBVIOUS
  <2> QED BY <2>1
<1>4b. PICK lev \in [1 .. n -> Nat] : lev = [j \in 1 .. n |-> bs[j].level]
  <2>1. [j \in 1 .. n |-> bs[j].level] \in [1 .. n -> Nat] BY <1>3
  <2> QED BY <2>1
<1>4. \A j \in 1 .. n : (h[j] = 1 <=> is_heading(bs[j])) /\ lev[j] = bs[j].level BY <1>4a, <1>4b
<1> DEFINE Gov(m, s, j) == /\ j \in 1 .. m /\ h[j] = 1 /\ lev[j] < s
                           /\ \A k \in 1 .. m : k > j /\ h[k] = 1 => lev[k] > lev[j]
<1>5. ASSUME NEW m \in 0 .. n, NEW s, NEW j PROVE j \in Governing(bs, m, s) <=> Gov(m, s, j)
  <2>1. \A k \in 1 .. m : k \in 1 .. n BY <1>1
  <2> QED BY <1>4, <2>1 DEF Governing
<1>6. i \in 1 .. n /\ i \in Nat /\ i - 1 \in 0 .. n /\ i \in 0 .. n BY <1>1
<1>7. seen \in Nat BY <1>2
<1>8. \A j \in 1 .. i : j = i \/ j \in 1 .. i - 1 BY <1>6
<1>9. \A j \in 1 .. i - 1 : j \in 1 .. i /\ j # i /\ i > j /\ j \in 1 .. n BY <1>6
<1>10. i \in 1 .. i /\ i \notin 1 .. i - 1 /\ \A j \in 1 .. i : ~(j > i) BY <1>6
<1>11. lev[i] \in Nat /\ \A j \in 1 .. i - 1 : lev[j] \in Nat BY <1>6, <1>9
<1>12. CASE ~ (h[i] = 1)
  <2>1. \A j : Gov(i, seen, j) <=> Gov(i - 1, seen, j) BY <1>8, <1>9, <1>12
  <2>2. \A j : j \in Governing(bs, i, seen) <=> j \in Governing(bs, i - 1, seen) BY <1>5, <1>6, <2>1
  <2>3. ~is_heading(bs[i]) BY <1>4, <1>6, <1>12
  <2> QED BY <2>2, <2>3
<1>13. CASE h[i] = 1 /\ ~ (lev[i] < seen)
  <2>1. \A j \in 1 .. i - 1 : lev[j] < seen => lev[i] > lev[j] BY <1>7, <1>11, <1>13
  <2>2. \A j : Gov(i, seen, j) <=> Gov(i - 1, seen, j) BY <1>8, <1>9, <1>13, <2>1
  <2>3. \A j : j \in Governing(bs, i, seen) <=> j \in Governing(bs, i - 1, seen) BY <1>5, <1>6, <2>2
  <2>4. ~(bs[i].level < seen) BY <1>4, <1>6, <1>13
  <2> QED BY <2>3, <2>4
<1>14. CASE h[i] = 1 /\ lev[i] < seen
  <2>1. \A j \in 1 .. i - 1 : (lev[i] > lev[j] <=> lev[j] < lev[i]) /\ (lev[j] < lev[i] => lev[j] < seen)
    BY <1>7, <1>11, <1>14
  <2>2. \A j \in 1 .. i - 1 : Gov(i, seen, j) <=> Gov(i - 1, lev[i], j) BY <1>8, <1>9, <1>14, <2>1
  <2>3. Gov(i, seen, i) BY <1>10, <1>14
  <2>4. \A j : Gov(i, seen, j) <=> Gov(i - 1, lev[i], j) \/ j = i BY <1>8, <2>2, <2>3
  <2>5. \A j : j \in Governing(bs, i, seen) <=> j \in Governing(bs, i - 1, lev[i]) \/ j = i
    BY <1>5, <1>6, <2>4
  <2>6. is_heading(bs[i]) /\ bs[i].level < seen /\ lev[i] = bs[i].level BY <1>4, <1>6, <1>14
  <2>7. lev[i] = 0 => \A j : ~ Gov(i - 1, lev[i], j) BY <1>11
  <2>8. lev[i] = 0 => Governing(bs, i - 1, lev[i]) = {} BY <1>5, <1>6, <2>7
  <2> QED BY <2>5, <2>6, <2>8
<1> QED BY <1>12, <1>13, <1>14

\* The path of an element names the headings that govern it.
LEMMA PathGoverns ==
  ASSUME NEW bs \in Seq(Elements), NEW at \in 1 .. Len(bs)
  PROVE  Members(heading_path(bs, at)) = Governing(bs, at, NotAHeading)
<1>1. PICK n \in Nat : n = Len(bs) /\ DOMAIN bs = 1 .. n /\ at \in 1 .. n /\ at \in Nat OBVIOUS
<1>2. NotAHeading \in Nat BY DEF NotAHeading
<1> DEFINE P(F) == F = [i \in 0 .. at |->
               [seen \in 0 .. NotAHeading |->
                  IF i = 0 THEN <<>>
                  ELSE IF is_heading(bs[i]) /\ more_senior(bs[i].level, seen)
                         THEN (IF bs[i].level = 0 THEN <<>> ELSE F[i - 1][bs[i].level]) \o <<i>>
                         ELSE F[i - 1][seen]]]
           None == [seen \in 0 .. NotAHeading |-> <<>>]
<1>3. heading_path(bs, at) = (CHOOSE F : P(F))[at][NotAHeading] BY DEF heading_path
<1>4. \A i \in 1 .. at : i \in 1 .. n /\ i \in Nat /\ i # 0 /\ i \in 0 .. at /\ i - 1 \in 0 .. at BY <1>1
<1>5. \A i \in 1 .. at : bs[i] \in Elements BY <1>1, <1>4
<1>6. None \in Paths BY DEF Paths
<1>7. \E F : P(F)
  <2>1. PICK step \in [1 .. at -> [Paths -> Paths]] :
          \A i \in 1 .. at : \A v \in Paths : step[i][v] = OneElement(bs[i], i, v)
    <3>1. \A i \in 1 .. at : \A v \in Paths : OneElement(bs[i], i, v) \in Paths
      BY <1>4, <1>5, OneElementTyped
    <3>2. PICK step : step = [i \in 1 .. at |-> [v \in Paths |-> OneElement(bs[i], i, v)]] OBVIOUS
    <3>3. \A i \in 1 .. at : [v \in Paths |-> OneElement(bs[i], i, v)] \in [Paths -> Paths] BY <3>1
    <3>4. step \in [1 .. at -> [Paths -> Paths]] BY <3>2, <3>3
    <3>5. \A i \in 1 .. at : \A v \in Paths : step[i][v] = OneElement(bs[i], i, v) BY <3>2
    <3> QED BY <3>4, <3>5
  <2>2. PICK F \in [0 .. at -> Paths] : F[0] = None /\ \A i \in 1 .. at : F[i] = step[i][F[i - 1]]
    <3> HIDE DEF None
    <3>1. \E F \in [0 .. at -> Paths] : MadeBy(F, None, at, step) BY <1>1, <1>6, Iterates
    <3> QED BY <3>1 DEF MadeBy
  <2>3. \A i \in 1 .. at : F[i] = OneElement(bs[i], i, F[i - 1]) BY <1>4, <2>1, <2>2
  <2>4. \A i \in 0 .. at : i = 0 \/ i \in 1 .. at BY <1>1
  <2>5. \A i \in 0 .. at :
          F[i] = [seen \in 0 .. NotAHeading |->
                    IF i = 0 THEN <<>>
                    ELSE IF is_heading(bs[i]) /\ more_senior(bs[i].level, seen)
                           THEN (IF bs[i].level = 0 THEN <<>> ELSE F[i - 1][bs[i].level]) \o <<i>>
                           ELSE F[i - 1][seen]]
    <3>1. SUFFICES ASSUME NEW i \in 0 .. at
                   PROVE F[i] = [seen \in 0 .. NotAHeading |->
                    IF i = 0 THEN <<>>
                    ELSE IF is_heading(bs[i]) /\ more_senior(bs[i].level, seen)
                           THEN (IF bs[i].level = 0 THEN <<>> ELSE F[i - 1][bs[i].level]) \o <<i>>
                           ELSE F[i - 1][seen]]
      OBVIOUS
    <3>2. CASE i = 0 BY <2>2, <3>2
    <3>3. CASE i \in 1 .. at BY <1>4, <2>3, <3>3 DEF OneElement
    <3> QED BY <2>4, <3>2, <3>3
  <2>6. F = [i \in 0 .. at |-> F[i]] OBVIOUS
  <2>7. P(F) BY <2>5, <2>6
  <2> QED BY <2>7
<1>8. PICK F : F = CHOOSE G : P(G) OBVIOUS
<1>9. P(F) BY <1>7, <1>8
<1>10. /\ F[0] = None
       /\ \A i \in 1 .. at : F[i] = OneElement(bs[i], i, F[i - 1])
  <2>1. 0 \in 0 .. at BY <1>1
  <2>2. F[0] = None BY <1>9, <2>1
  <2>3. \A i \in 1 .. at : F[i] = OneElement(bs[i], i, F[i - 1]) BY <1>4, <1>9 DEF OneElement
  <2> QED BY <2>2, <2>3
<1> HIDE DEF P
<1> DEFINE Is(i, v) == \A seen \in 0 .. NotAHeading : Members(v[seen]) = Governing(bs, i, seen)
           Good == {i \in 0 .. at : F[i] \in Paths /\ Is(i, F[i])}
<1>11. 0 \in Good
  <2>1. \A seen : Governing(bs, 0, seen) = {} BY DEF Governing
  <2>2. Members(<<>>) = {} BY DEF Members
  <2>3. 0 \in 0 .. at BY <1>1
  <2> QED BY <1>6, <1>10, <2>1, <2>2, <2>3
<1>12. ASSUME NEW i \in 1 .. at, i - 1 \in Good PROVE i \in Good
  <2>1. PICK v : v = F[i - 1] OBVIOUS
  <2>2. v \in Paths /\ Is(i - 1, v) BY <1>12, <2>1
  <2>3. PICK w : w = OneElement(bs[i], i, v) OBVIOUS
  <2>4. F[i] = w BY <1>10, <2>1, <2>3
  <2>5. w \in Paths BY <1>4, <1>5, <2>2, <2>3, OneElementTyped
  <2>6. PICK l \in 0 .. NotAHeading : l = bs[i].level BY <1>5, PassageAssumption
  <2>7. ASSUME NEW seen \in 0 .. NotAHeading PROVE Members(w[seen]) = Governing(bs, i, seen)
    <3>1. i \in 1 .. Len(bs) /\ i \in Nat BY <1>1, <1>4
    <3>2. Governing(bs, i, seen) =
           IF is_heading(bs[i]) /\ l < seen
             THEN (IF l = 0 THEN {} ELSE Governing(bs, i - 1, l)) \cup {i}
             ELSE Governing(bs, i - 1, seen)
      BY <2>6, <3>1, GoverningGrows
    <3>3. w[seen] = IF is_heading(bs[i]) /\ l < seen
                      THEN (IF l = 0 THEN <<>> ELSE v[l]) \o <<i>> ELSE v[seen]
      BY <2>3, <2>6 DEF OneElement, more_senior
    <3>4. v[l] \in Seq(Nat) /\ <<>> \in Seq(Nat) BY <2>2 DEF Paths
    <3>5. Members(v[l]) = Governing(bs, i - 1, l) /\ Members(v[seen]) = Governing(bs, i - 1, seen)
      BY <2>2
    <3>6. Members(<<>>) = {} BY DEF Members
    <3>7. \A p \in Seq(Nat) : Members(p \o <<i>>) = Members(p) \cup {i} BY <3>1, OneMore
    <3>8. Members((IF l = 0 THEN <<>> ELSE v[l]) \o <<i>>) = (IF l = 0 THEN {} ELSE Governing(bs, i - 1, l)) \cup {i}
      BY <3>4, <3>5, <3>6, <3>7
    <3> QED BY <3>2, <3>3, <3>5, <3>8
  <2>8. i \in 0 .. at BY <1>4
  <2> QED BY <2>4, <2>5, <2>7, <2>8
<1> HIDE DEF Good
<1>13. 0 .. at \subseteq Good BY <1>1, <1>11, <1>12, UpTo
<1>14. at \in Good /\ NotAHeading \in 0 .. NotAHeading BY <1>1, <1>2, <1>13
<1>15. Is(at, F[at]) BY <1>14 DEF Good
<1> QED BY <1>3, <1>8, <1>14, <1>15

-----------------------------------------------------------------------------
(* The mark. *)

\* A text has none of the brackets.
Unmarked(text) == \A k \in 1 .. Len(text) : text[k] # OPEN

\* The place of the mark.
Mark(passage) == SelectInSeq(passage, LAMBDA w : w = OPEN)

\* What MarkedInPlace says of a passage and of the text its quote was found in.
InPlace(passage, text, q) ==
  LET mark == Mark(passage)
      start == Min(StartsIn(text, q))
      after == mark + Len(q) + 2
  IN  /\ mark # 0 /\ mark >= start
      /\ SubSeq(passage, mark - start + 1, mark - 1) = SubSeq(text, 1, start - 1)
      /\ SubSeq(passage, after, after + Len(text) - start - Len(q))
           = SubSeq(text, start + Len(q), Len(text))

\* The same of a passage that may have been cut.
KeptInPlace(passage, text, q, cut) ==
  LET mark == Mark(passage)
      start == Min(StartsIn(text, q))
      after == mark + Len(q) + 2
  IN  /\ mark # 0 \/ cut
      /\ mark # 0 =>
           mark >= start /\ SubSeq(passage, mark - start + 1, mark - 1) = SubSeq(text, 1, start - 1)
      /\ ~cut => SubSeq(passage, after, after + Len(text) - start - Len(q))
                   = SubSeq(text, start + Len(q), Len(text))

\* A stretch of a text.
LEMMA CutOut ==
  ASSUME NEW S, NEW t \in Seq(S), NEW i \in Int, NEW j \in Int, 1 <= i, i <= j + 1, j <= Len(t)
  PROVE  /\ SubSeq(t, i, j) \in Seq(S) /\ Len(SubSeq(t, i, j)) = j - i + 1
         /\ \A k \in 1 .. j - i + 1 : SubSeq(t, i, j)[k] = t[i + k - 1]
<1>1. PICK n \in Nat : n = Len(t) OBVIOUS
<1>2. \A k \in 1 .. n : t[k] \in S BY <1>1, ElementOfSeq
<1>3. \A k \in i .. j : k \in 1 .. n BY <1>1
<1>4. \A k \in i .. j : t[k] \in S BY <1>2, <1>3
<1>5. /\ SubSeq(t, i, j) \in Seq(S)
      /\ Len(SubSeq(t, i, j)) = IF i <= j THEN j - i + 1 ELSE 0
      /\ \A k \in 1 .. j - i + 1 : SubSeq(t, i, j)[k] = t[i + k - 1]
  BY <1>4, SubSeqProperties
<1>6. ~(i <= j) => j - i + 1 = 0 OBVIOUS
<1> QED BY <1>5, <1>6

\* A text of one word.
LEMMA OneWord ==
  ASSUME NEW S, NEW v \in S
  PROVE  <<v>> \in Seq(S) /\ Len(<<v>>) = 1 /\ <<v>>[1] = v
  OBVIOUS

\* Words of one text and then of another.
BothIn(c, a, m, b, n) ==
  /\ Len(c) = m + n
  /\ \A k \in 1 .. m : c[k] = a[k]
  /\ \A k \in 1 .. n : c[m + k] = b[k]

\* A text after another.
LEMMA After ==
  ASSUME NEW S, NEW a \in Seq(S), NEW b \in Seq(S), NEW m \in Nat, NEW n \in Nat, Len(a) = m, Len(b) = n
  PROVE  a \o b \in Seq(S) /\ BothIn(a \o b, a, m, b, n)
<1>1. /\ a \o b \in Seq(S) /\ Len(a \o b) = m + n
      /\ \A k \in 1 .. m + n : (a \o b)[k] = IF k <= m THEN a[k] ELSE b[k - m]
  BY ConcatProperties
<1>2. \A k \in 1 .. m : k \in 1 .. m + n /\ k <= m OBVIOUS
<1>3. \A k \in 1 .. n : m + k \in 1 .. m + n /\ ~(m + k <= m) /\ (m + k) - m = k OBVIOUS
<1> QED BY <1>1, <1>2, <1>3 DEF BothIn

\* The words of a marked text.
Word == STRING \cup {OPEN, CLOSE, TRUNCATED}

LEMMA OfWords ==
  ASSUME NEW t \in Seq(STRING)
  PROVE  t \in Seq(Word)
<1>1. PICK m \in Nat : m = Len(t) OBVIOUS
<1>2. \A k \in 1 .. m : t[k] \in Word BY <1>1, ElementOfSeq DEF Word
<1>3. t = [k \in 1 .. m |-> t[k]] BY <1>1
<1>4. [k \in 1 .. m |-> t[k]] \in Seq(Word) BY <1>2
<1> QED BY <1>3, <1>4

\* Where the words of a marked text are: those before the mark where they were, those
\* after it two further.
LEMMA Delimited ==
  ASSUME NEW text \in Seq(STRING), Unmarked(text), NEW q \in Seq(STRING), Len(q) > 0, Holds(text, q)
  PROVE  LET i == Min(StartsIn(text, q))
             d == delimit(text, q)
         IN  /\ d \in Seq(Word) /\ Len(d) = Len(text) + 2
             /\ Mark(d) = i
             /\ \A k \in 1 .. i - 1 : d[k] = text[k]
             /\ \A k \in i + Len(q) .. Len(text) : d[k + 2] = text[k]
<1>1. PICK n \in Nat, l \in Nat : n = Len(text) /\ l = Len(q) /\ l > 0 OBVIOUS
<1>2. PICK i \in StartsIn(text, q) : i = Min(StartsIn(text, q)) BY FirstStart
<1>3. i \in 1 .. n - l + 1 BY <1>1, <1>2 DEF StartsIn
<1>4. i \in Nat /\ i >= 1 /\ i + l <= n + 1 BY <1>1, <1>3
<1>5. PICK x \in Nat, y \in Nat : x = i - 1 /\ y = n - (i + l) + 1
  <2>1. i - 1 \in Nat /\ n - (i + l) + 1 \in Nat BY <1>1, <1>4
  <2> QED BY <2>1
<1>6. PICK a : a = SubSeq(text, 1, i - 1) OBVIOUS
<1>7. a \in Seq(STRING) /\ Len(a) = x /\ \A k \in 1 .. x : a[k] = text[k]
  <2>1. i - 1 \in Int /\ 1 <= (i - 1) + 1 /\ i - 1 <= Len(text) /\ (i - 1) - 1 + 1 = x
    BY <1>1, <1>4, <1>5
  <2>2. a \in Seq(STRING) /\ Len(a) = x /\ \A k \in 1 .. x : a[k] = text[1 + k - 1]
    BY <1>6, <2>1, CutOut
  <2>3. \A k \in 1 .. x : 1 + k - 1 = k OBVIOUS
  <2> QED BY <2>2, <2>3
<1>8. PICK z : z = SubSeq(text, i + l, n) OBVIOUS
<1>9. z \in Seq(STRING) /\ Len(z) = y /\ \A k \in 1 .. y : z[k] = text[i + l + k - 1]
  <2>1. i + l \in Int /\ n \in Int /\ 1 <= i + l /\ i + l <= n + 1 /\ n <= Len(text) BY <1>1, <1>4
  <2>2. /\ z \in Seq(STRING) /\ Len(z) = n - (i + l) + 1
        /\ \A k \in 1 .. n - (i + l) + 1 : z[k] = text[(i + l) + k - 1]
    BY <1>8, <2>1, CutOut
  <2> QED BY <1>5, <2>2
<1>10. PICK o : o = <<OPEN>> OBVIOUS
<1>11. o \in Seq(Word) /\ Len(o) = 1 /\ o[1] = OPEN
  <2>1. OPEN \in Word BY DEF Word
  <2> QED BY <1>10, <2>1, OneWord
<1>12. PICK c : c = <<CLOSE>> OBVIOUS
<1>13. c \in Seq(Word) /\ Len(c) = 1
  <2>1. CLOSE \in Word BY DEF Word
  <2> QED BY <1>12, <2>1, OneWord
<1>0. a \in Seq(Word) /\ q \in Seq(Word) /\ z \in Seq(Word)
  BY <1>7, <1>9, OfWords
<1>14. PICK d : d = delimit(text, q) OBVIOUS
<1>15. d = ((((a \o o) \o q) \o c) \o z)
  BY <1>1, <1>2, <1>6, <1>8, <1>10, <1>12, <1>14 DEF delimit
<1>16. PICK p : p = a \o o OBVIOUS
<1>17. p \in Seq(Word) /\ Len(p) = x + 1 /\ (\A k \in 1 .. x : p[k] = a[k]) /\ p[x + 1] = OPEN
  <2>1. 1 \in Nat /\ 1 \in 1 .. 1 OBVIOUS
  <2>2. p \in Seq(Word) /\ BothIn(p, a, x, o, 1) BY <1>0, <1>7, <1>11, <1>16, <2>1, After
  <2> QED BY <1>11, <2>1, <2>2 DEF BothIn
<1>18. PICK r : r = p \o q OBVIOUS
<1>19. r \in Seq(Word) /\ Len(r) = (x + 1) + l /\ \A k \in 1 .. x + 1 : r[k] = p[k]
  <2>1. x + 1 \in Nat OBVIOUS
  <2>2. r \in Seq(Word) /\ BothIn(r, p, x + 1, q, l) BY <1>0, <1>1, <1>17, <1>18, <2>1, After
  <2> QED BY <2>2 DEF BothIn
<1>20. PICK u : u = r \o c OBVIOUS
<1>21. u \in Seq(Word) /\ Len(u) = ((x + 1) + l) + 1 /\ \A k \in 1 .. (x + 1) + l : u[k] = r[k]
  <2>1. (x + 1) + l \in Nat /\ 1 \in Nat OBVIOUS
  <2>2. u \in Seq(Word) /\ BothIn(u, r, (x + 1) + l, c, 1) BY <1>13, <1>19, <1>20, <2>1, After
  <2> QED BY <2>2 DEF BothIn
<1>22. PICK w \in Nat : w = ((x + 1) + l) + 1 OBVIOUS
<1>23. /\ d \in Seq(Word) /\ Len(d) = w + y /\ \A k \in 1 .. w : d[k] = u[k]
       /\ \A k \in 1 .. y : d[w + k] = z[k]
  <2>1. d = u \o z BY <1>15, <1>16, <1>18, <1>20
  <2>2. d \in Seq(Word) /\ BothIn(d, u, w, z, y) BY <1>0, <1>9, <1>21, <1>22, <2>1, After
  <2> QED BY <2>2 DEF BothIn
<1>24. \A k \in 1 .. x + 1 : d[k] = p[k]
  <2>1. \A k \in 1 .. x + 1 : k \in 1 .. (x + 1) + l /\ k \in 1 .. w BY <1>22
  <2> QED BY <1>19, <1>21, <1>23, <2>1
<1>25. Len(d) = n + 2 BY <1>1, <1>4, <1>5, <1>22, <1>23
<1>26. \A k \in 1 .. i - 1 : d[k] = text[k]
  <2>1. \A k \in 1 .. i - 1 : k \in 1 .. x + 1 /\ k \in 1 .. x BY <1>4, <1>5
  <2> QED BY <1>7, <1>17, <1>24, <2>1
<1>27. d[i] = OPEN
  <2>1. i \in 1 .. x + 1 /\ i = x + 1 BY <1>4, <1>5
  <2> QED BY <1>17, <1>24, <2>1
<1>28. \A k \in i + l .. n : d[k + 2] = text[k]
  <2>1. SUFFICES ASSUME NEW k \in i + l .. n PROVE d[k + 2] = text[k] OBVIOUS
  <2>2. k - (i + l) + 1 \in 1 .. y BY <1>1, <1>4, <1>5
  <2>3. PICK j \in 1 .. y : j = k - (i + l) + 1 BY <2>2
  <2>4. w + j = k + 2 /\ i + l + j - 1 = k BY <1>1, <1>4, <1>5, <1>22, <2>3
  <2> QED BY <1>9, <1>23, <2>4
<1>29. Mark(d) = i
  <2> DEFINE I == {k \in 1 .. Len(d) : d[k] = OPEN}
  <2>1. Mark(d) = IF I # {} THEN Min(I) ELSE 0 BY DEF SelectInSeq, Mark
  <2>2. i \in I BY <1>1, <1>4, <1>25, <1>27
  <2>3. \A k \in I : k \in Nat /\ i <= k
    <3>1. \A k \in I : k \in 1 .. n + 2 BY <1>25
    <3>2. \A k \in 1 .. n + 2 : k < i => k \in 1 .. i - 1 /\ k \in 1 .. n BY <1>1, <1>4
    <3>3. \A k \in I : ~(k < i) BY <1>1, <1>26, <3>1, <3>2 DEF Unmarked
    <3> QED BY <1>1, <1>4, <3>1, <3>3
  <2>4. \A v \in I : (\A k \in I : v <= k) => v = i BY <1>4, <2>2, <2>3
  <2> HIDE DEF I
  <2>5. Min(I) = i BY <2>2, <2>3, <2>4 DEF Min
  <2> QED BY <2>1, <2>2, <2>5
<1> QED BY <1>1, <1>2, <1>14, <1>23, <1>25, <1>26, <1>28, <1>29

\* The same words from two places on.
SameWords(t, i, u, p, m) == \A k \in 0 .. m : t[i + k] = u[p + k]

Alike(S, t, i, j, u, p, r) == t \in Seq(S) /\ u \in Seq(S) /\ SubSeq(t, i, j) = SubSeq(u, p, r)

\* Two stretches with the same words.
LEMMA SameStretch ==
  ASSUME NEW S, NEW t \in Seq(S), NEW u \in Seq(S), NEW i \in Int, NEW j \in Int, NEW p \in Int, NEW r \in Int,
         1 <= i, i <= j + 1, j <= Len(t), 1 <= p, p <= r + 1, r <= Len(u), j - i = r - p,
         SameWords(t, i, u, p, j - i)
  PROVE  Alike(S, t, i, j, u, p, r)
<1>1. PICK x : x = SubSeq(t, i, j) OBVIOUS
<1>2. PICK y : y = SubSeq(u, p, r) OBVIOUS
<1>3. PICK m \in Nat : m = j - i + 1
  <2>1. j - i + 1 \in Nat OBVIOUS
  <2> QED BY <2>1
<1>4. x \in Seq(S) /\ Len(x) = m /\ \A k \in 1 .. m : x[k] = t[i + k - 1] BY <1>1, <1>3, CutOut
<1>5. y \in Seq(S) /\ Len(y) = m /\ \A k \in 1 .. m : y[k] = u[p + k - 1]
  <2>1. r - p + 1 = m BY <1>3
  <2> QED BY <1>2, <2>1, CutOut
<1>6. \A k \in 1 .. m : x[k] = y[k]
  <2>1. SUFFICES ASSUME NEW k \in 1 .. m PROVE x[k] = y[k] OBVIOUS
  <2>2. k - 1 \in 0 .. j - i BY <1>3
  <2>3. i + (k - 1) = i + k - 1 /\ p + (k - 1) = p + k - 1 OBVIOUS
  <2>4. t[i + (k - 1)] = u[p + (k - 1)] BY <2>2 DEF SameWords
  <2> QED BY <1>4, <1>5, <2>3, <2>4
<1>7. x = y BY <1>4, <1>5, <1>6, SeqEqual
<1> QED BY <1>1, <1>2, <1>7 DEF Alike

\* Around what holds the quote nothing changes that, if the quote does not stand before.
LEMMA MarkStands ==
  ASSUME NEW text \in Seq(STRING), Unmarked(text), NEW part \in Seq(STRING),
         NEW q \in Seq(STRING), Len(q) > 0, Holds(part, q),
         NEW a \in Nat, a + Len(part) <= Len(text), \A k \in 1 .. Len(part) : text[a + k] = part[k],
         \A t \in StartsIn(text, q) : t >= a + Min(StartsIn(part, q))
  PROVE  Holds(text, q) /\ InPlace(delimit(text, q), part, q)
<1>1. PICK n \in Nat, l \in Nat, m \in Nat : n = Len(text) /\ l = Len(q) /\ l > 0 /\ m = Len(part) OBVIOUS
<1>2. PICK s \in StartsIn(part, q) : s = Min(StartsIn(part, q)) BY FirstStart
<1>3. Occurs(part, q, s) BY StartsAre
<1>4. s \in 1 .. m - l + 1 /\ \A j \in 1 .. l : part[s - 1 + j] = q[j] BY <1>1, <1>3 DEF Occurs
<1>5. s \in Nat /\ s >= 1 /\ s + l <= m + 1 BY <1>1, <1>4
<1>6. a + m <= n /\ \A k \in 1 .. m : text[a + k] = part[k] BY <1>1
<1>7. PICK i \in Nat : i = a + s BY <1>5
<1>8. i \in StartsIn(text, q)
  <2>1. i \in 1 .. n - l + 1 BY <1>1, <1>5, <1>6, <1>7
  <2>2. ASSUME NEW j \in 1 .. l PROVE text[i - 1 + j] = q[j]
    <3>1. s - 1 + j \in 1 .. m /\ a + (s - 1 + j) = i - 1 + j BY <1>1, <1>5, <1>7
    <3>2. text[a + (s - 1 + j)] = part[s - 1 + j] BY <1>6, <3>1
    <3> QED BY <1>4, <3>1, <3>2
  <2>3. Occurs(text, q, i) BY <1>1, <2>1, <2>2 DEF Occurs
  <2> QED BY <2>3, StartsAre
<1>9. Holds(text, q) BY <1>8 DEF Holds
<1>10. Min(StartsIn(text, q)) = i
  <2>1. PICK g \in Nat : g = Min(StartsIn(text, q)) /\ g \in StartsIn(text, q) /\ \A t \in StartsIn(text, q) : g <= t
    BY <1>9, FirstStart
  <2>2. g >= a + s BY <1>2, <2>1
  <2>3. g <= i BY <1>8, <2>1
  <2>4. PICK h \in Nat : h = g /\ h >= i /\ h <= i BY <1>7, <2>1, <2>2, <2>3
  <2>5. h = i BY <2>4
  <2> QED BY <2>1, <2>4, <2>5
<1>11. PICK d : d = delimit(text, q) OBVIOUS
<1>12. /\ d \in Seq(Word) /\ Len(d) = n + 2 /\ Mark(d) = i
       /\ \A k \in 1 .. i - 1 : d[k] = text[k]
       /\ \A k \in i + l .. n : d[k + 2] = text[k]
  BY <1>1, <1>9, <1>10, <1>11, Delimited
<1>13. part \in Seq(Word) BY OfWords
<1>14. SubSeq(d, i - s + 1, i - 1) = SubSeq(part, 1, s - 1)
  <2>0. PICK x \in Int, y \in Int, o \in Int, z \in Int : x = i - s + 1 /\ y = i - 1 /\ o = 1 /\ z = s - 1
    <3>1. i - s + 1 \in Int /\ i - 1 \in Int /\ 1 \in Int /\ s - 1 \in Int BY <1>5
    <3> QED BY <3>1
  <2>1. 1 <= x /\ x <= y + 1 /\ y <= n + 2 /\ 1 <= o /\ o <= z + 1 /\ z <= m /\ y - x = z - o
    BY <1>1, <1>5, <1>6, <1>7, <2>0
  <2>2. ASSUME NEW k \in 0 .. (i - 1) - (i - s + 1) PROVE d[(i - s + 1) + k] = part[1 + k]
    <3>1. 1 + k \in 1 .. m /\ a + (1 + k) = (i - s + 1) + k /\ (i - s + 1) + k \in 1 .. i - 1
      BY <1>1, <1>5, <1>7
    <3>2. text[a + (1 + k)] = part[1 + k] BY <1>6, <3>1
    <3> QED BY <1>12, <3>1, <3>2
  <2>3. SameWords(d, x, part, o, y - x) BY <2>0, <2>2 DEF SameWords
  <2>4. y <= Len(d) /\ z <= Len(part) BY <1>1, <1>12, <2>1
  <2>5. Alike(Word, d, x, y, part, o, z) BY <1>12, <1>13, <2>1, <2>3, <2>4, SameStretch
  <2> QED BY <2>0, <2>5 DEF Alike
<1>15. PICK e \in Int : e = (i + l + 2) + m - s - l BY <1>5
<1>16. SubSeq(d, i + l + 2, e) = SubSeq(part, s + l, m)
  <2>0. PICK x \in Int, o \in Int : x = i + l + 2 /\ o = s + l
    <3>1. i + l + 2 \in Int /\ s + l \in Int BY <1>1, <1>5
    <3> QED BY <3>1
  <2>1. m \in Int /\ 1 <= x /\ x <= e + 1 /\ e <= n + 2 /\ 1 <= o /\ o <= m + 1 /\ e - x = m - o
    BY <1>1, <1>5, <1>6, <1>7, <1>15, <2>0
  <2>2. ASSUME NEW k \in 0 .. e - (i + l + 2) PROVE d[(i + l + 2) + k] = part[(s + l) + k]
    <3>1. PICK v \in Int : v = (i + l) + k BY <1>5
    <3>2. v \in i + l .. n /\ (i + l + 2) + k = v + 2 /\ (s + l) + k \in 1 .. m /\ a + ((s + l) + k) = v
      BY <1>1, <1>5, <1>6, <1>7, <1>15, <3>1
    <3>3. text[a + ((s + l) + k)] = part[(s + l) + k] BY <1>6, <3>2
    <3> QED BY <1>12, <3>2, <3>3
  <2>3. SameWords(d, x, part, o, e - x) BY <2>0, <2>2 DEF SameWords
  <2>4. e <= Len(d) /\ m <= Len(part) BY <1>1, <1>12, <2>1
  <2>5. Alike(Word, d, x, e, part, o, m) BY <1>12, <1>13, <2>1, <2>3, <2>4, SameStretch
  <2> QED BY <2>0, <2>5 DEF Alike
<1>17. i # 0 /\ i >= s BY <1>5, <1>7
<1>18. InPlace(d, part, q) BY <1>1, <1>2, <1>12, <1>14, <1>15, <1>16, <1>17 DEF InPlace
<1> QED BY <1>9, <1>11, <1>18

-----------------------------------------------------------------------------
(* The text of a document and of its stretches. *)

\* Where the elements of a document begin in its text.
DocLaid(bs, off) == Offsets(Texts(bs), off) /\ Laid(Texts(bs), off, Len(bs), joined(bs))

\* The text of some elements in a row is where they are.
StretchIs(bs, off, lo, hi) ==
  LET t == joined(SubSeq(bs, lo, hi))
  IN  /\ t \in Seq(STRING)
      /\ Len(t) = off[hi] - off[lo - 1]
      /\ \A k \in 1 .. Len(t) : t[k] = joined(bs)[off[lo - 1] + k]

LEMMA DocIsLaid ==
  ASSUME NEW bs \in Seq(Elements)
  PROVE  joined(bs) \in Seq(STRING) /\ Unmarked(joined(bs)) /\ \E off : DocLaid(bs, off)
<1>1. PICK n \in Nat : n = Len(bs) BY TextsTyped
<1>2. PICK s \in Seq(Seq(STRING)) : s = Texts(bs) /\ Len(s) = n /\ \A i \in 1 .. n : s[i] = TextOf(bs[i])
  BY <1>1, TextsTyped
<1>3. joined(bs) = FlattenSeq(s) BY <1>2 DEF joined, Texts
<1>4. PICK f \in Seq(STRING) : f = joined(bs) BY <1>3, FlattenPositions
<1>5. PICK off : Offsets(s, off) /\ Laid(s, off, n, f) BY <1>2, <1>3, <1>4, FlattenPositions
<1>6. DocLaid(bs, off) BY <1>1, <1>2, <1>4, <1>5 DEF DocLaid
<1>7. ASSUME NEW k \in 1 .. Len(f) PROVE f[k] # OPEN
  <2>1. PICK p \in 1 .. n : \E j \in 1 .. Len(s[p]) : k = off[p - 1] + j BY <1>5, <1>7 DEF Laid
  <2>2. PICK j \in 1 .. Len(s[p]) : k = off[p - 1] + j BY <2>1
  <2>3. f[k] = s[p][j] BY <1>5, <2>2 DEF Laid
  <2>4. bs[p] \in Elements /\ s[p] = TextOf(bs[p]) BY <1>1, <1>2, TextsTyped
  <2> QED BY <2>2, <2>3, <2>4, ElementText
<1> QED BY <1>4, <1>6, <1>7 DEF Unmarked

\* Some elements in a row.
TheseOf(sub, bs, lo, m) ==
  sub \in Seq(Elements) /\ Len(sub) = m /\ \A k \in 1 .. m : sub[k] = bs[lo + k - 1]

LEMMA SomeElements ==
  ASSUME NEW bs \in Seq(Elements), NEW lo \in Int, NEW hi \in Int, 1 <= lo, lo <= hi + 1, hi <= Len(bs),
         NEW m \in Nat, m = hi - lo + 1
  PROVE  TheseOf(SubSeq(bs, lo, hi), bs, lo, m)
  BY CutOut DEF TheseOf

LEMMA Stretches ==
  ASSUME NEW bs \in Seq(Elements), NEW off, DocLaid(bs, off),
         NEW lo \in Int, NEW hi \in Int, 1 <= lo, lo <= hi + 1, hi <= Len(bs)
  PROVE  StretchIs(bs, off, lo, hi)
<1>1. PICK n \in Nat : n = Len(bs) BY TextsTyped
<1>2. PICK s \in Seq(Seq(STRING)) : s = Texts(bs) /\ Len(s) = n /\ \A i \in 1 .. n : s[i] = TextOf(bs[i])
  BY <1>1, TextsTyped
<1>3. PICK f \in Seq(STRING) : f = joined(bs) BY DocIsLaid
<1>4. Offsets(s, off) /\ Laid(s, off, Len(s), f) BY <1>1, <1>2, <1>3 DEF DocLaid
<1>5. PICK b \in Nat, m \in Nat : b = lo - 1 /\ m = hi - lo + 1 /\ b + m = hi /\ b + m <= n
  <2>1. lo - 1 \in Nat /\ hi - lo + 1 \in Nat /\ (lo - 1) + (hi - lo + 1) = hi /\ hi <= n BY <1>1
  <2> QED BY <2>1
<1>6. PICK sub \in Seq(Elements) : /\ sub = SubSeq(bs, lo, hi) /\ Len(sub) = m
                                   /\ \A k \in 1 .. m : sub[k] = bs[lo + k - 1]
  <2>1. TheseOf(SubSeq(bs, lo, hi), bs, lo, m) BY <1>5, SomeElements
  <2> QED BY <2>1 DEF TheseOf
<1>7. PICK t \in Seq(Seq(STRING)) : t = Texts(sub) /\ Len(t) = m /\ \A i \in 1 .. m : t[i] = TextOf(sub[i])
  BY <1>6, TextsTyped
<1>8. \A p \in 1 .. m : t[p] = s[b + p]
  <2>1. SUFFICES ASSUME NEW p \in 1 .. m PROVE t[p] = s[b + p] OBVIOUS
  <2>2. b + p \in 1 .. n /\ lo + p - 1 = b + p BY <1>1, <1>5
  <2>3. t[p] = TextOf(sub[p]) /\ sub[p] = bs[lo + p - 1] BY <1>6, <1>7
  <2>4. s[b + p] = TextOf(bs[b + p]) BY <1>2, <2>2
  <2> QED BY <2>2, <2>3, <2>4
<1>9. InARow(t, s, b) BY <1>1, <1>2, <1>5, <1>7, <1>8 DEF InARow
<1>10. PICK g : g = FlattenSeq(t) OBVIOUS
<1>11. /\ g \in Seq(STRING) /\ Len(g) = off[b + Len(t)] - off[b]
       /\ \A k \in 1 .. Len(g) : g[k] = f[off[b] + k]
  <2>1. TakesUp(STRING, g, f, off[b], off[b + Len(t)]) BY <1>4, <1>9, <1>10, StretchOfFlattening
  <2> QED BY <2>1 DEF TakesUp
<1>12. g = joined(SubSeq(bs, lo, hi)) BY <1>6, <1>7, <1>10 DEF joined, Texts
<1> QED BY <1>3, <1>5, <1>7, <1>11, <1>12 DEF StretchIs

\* The text of one element.
LEMMA TextOfOne ==
  ASSUME NEW bs \in Seq(Elements), NEW a \in 1 .. Len(bs)
  PROVE  joined(SubSeq(bs, a, a)) = TextOf(bs[a])
<1>1. PICK n \in Nat : n = Len(bs) BY TextsTyped
<1>2. a \in Int /\ 1 <= a /\ a <= a + 1 /\ a <= Len(bs) /\ a - a + 1 = 1 /\ a + 1 - 1 = a BY <1>1
<1>3. PICK sub \in Seq(Elements) : sub = SubSeq(bs, a, a) /\ Len(sub) = 1 /\ \A k \in 1 .. 1 : sub[k] = bs[a + k - 1]
  <2>1. TheseOf(SubSeq(bs, a, a), bs, a, 1) BY <1>2, SomeElements
  <2> QED BY <2>1 DEF TheseOf
<1>4. PICK t \in Seq(Seq(STRING)) : t = Texts(sub) /\ Len(t) = 1 /\ \A i \in 1 .. 1 : t[i] = TextOf(sub[i])
  BY <1>3, TextsTyped
<1>5. t[1] = TextOf(bs[a])
  <2>1. 1 \in 1 .. 1 OBVIOUS
  <2> QED BY <1>2, <1>3, <1>4, <2>1
<1>6. FlattenSeq(t) = t[1]
  <2>1. Len(t) <= 1 /\ Len(t) # 0 BY <1>4
  <2> QED BY <2>1, FlattenFew
<1>7. joined(sub) = FlattenSeq(t) BY <1>4 DEF joined, Texts
<1> QED BY <1>3, <1>5, <1>6, <1>7

\* A place within a stretch of m places after x.
LEMMA PlaceWithin ==
  ASSUME NEW x \in Nat, NEW m \in Nat, NEW j \in 1 .. m
  PROVE  x < x + j /\ x + j <= x + m
OBVIOUS

\* What begins at g and is l long lies between b and d, where its ends do.
LEMMA EndsWithin ==
  ASSUME NEW b \in Nat, NEW u \in Nat, NEW w \in Nat, NEW d \in Nat, NEW g \in Nat, NEW l \in Nat,
         b <= u, u < g, g + l - 1 <= w, w <= d
  PROVE  b < g /\ g + l - 1 <= d
OBVIOUS

\* A place of a quote that ends within m places, but for the quote's last, is not the m-th.
LEMMA NotTheLast ==
  ASSUME NEW s \in Nat, NEW l \in Nat, NEW m \in Nat, NEW j \in 1 .. l,
         s >= 1, s + l <= m + 1, j <= l - 1
  PROVE  s - 1 + j \in 1 .. m /\ s - 1 + j # m
OBVIOUS

\* The elements a quote touches are a stretch that holds it.
LEMMA TouchedHold ==
  ASSUME NEW bs \in Seq(Elements), NEW q \in Seq(STRING), Len(q) > 0, Holds(joined(bs), q)
  PROVE  LET at == spanning(bs, q)
         IN  /\ Min(at) \in 1 .. Len(bs) /\ Max(at) \in 1 .. Len(bs) /\ Min(at) <= Max(at)
             /\ Holds(joined(SubSeq(bs, Min(at), Max(at))), q)
<1>1. PICK n \in Nat, l \in Nat : n = Len(bs) /\ l = Len(q) /\ l > 0 BY TextsTyped
<1>2. PICK f \in Seq(STRING) : f = joined(bs) BY DocIsLaid
<1>3. PICK off : DocLaid(bs, off) BY DocIsLaid
<1>4. PICK s \in Seq(Seq(STRING)) : s = Texts(bs) /\ Len(s) = n /\ \A i \in 1 .. n : s[i] = TextOf(bs[i])
  BY <1>1, TextsTyped
<1>5. Offsets(s, off) /\ Laid(s, off, n, f) BY <1>1, <1>2, <1>3, <1>4 DEF DocLaid
<1>6. /\ off \in [0 .. n -> Nat] /\ off[0] = 0
      /\ \A p \in 1 .. n : off[p - 1] \in Nat /\ off[p] \in Nat /\ off[p] = off[p - 1] + Len(s[p])
  <2>1. off \in [0 .. n -> Nat] /\ off[0] = 0 /\ \A p \in 1 .. n : off[p] = off[p - 1] + Len(s[p])
    BY <1>4, <1>5 DEF Offsets
  <2>2. \A p \in 1 .. n : p \in 0 .. n /\ p - 1 \in 0 .. n BY <1>1
  <2> QED BY <2>1, <2>2
<1>7. PICK e \in Nat : e = Len(f) /\ e = off[n]
  <2>1. Len(f) = off[n] BY <1>5 DEF Laid
  <2> QED BY <2>1
<1>8. PICK g \in StartsIn(f, q) : g = Min(StartsIn(joined(bs), q)) BY <1>2, FirstStart
<1>9. g \in 1 .. e - l + 1 /\ \A j \in 1 .. l : f[g - 1 + j] = q[j]
  <2>1. Occurs(f, q, g) BY <1>8, StartsAre
  <2> QED BY <1>1, <1>7, <2>1 DEF Occurs
<1>10. g \in Nat /\ g >= 1 /\ g + l - 1 <= e BY <1>1, <1>7, <1>9
<1>11. PICK at : at = spanning(bs, q) OBVIOUS
<1>12. \A i : i \in at <=> i \in 1 .. n /\ off[i - 1] < g + l - 1 /\ off[i] >= g
  <2>1. ASSUME NEW i \in 1 .. n
        PROVE  Len(joined(SubSeq(bs, 1, i - 1))) = off[i - 1] /\ Len(TextOf(bs[i])) = Len(s[i])
    <3>1. PICK h \in Int : h = i - 1 BY <1>1
    <3>2. 1 \in Int /\ 1 <= 1 /\ 1 <= h + 1 /\ h <= Len(bs) BY <1>1, <3>1
    <3>3. StretchIs(bs, off, 1, h) BY <1>3, <3>2, Stretches
    <3>4. 1 - 1 = 0 OBVIOUS
    <3>5. Len(joined(SubSeq(bs, 1, h))) = off[h] - off[0] BY <3>3, <3>4 DEF StretchIs
    <3>6. off[h] \in Nat BY <1>6, <3>1
    <3>7. off[h] - off[0] = off[h] BY <1>6, <3>6
    <3> QED BY <1>4, <3>1, <3>5, <3>7
  <2>2. \A i : i \in at <=> /\ i \in DOMAIN bs /\ Len(joined(SubSeq(bs, 1, i - 1))) < g + Len(q) - 1
                            /\ Len(joined(SubSeq(bs, 1, i - 1))) + Len(TextOf(bs[i])) >= g
    BY <1>8, <1>11 DEF spanning
  <2>3. DOMAIN bs = 1 .. n BY <1>1, TextsTyped
  <2>4. \A i \in 1 .. n : i \in at <=> off[i - 1] < g + l - 1 /\ off[i - 1] + Len(s[i]) >= g
    BY <1>1, <2>1, <2>2, <2>3
  <2>5. \A i \in 1 .. n : i \in at <=> (off[i - 1] < g + l - 1 /\ off[i] >= g)
    <3>1. \A i \in 1 .. n : off[i] = off[i - 1] + Len(s[i]) BY <1>6
    <3> QED BY <2>4, <3>1
  <2>6. \A i : i \in at => i \in 1 .. n BY <2>2, <2>3
  <2> QED BY <2>5, <2>6
\* The elements in which the quote begins and ends.
<1>13. ASSUME NEW k \in 1 .. e PROVE \E p \in 1 .. n : off[p - 1] < k /\ k <= off[p]
  <2>1. PICK p \in 1 .. n : \E j \in 1 .. Len(s[p]) : k = off[p - 1] + j BY <1>5, <1>7, <1>13 DEF Laid
  <2>2. s[p] \in Seq(STRING) BY <1>4, ElementOfSeq
  <2>3. PICK m \in Nat : m = Len(s[p]) BY <2>2
  <2>4. PICK j \in 1 .. m : k = off[p - 1] + j BY <2>1, <2>3
  <2>5. PICK x \in Nat : x = off[p - 1] /\ off[p] = x + m BY <1>6, <2>3
  <2>8. k = x + j BY <2>4, <2>5
  <2>9. x < x + j /\ x + j <= x + m BY PlaceWithin
  <2>6. x < k /\ k <= x + m BY <2>8, <2>9
  <2> QED BY <2>5, <2>6
<1>14. PICK p \in 1 .. n : off[p - 1] < g /\ g <= off[p]
  <2>1. g \in 1 .. e BY <1>1, <1>10
  <2> QED BY <1>13, <2>1
<1>15. PICK r \in 1 .. n : off[r - 1] < g + l - 1 /\ g + l - 1 <= off[r]
  <2>1. g + l - 1 \in 1 .. e BY <1>1, <1>10
  <2> QED BY <1>13, <2>1
<1>16. p \in at
  <2>1. PICK x \in Nat, y \in Nat : x = off[p - 1] /\ y = off[p] BY <1>6
  <2>2. x < g + l - 1 /\ y >= g BY <1>1, <1>10, <1>14, <2>1
  <2> QED BY <1>12, <2>1, <2>2
<1>17. r \in at
  <2>1. PICK x \in Nat, y \in Nat : x = off[r - 1] /\ y = off[r] BY <1>6
  <2>2. x < g + l - 1 /\ y >= g BY <1>1, <1>10, <1>15, <2>1
  <2> QED BY <1>12, <2>1, <2>2
<1>18. at \in SUBSET (0 .. n) /\ at \in SUBSET Nat BY <1>12
<1>19. PICK lo \in at : lo = Min(at) /\ \A i \in at : lo <= i
  <2>1. PICK x \in at : \A i \in at : x <= i BY <1>16, <1>18, HasLeast
  <2> QED BY <2>1 DEF Min
<1>20. PICK hi \in at : hi = Max(at) /\ \A i \in at : i <= hi
  <2>1. PICK x \in at : \A i \in at : i <= x BY <1>1, <1>16, <1>18, HasGreatest
  <2>2. \A y \in at, z \in at : y <= z <=> z >= y BY <1>18
  <2>3. x \in at /\ \A i \in at : x >= i BY <2>1, <2>2
  <2>4. Max(at) \in at /\ \A i \in at : Max(at) >= i BY <2>3 DEF Max
  <2> QED BY <2>2, <2>4
<1>21. lo \in 1 .. n /\ hi \in 1 .. n /\ lo <= p /\ r <= hi /\ lo <= hi BY <1>12, <1>16, <1>17, <1>19, <1>20
<1>22. PICK b \in Nat, d \in Nat : b = off[lo - 1] /\ d = off[hi] BY <1>6, <1>21
<1>23. b < g /\ g + l - 1 <= d
  <2>1. off[lo - 1] <= off[p - 1]
    <3>1. lo - 1 \in 0 .. p - 1 /\ p - 1 \in 0 .. Len(s) BY <1>4, <1>21
    <3> QED BY <1>5, <3>1, OffsetsGrow
  <2>2. off[r] <= off[hi]
    <3>1. r \in 0 .. hi /\ hi \in 0 .. Len(s) BY <1>4, <1>21
    <3> QED BY <1>5, <3>1, OffsetsGrow
  <2>3. off[p - 1] \in Nat /\ off[r] \in Nat BY <1>6
  <2>4. PICK u \in Nat, w \in Nat : u = off[p - 1] /\ w = off[r] BY <2>3
  <2>5. b <= u /\ u < g /\ g + l - 1 <= w /\ w <= d BY <1>14, <1>15, <1>22, <2>1, <2>2, <2>4
  <2>6. g \in Nat /\ l \in Nat BY <1>10
  <2> QED BY <2>5, <2>6, EndsWithin
<1>24. PICK t : t = joined(SubSeq(bs, lo, hi)) OBVIOUS
<1>25. t \in Seq(STRING) /\ Len(t) = d - b /\ \A k \in 1 .. Len(t) : t[k] = f[b + k]
  <2>1. lo \in Int /\ hi \in Int /\ 1 <= lo /\ lo <= hi + 1 /\ hi <= Len(bs) BY <1>1, <1>21
  <2>2. StretchIs(bs, off, lo, hi) BY <1>3, <2>1, Stretches
  <2> QED BY <1>2, <1>22, <1>24, <2>2 DEF StretchIs
<1>26. PICK v \in Nat : v = g - b /\ v >= 1
  <2>1. g - b \in Nat /\ g - b >= 1 BY <1>10, <1>23
  <2> QED BY <2>1
<1>27. v \in StartsIn(t, q)
  <2>0. v + l - 1 <= d - b BY <1>1, <1>10, <1>23, <1>26
  <2>1. v \in 1 .. (d - b) - l + 1 BY <1>1, <1>26, <2>0
  <2>2. ASSUME NEW j \in 1 .. l PROVE t[v - 1 + j] = q[j]
    <3>1. v - 1 + j \in 1 .. d - b /\ b + (v - 1 + j) = g - 1 + j BY <1>1, <1>10, <1>26, <2>0
    <3> QED BY <1>9, <1>25, <3>1
  <2>3. Occurs(t, q, v) BY <1>1, <1>25, <2>1, <2>2 DEF Occurs
  <2> QED BY <1>25, <2>3, StartsAre
<1>28. Holds(t, q) BY <1>27 DEF Holds
<1> QED BY <1>1, <1>11, <1>19, <1>20, <1>21, <1>24, <1>28

NeverBefore(text, before, part, q) ==
  \A t \in StartsIn(text, q) : t >= Len(before) + Min(StartsIn(part, q))

\* A quote that stands in a paragraph does not stand before it, where neither the
\* element before holds it nor a line ends inside the quote.
LEMMA NotBefore ==
  ASSUME NEW text \in Seq(STRING), NEW before \in Seq(STRING), NEW part \in Seq(STRING),
         NEW q \in Seq(STRING), Len(q) > 0, Holds(part, q),
         Len(before) + Len(part) <= Len(text),
         \A k \in 1 .. Len(before) : text[k] = before[k],
         \A k \in 1 .. Len(part) : text[Len(before) + k] = part[k],
         ~Holds(before, q), Len(before) > 0 => before[Len(before)] = Newline,
         Len(before) > 0 => \A k \in 1 .. Len(part) : part[k] = Newline => k = Len(part)
  PROVE  NeverBefore(text, before, part, q)
<1>1. PICK n \in Nat, l \in Nat, m \in Nat, a \in Nat :
        n = Len(text) /\ l = Len(q) /\ m = Len(part) /\ a = Len(before)
  OBVIOUS
<1>2. l > 0 /\ a + m <= n BY <1>1
<1>3. PICK s \in StartsIn(part, q) : s = Min(StartsIn(part, q)) /\ \A t \in StartsIn(part, q) : s <= t
  BY FirstStart
<1>4. s \in 1 .. m - l + 1 /\ \A j \in 1 .. l : part[s - 1 + j] = q[j]
  <2>1. Occurs(part, q, s) BY StartsAre
  <2> QED BY <1>1, <2>1 DEF Occurs
<1>5. s \in Nat /\ s >= 1 /\ s + l <= m + 1 BY <1>1, <1>4
<1>6. SUFFICES ASSUME NEW t \in StartsIn(text, q), t < a + s PROVE FALSE
  <2>1. \A t \in StartsIn(text, q) : t \in Nat BY <1>1 DEF StartsIn
  <2> QED BY <1>1, <1>3, <1>5, <2>1 DEF NeverBefore
<1>7. t \in 1 .. n - l + 1 /\ \A j \in 1 .. l : text[t - 1 + j] = q[j]
  <2>1. Occurs(text, q, t) BY StartsAre
  <2> QED BY <1>1, <2>1 DEF Occurs
<1>8. t \in Nat /\ t >= 1 BY <1>1, <1>7
<1>9. CASE t > a
  <2>1. PICK u \in Nat : u = t - a /\ u >= 1 /\ u < s
    <3>1. t - a \in Nat /\ t - a >= 1 /\ t - a < s BY <1>1, <1>5, <1>6, <1>8, <1>9
    <3> QED BY <3>1
  <2>2. u \in 1 .. m - l + 1 BY <1>1, <1>5, <2>1
  <2>3. ASSUME NEW j \in 1 .. l PROVE part[u - 1 + j] = q[j]
    <3>1. u - 1 + j \in 1 .. m /\ a + (u - 1 + j) = t - 1 + j BY <1>1, <1>5, <1>8, <2>1
    <3>2. text[a + (u - 1 + j)] = part[u - 1 + j] BY <1>1, <3>1
    <3> QED BY <1>7, <3>1, <3>2
  <2>4. Occurs(part, q, u) BY <1>1, <2>2, <2>3 DEF Occurs
  <2>5. u \in StartsIn(part, q) BY <2>4, StartsAre
  <2> QED BY <1>3, <1>5, <2>1, <2>5
<1>10. CASE t <= a /\ t + l - 1 <= a
  <2>1. t \in 1 .. a - l + 1 BY <1>1, <1>8, <1>10
  <2>2. ASSUME NEW j \in 1 .. l PROVE before[t - 1 + j] = q[j]
    <3>1. t - 1 + j \in 1 .. a BY <1>1, <1>8, <1>10
    <3>2. text[t - 1 + j] = before[t - 1 + j] BY <1>1, <3>1
    <3> QED BY <1>7, <3>2
  <2>3. Occurs(before, q, t) BY <1>1, <2>1, <2>2 DEF Occurs
  <2>4. t \in StartsIn(before, q) BY <2>3, StartsAre
  <2> QED BY <2>4 DEF Holds
<1>11. CASE t <= a /\ a < t + l - 1
  <2>1. PICK j \in 1 .. l : j = a - t + 1 /\ j <= l - 1
    <3>1. a - t + 1 \in 1 .. l /\ a - t + 1 <= l - 1 BY <1>1, <1>8, <1>11
    <3> QED BY <3>1
  <2>2. t - 1 + j = a /\ a \in 1 .. a BY <1>1, <1>8, <1>11, <2>1
  <2>3. text[a] = before[a] /\ before[a] = Newline BY <1>1, <2>2
  <2>4. q[j] = Newline BY <1>7, <2>2, <2>3
  <2>5. part[s - 1 + j] = Newline BY <1>4, <2>4
  <2>6. s - 1 + j \in 1 .. m /\ s - 1 + j # m BY <1>5, <2>1, NotTheLast
  <2> QED BY <1>1, <2>2, <2>5, <2>6
<1> QED BY <1>1, <1>8, <1>9, <1>10, <1>11

-----------------------------------------------------------------------------
(* The passage around one element. *)

\* A text begins with one part and goes on with another.
Around(t, before, part) ==
  /\ t \in Seq(STRING) /\ Unmarked(t)
  /\ Len(before) + Len(part) <= Len(t)
  /\ \A k \in 1 .. Len(before) : t[k] = before[k]
  /\ \A k \in 1 .. Len(part) : t[Len(before) + k] = part[k]

LEMMA TwoUnmarked ==
  ASSUME NEW a \in Seq(STRING), NEW b \in Seq(STRING), Unmarked(a), Unmarked(b)
  PROVE  a \o b \in Seq(STRING) /\ Unmarked(a \o b)
<1>1. PICK m \in Nat, n \in Nat : m = Len(a) /\ n = Len(b) OBVIOUS
<1>2. a \o b \in Seq(STRING) /\ BothIn(a \o b, a, m, b, n) BY <1>1, After
<1>3. PICK c : c = a \o b OBVIOUS
<1>4. /\ Len(c) = m + n /\ (\A k \in 1 .. m : c[k] = a[k]) /\ \A k \in 1 .. n : c[m + k] = b[k]
  BY <1>2, <1>3 DEF BothIn
<1>5. ASSUME NEW k \in 1 .. m + n PROVE c[k] # OPEN
  <2>1. CASE k <= m
    <3>1. k \in 1 .. m BY <1>1, <2>1
    <3> QED BY <1>1, <1>4, <3>1 DEF Unmarked
  <2>2. CASE k > m
    <3>1. k - m \in 1 .. n BY <1>1, <2>2
    <3>2. PICK j \in 1 .. n : j = k - m BY <3>1
    <3>3. m + j = k BY <1>1, <3>2
    <3>4. c[m + j] = b[j] /\ b[j] # OPEN BY <1>1, <1>4 DEF Unmarked
    <3> QED BY <3>3, <3>4
  <2> QED BY <1>1, <2>1, <2>2
<1> QED BY <1>2, <1>3, <1>4, <1>5 DEF Unmarked

LEMMA AroundItself ==
  ASSUME NEW part \in Seq(STRING), Unmarked(part)
  PROVE  Around(part, <<>>, part)
<1>1. Len(<<>>) = 0 BY EmptySeq
<1>2. PICK m \in Nat : m = Len(part) OBVIOUS
<1>3. 0 + m <= m /\ \A k \in 1 .. m : 0 + k = k BY <1>2
<1>4. \A k \in 1 .. 0 : FALSE OBVIOUS
<1> QED BY <1>1, <1>2, <1>3, <1>4 DEF Around

LEMMA AroundAndAfter ==
  ASSUME NEW t, NEW before \in Seq(STRING), NEW part \in Seq(STRING), Around(t, before, part),
         NEW rest \in Seq(STRING), Unmarked(rest)
  PROVE  Around(t \o rest, before, part)
<1>1. t \in Seq(STRING) /\ Unmarked(t) BY DEF Around
<1>2. PICK n \in Nat, r \in Nat, a \in Nat, m \in Nat :
        n = Len(t) /\ r = Len(rest) /\ a = Len(before) /\ m = Len(part)
  BY <1>1
<1>3. PICK c : c = t \o rest OBVIOUS
<1>4. c \in Seq(STRING) /\ Unmarked(c) BY <1>1, <1>3, TwoUnmarked
<1>5. BothIn(c, t, n, rest, r) BY <1>1, <1>2, <1>3, After
<1>6. Len(c) = n + r /\ \A k \in 1 .. n : c[k] = t[k] BY <1>5 DEF BothIn
<1>7. /\ a + m <= n /\ \A k \in 1 .. a : t[k] = before[k]
      /\ \A k \in 1 .. m : t[a + k] = part[k]
  BY <1>2 DEF Around
<1>8. \A k \in 1 .. a : k \in 1 .. n BY <1>2, <1>7
<1>9. \A k \in 1 .. m : a + k \in 1 .. n BY <1>2, <1>7
<1>10. a + m <= n + r BY <1>2, <1>7
<1>11. \A k \in 1 .. a : c[k] = before[k] BY <1>6, <1>7, <1>8
<1>12. \A k \in 1 .. m : c[a + k] = part[k] BY <1>6, <1>7, <1>9
<1> QED BY <1>2, <1>3, <1>4, <1>6, <1>10, <1>11, <1>12 DEF Around

LEMMA AroundAndBefore ==
  ASSUME NEW t, NEW part \in Seq(STRING), Around(t, <<>>, part),
         NEW before \in Seq(STRING), Unmarked(before)
  PROVE  Around(before \o t, before, part)
<1>1. t \in Seq(STRING) /\ Unmarked(t) BY DEF Around
<1>2. PICK n \in Nat, a \in Nat, m \in Nat : n = Len(t) /\ a = Len(before) /\ m = Len(part) BY <1>1
<1>3. PICK c : c = before \o t OBVIOUS
<1>4. c \in Seq(STRING) /\ Unmarked(c) BY <1>1, <1>3, TwoUnmarked
<1>5. BothIn(c, before, a, t, n) BY <1>1, <1>2, <1>3, After
<1>6. Len(c) = a + n /\ (\A k \in 1 .. a : c[k] = before[k]) /\ \A k \in 1 .. n : c[a + k] = t[k]
  BY <1>5 DEF BothIn
<1>7. 0 + m <= n /\ \A k \in 1 .. m : t[0 + k] = part[k]
  <2>1. Len(<<>>) = 0 BY EmptySeq
  <2> QED BY <1>2, <2>1 DEF Around
<1>8. \A k \in 1 .. m : 0 + k = k /\ k \in 1 .. n BY <1>2, <1>7
<1>9. a + m <= a + n BY <1>2, <1>7
<1>10. \A k \in 1 .. m : c[a + k] = part[k] BY <1>6, <1>7, <1>8
<1> QED BY <1>2, <1>3, <1>4, <1>6, <1>9, <1>10 DEF Around

LEMMA TextUnmarked ==
  ASSUME NEW b \in Elements
  PROVE  TextOf(b) \in Seq(STRING) /\ Unmarked(TextOf(b))
  BY ElementText DEF Unmarked

\* What the extension shows of the elements on one side.
Shown(bs) == FlattenSeq([i \in DOMAIN bs |-> IF has_text(TextOf(bs[i])) THEN TextOf(bs[i]) ELSE <<>>])

LEMMA ShownIsUnmarked ==
  ASSUME NEW bs \in Seq(Elements), Len(bs) <= 1
  PROVE  /\ Shown(bs) \in Seq(STRING) /\ Unmarked(Shown(bs))
         /\ Shown(bs) = <<>> \/ (Len(bs) = 1 /\ Shown(bs) = TextOf(bs[1]))
<1>1. PICK n \in Nat : n = Len(bs) /\ n <= 1 /\ DOMAIN bs = 1 .. n BY TextsTyped
<1>2. \A i \in 1 .. n : bs[i] \in Elements /\ TextOf(bs[i]) \in Seq(STRING) BY <1>1, TextsTyped
<1>3. PICK t : t = [i \in 1 .. n |-> IF has_text(TextOf(bs[i])) THEN TextOf(bs[i]) ELSE <<>>] OBVIOUS
<1>4. <<>> \in Seq(STRING) /\ Unmarked(<<>>) BY EmptySeq DEF Unmarked
<1>5. t \in [1 .. n -> Seq(STRING)] BY <1>2, <1>3, <1>4
<1>6. t \in Seq(Seq(STRING)) /\ Len(t) = n BY <1>5
<1>7. Shown(bs) = FlattenSeq(t) BY <1>1, <1>3 DEF Shown
<1>8. FlattenSeq(t) = IF Len(t) = 0 THEN <<>> ELSE t[1]
  <2>1. Len(t) <= 1 BY <1>1, <1>6
  <2> QED BY <1>6, <2>1, FlattenFew
<1>9. CASE n = 0
  <2>1. Shown(bs) = <<>> BY <1>6, <1>7, <1>8, <1>9
  <2> QED BY <1>4, <2>1
<1>10. CASE n = 1
  <2>1. Shown(bs) = t[1] BY <1>6, <1>7, <1>8, <1>10
  <2>2. 1 \in 1 .. n BY <1>10
  <2>3. t[1] = <<>> \/ t[1] = TextOf(bs[1]) BY <1>3, <2>2
  <2>4. bs[1] \in Elements BY <1>2, <2>2
  <2>5. TextOf(bs[1]) \in Seq(STRING) /\ Unmarked(TextOf(bs[1])) BY <2>4, TextUnmarked
  <2> QED BY <1>1, <1>4, <1>10, <2>1, <2>3, <2>5
<1>11. n = 0 \/ n = 1 BY <1>1
<1> QED BY <1>9, <1>10, <1>11

\* The passage of a table, and of anything else: its text, and for a heading the text
\* of what follows.
LEMMA PassageOfTable ==
  ASSUME NEW bs \in Seq(Elements), NEW at \in 1 .. Len(bs), bs[at].kind = "table", NEW q
  PROVE  passage_at(bs, at, q).kind \in {"table", "table_row"}
<1>1. MaxChars \in Nat BY PassageAssumption
<1>2. PICK n \in Nat : n = Len(TextOf(bs[at])) BY TextsTyped
<1>3. n <= MaxChars \/ n > MaxChars BY <1>1, <1>2
<1>4. CASE n <= MaxChars
  <2>1. ~(n > MaxChars) BY <1>1, <1>4
  <2> QED BY <1>2, <1>4, <2>1 DEF passage_at, is_heading
<1>5. CASE n > MaxChars
  <2>1. ~(n <= MaxChars) BY <1>1, <1>5
  <2> QED BY <1>2, <1>5, <2>1 DEF passage_at, is_heading
<1> QED BY <1>3, <1>4, <1>5

LEMMA WholeTable ==
  ASSUME NEW bs \in Seq(Elements), NEW at \in 1 .. Len(bs), bs[at].kind = "table", NEW q,
         passage_at(bs, at, q).kind = "table"
  PROVE  passage_at(bs, at, q).text = TextOf(bs[at])
<1>1. MaxChars \in Nat BY PassageAssumption
<1>2. PICK n \in Nat : n = Len(TextOf(bs[at])) BY TextsTyped
<1>3. CASE n <= MaxChars
  <2>1. ~(n > MaxChars) BY <1>1, <1>3
  <2> QED BY <1>2, <1>3, <2>1 DEF passage_at, is_heading
<1>4. CASE ~(n <= MaxChars)
  <2>1. n > MaxChars BY <1>1, <1>4
  <2>2. passage_at(bs, at, q).kind = "table_row" BY <1>2, <1>4, <2>1 DEF passage_at, is_heading
  <2> QED BY <2>2
<1> QED BY <1>3, <1>4

LEMMA PassageOfAnother ==
  ASSUME NEW bs \in Seq(Elements), NEW at \in 1 .. Len(bs), bs[at].kind # "table", NEW q
  PROVE  /\ passage_at(bs, at, q).kind \in {"heading_and_following", "paragraph"}
         /\ Around(passage_at(bs, at, q).text, <<>>, TextOf(bs[at]))
<1>1. PICK n \in Nat : n = Len(bs) /\ DOMAIN bs = 1 .. n BY TextsTyped
<1>2. PICK p : p = TextOf(bs[at]) OBVIOUS
<1>3. p \in Seq(STRING) /\ Unmarked(p)
  <2>1. bs[at] \in Elements BY TextsTyped
  <2> QED BY <1>2, <2>1, TextUnmarked
<1>4. Around(p, <<>>, p) BY <1>3, AroundItself
<1>5. CASE ~is_heading(bs[at])
  <2>1. passage_at(bs, at, q) = [kind |-> "paragraph", text |-> p] BY <1>2, <1>5 DEF passage_at
  <2> QED BY <1>2, <1>4, <2>1
<1>6. CASE is_heading(bs[at])
  <2> DEFINE I == {i \in at + 1 .. Len(bs) : ~is_heading(bs[i]) /\ has_text(TextOf(bs[i]))}
             heads == IF I # {} THEN Min(I) ELSE 0
             h == IF heads = 0 THEN <<>> ELSE TextOf(bs[heads])
  <2>1. passage_at(bs, at, q) = [kind |-> "heading_and_following", text |-> p \o h]
    BY <1>2, <1>6 DEF passage_at, SelectInSubSeq
  <2>2. h \in Seq(STRING) /\ Unmarked(h)
    <3>1. <<>> \in Seq(STRING) /\ Unmarked(<<>>) BY EmptySeq DEF Unmarked
    <3>2. CASE I = {} BY <3>1, <3>2
    <3>3. CASE I # {}
      <4>1. \A i \in I : i \in 1 .. n BY <1>1
      <4>2. I \in SUBSET Nat BY <1>1, <4>1
      <4>3. PICK x \in I : \A i \in I : x <= i
        <5> HIDE DEF I
        <5> QED BY <3>3, <4>2, HasLeast
      <4>4. Min(I) \in I
        <5> HIDE DEF I
        <5> QED BY <4>3 DEF Min
      <4>5. heads = Min(I) /\ Min(I) \in 1 .. n BY <3>3, <4>1, <4>4
      <4>6. heads # 0 /\ heads \in 1 .. Len(bs) BY <1>1, <4>5
      <4> HIDE DEF heads
      <4>7. bs[heads] \in Elements BY <4>6, TextsTyped
      <4>8. h = TextOf(bs[heads]) BY <4>6
      <4> QED BY <4>7, <4>8, TextUnmarked
    <3> QED BY <3>2, <3>3
  <2> HIDE DEF h
  <2>3. <<>> \in Seq(STRING) OBVIOUS
  <2>4. Around(p \o h, <<>>, p) BY <1>3, <1>4, <2>2, <2>3, AroundAndAfter
  <2> QED BY <1>2, <2>1, <2>4
<1> QED BY <1>5, <1>6

\* With the elements around it: before its text may come that of the element before.
LEMMA ExtendedAround ==
  ASSUME NEW bs \in Seq(Elements), NEW at \in 1 .. Len(bs), bs[at].kind # "table", NEW q,
         NEW paragraphs \in 0 .. 1
  PROVE  LET x == extended(bs, at, passage_at(bs, at, q), paragraphs)
         IN  /\ x.kind \in {"heading_and_following", "paragraph", "paragraphs"}
             /\ \E before \in Seq(STRING) :
                  /\ Around(x.text, before, TextOf(bs[at]))
                  /\ before = <<>> \/ \E i \in 1 .. Len(bs) : i # at /\ before = TextOf(bs[i])
<1>1. PICK n \in Nat : n = Len(bs) BY TextsTyped
<1>2. PICK p : p = passage_at(bs, at, q) OBVIOUS
<1>3. p.kind \in {"heading_and_following", "paragraph"} /\ Around(p.text, <<>>, TextOf(bs[at]))
  BY <1>2, PassageOfAnother
<1>4. PICK x : x = extended(bs, at, p, paragraphs) OBVIOUS
<1>5. <<>> \in Seq(STRING) OBVIOUS
<1>6. CASE paragraphs = 0
  <2>1. x = p BY <1>4, <1>6 DEF extended
  <2> QED BY <1>2, <1>3, <1>4, <1>5, <2>1
<1>7. CASE paragraphs = 1
  <2>1. PICK lo \in Int : lo = IF at > 1 THEN at - 1 ELSE 1
    <3>1. (IF at > 1 THEN at - 1 ELSE 1) \in Int BY <1>1
    <3> QED BY <3>1
  <2>2. PICK hi \in Int : hi = IF at + 1 < Len(bs) THEN at + 1 ELSE Len(bs)
    <3>1. (IF at + 1 < Len(bs) THEN at + 1 ELSE Len(bs)) \in Int BY <1>1
    <3> QED BY <3>1
  <2>3. PICK u : u = SubSeq(bs, lo, at - 1) OBVIOUS
  <2>4. PICK w : w = SubSeq(bs, at + 1, hi) OBVIOUS
  <2>5. x = [kind |-> IF p.kind = "paragraph" THEN "paragraphs" ELSE p.kind,
             text |-> (Shown(u) \o p.text) \o Shown(w)]
    BY <1>4, <1>7, <2>1, <2>2, <2>3, <2>4 DEF extended, Shown
  <2>6. PICK j \in Int, k \in Int : j = at - 1 /\ k = at + 1
    <3>1. at - 1 \in Int /\ at + 1 \in Int BY <1>1
    <3> QED BY <3>1
  <2>7. u \in Seq(Elements) /\ Len(u) <= 1 /\ (Len(u) = 1 => at - 1 \in 1 .. n /\ u[1] = bs[at - 1])
    <3>1. PICK m \in Nat : m = j - lo + 1 /\ m <= 1 /\ (m = 1 => at - 1 \in 1 .. n /\ lo = at - 1)
      <4>1. j - lo + 1 \in Nat /\ j - lo + 1 <= 1 /\ (j - lo + 1 = 1 => at - 1 \in 1 .. n /\ lo = at - 1)
        BY <1>1, <2>1, <2>6
      <4> QED BY <4>1
    <3>2. 1 <= lo /\ lo <= j + 1 /\ j <= Len(bs) BY <1>1, <2>1, <2>6
    <3>3. TheseOf(u, bs, lo, m) BY <2>3, <2>6, <3>1, <3>2, SomeElements
    <3>4. u \in Seq(Elements) /\ Len(u) = m /\ \A i \in 1 .. m : u[i] = bs[lo + i - 1] BY <3>3 DEF TheseOf
    <3>5. m = 1 => u[1] = bs[at - 1]
      <4>1. lo + 1 - 1 = lo /\ 1 \in 1 .. 1 OBVIOUS
      <4> QED BY <3>1, <3>4, <4>1
    <3> QED BY <3>1, <3>4, <3>5
  <2>8. w \in Seq(Elements) /\ Len(w) <= 1
    <3>1. PICK m \in Nat : m = hi - k + 1 /\ m <= 1
      <4>1. hi - k + 1 \in Nat /\ hi - k + 1 <= 1 BY <1>1, <2>2, <2>6
      <4> QED BY <4>1
    <3>2. 1 <= k /\ k <= hi + 1 /\ hi <= Len(bs) BY <1>1, <2>2, <2>6
    <3>3. TheseOf(w, bs, k, m) BY <2>4, <2>6, <3>1, <3>2, SomeElements
    <3> QED BY <3>1, <3>3 DEF TheseOf
  <2>9. /\ Shown(u) \in Seq(STRING) /\ Unmarked(Shown(u))
        /\ Shown(u) = <<>> \/ (Len(u) = 1 /\ Shown(u) = TextOf(u[1]))
    BY <2>7, ShownIsUnmarked
  <2>10. Shown(w) \in Seq(STRING) /\ Unmarked(Shown(w)) BY <2>8, ShownIsUnmarked
  <2>11. TextOf(bs[at]) \in Seq(STRING) BY TextsTyped
  <2>12. Around(Shown(u) \o p.text, Shown(u), TextOf(bs[at])) BY <1>3, <2>9, <2>11, AroundAndBefore
  <2>13. Around((Shown(u) \o p.text) \o Shown(w), Shown(u), TextOf(bs[at]))
    BY <2>9, <2>10, <2>11, <2>12, AroundAndAfter
  <2>14. Shown(u) = <<>> \/ \E i \in 1 .. Len(bs) : i # at /\ Shown(u) = TextOf(bs[i])
    <3>1. at - 1 # at BY <1>1
    <3> QED BY <1>1, <2>7, <2>9, <3>1
  <2>15. x.kind \in {"heading_and_following", "paragraph", "paragraphs"} BY <1>3, <2>5
  <2>16. Around(x.text, Shown(u), TextOf(bs[at])) BY <2>5, <2>13
  <2> QED BY <1>2, <1>4, <2>9, <2>14, <2>15, <2>16
<1>8. paragraphs = 0 \/ paragraphs = 1 OBVIOUS
<1> QED BY <1>6, <1>7, <1>8

-----------------------------------------------------------------------------
(* What is answered for a quote. *)

\* The parts of an answer that has a passage.
IsFound(c, kind, bs, at, text, q) ==
  /\ c.kind = kind /\ c.at = at
  /\ c.text = cap(delimit(text, q))
  /\ c.truncated = (Len(delimit(text, q)) > MaxChars)
  /\ c.path = heading_path(bs, Min(at))

LEMMA FoundParts ==
  ASSUME NEW kind, NEW bs, NEW at, NEW text, NEW q
  PROVE  IsFound(Found(kind, bs, at, text, q), kind, bs, at, text, q)
  BY DEF Found, Nowhere, IsFound

\* What is said of an answer, for a document and a quote.
AbsentSaid(bs, q, c) == c.kind = "not_found" <=> ~Holds(joined(bs), q)
Unique(bs, q) ==
  LET holding == {i \in DOMAIN bs : Holds(TextOf(bs[i]), q)}
  IN  \/ \E i \in DOMAIN bs : holding = {i} /\ Once(TextOf(bs[i]), q)
      \/ holding = {} /\ Once(joined(bs), q)
UniqueSaid(bs, q, c) == c.kind \in Placed <=> Unique(bs, q)
GuessSaid(bs, q, c) == c.kind \in Placed \ {"table", "table_row"} => Once(joined(bs), q)
MarkSaid(bs, q, paragraphs, c) ==
  c.kind \in Placed /\ (c.kind \in {"table", "table_row"} => c.kind = "table" /\ paragraphs = 0) =>
    KeptInPlace(c.text, joined(SubSeq(bs, Min(c.at), Max(c.at))), q, c.truncated)
PathSaid(bs, c) ==
  c.kind \in Placed => Members(c.path) = Governing(bs, Min(c.at), NotAHeading)

Said(bs, q, paragraphs, c) ==
  /\ AbsentSaid(bs, q, c) /\ UniqueSaid(bs, q, c) /\ GuessSaid(bs, q, c)
  /\ MarkSaid(bs, q, paragraphs, c) /\ PathSaid(bs, c)

\* What is cut begins as the text does, and ends in a note that is not a mark.
LEMMA CutBegins ==
  ASSUME NEW d \in Seq(Word), Len(d) > MaxChars
  PROVE  /\ cap(d) \in Seq(Word) /\ Len(cap(d)) = MaxChars + 1
         /\ \A k \in 1 .. MaxChars : cap(d)[k] = d[k]
         /\ cap(d)[MaxChars + 1] # OPEN
<1>1. PICK n \in Nat, m \in Nat : n = Len(d) /\ m = MaxChars /\ m < n BY PassageAssumption
<1>2. PICK x : x = SubSeq(d, 1, m) OBVIOUS
<1>3. x \in Seq(Word) /\ Len(x) = m /\ \A k \in 1 .. m : x[k] = d[k]
  <2>1. 1 \in Int /\ m \in Int /\ 1 <= 1 /\ 1 <= m + 1 /\ m <= Len(d) /\ m - 1 + 1 = m BY <1>1
  <2>2. x \in Seq(Word) /\ Len(x) = m - 1 + 1 /\ \A k \in 1 .. m - 1 + 1 : x[k] = d[1 + k - 1]
    BY <1>2, <2>1, CutOut
  <2>3. \A k \in 1 .. m : k \in 1 .. m - 1 + 1 /\ 1 + k - 1 = k BY <1>1
  <2> QED BY <2>1, <2>2, <2>3
<1>4. cap(d) = Append(x, TRUNCATED)
  <2>1. ~(n <= m) BY <1>1
  <2> QED BY <1>1, <1>2, <2>1 DEF cap
<1>5. TRUNCATED \in Word /\ TRUNCATED # OPEN
  <2>1. TRUNCATED \in Word BY DEF Word
  <2>2. TRUNCATED # OPEN BY DEF TRUNCATED, OPEN
  <2> QED BY <2>1, <2>2
<1>6. PICK w : w = TRUNCATED OBVIOUS
<1>7. /\ Append(x, w) \in Seq(Word) /\ Len(Append(x, w)) = m + 1
      /\ \A k \in 1 .. m : Append(x, w)[k] = x[k]
      /\ Append(x, w)[m + 1] = w
  <2>1. w \in Word BY <1>5, <1>6
  <2> QED BY <1>3, <2>1, AppendProperties
<1> QED BY <1>1, <1>3, <1>4, <1>5, <1>6, <1>7

\* The mark is the first bracket.
LEMMA MarkIs ==
  ASSUME NEW t \in Seq(Word), NEW n \in Nat, n = Len(t)
  PROVE  /\ Mark(t) \in 0 .. n
         /\ Mark(t) # 0 => t[Mark(t)] = OPEN
         /\ \A k \in 1 .. n : t[k] = OPEN => Mark(t) # 0 /\ Mark(t) <= k
<1> DEFINE I == {k \in 1 .. Len(t) : t[k] = OPEN}
<1>1. Mark(t) = IF I # {} THEN Min(I) ELSE 0 BY DEF SelectInSeq, Mark
<1>2. \A k : k \in I <=> k \in 1 .. n /\ t[k] = OPEN OBVIOUS
<1>3. I \in SUBSET Nat BY <1>2
<1> HIDE DEF I
<1>4. CASE I = {} BY <1>1, <1>2, <1>4
<1>5. CASE I # {}
  <2>1. PICK x \in I : \A k \in I : x <= k BY <1>3, <1>5, HasLeast
  <2>2. Min(I) \in I /\ \A k \in I : Min(I) <= k BY <2>1 DEF Min
  <2>3. Mark(t) \in I /\ \A k \in I : Mark(t) <= k BY <1>1, <1>5, <2>2
  <2>4. Mark(t) \in 1 .. n BY <1>2, <2>3
  <2> QED BY <1>2, <2>3, <2>4
<1> QED BY <1>4, <1>5

\* What is marked in place is so still when it is cut, if the mark is left.
LEMMA CutKeepsPlace ==
  ASSUME NEW d \in Seq(Word), NEW text \in Seq(STRING), NEW q \in Seq(STRING), Holds(text, q),
         InPlace(d, text, q)
  PROVE  KeptInPlace(cap(d), text, q, Len(d) > MaxChars)
<1>1. PICK n \in Nat, x \in Nat : n = Len(d) /\ x = MaxChars BY PassageAssumption
<1>2. CASE ~(n > x)
  <2>1. n <= x BY <1>2
  <2>2. cap(d) = d BY <1>1, <2>1 DEF cap
  <2> QED BY <1>1, <1>2, <2>2 DEF InPlace, KeptInPlace
<1>3. CASE n > x
  <2>1. PICK c \in Seq(Word) : /\ c = cap(d) /\ Len(c) = x + 1
                               /\ \A k \in 1 .. x : c[k] = d[k]
                               /\ c[x + 1] # OPEN
    BY <1>1, <1>3, CutBegins
  <2>2. PICK s \in Nat : s = Min(StartsIn(text, q)) /\ s >= 1
    <3>1. Min(StartsIn(text, q)) \in StartsIn(text, q) BY FirstStart
    <3>2. PICK m \in Nat, l \in Nat : m = Len(text) /\ l = Len(q) OBVIOUS
    <3>3. Min(StartsIn(text, q)) \in 1 .. m - l + 1 BY <3>1, <3>2 DEF StartsIn
    <3> QED BY <3>2, <3>3
  <2>3. PICK m : m = Mark(d) OBVIOUS
  <2>4. m # 0 /\ m >= s /\ SubSeq(d, m - s + 1, m - 1) = SubSeq(text, 1, s - 1)
    BY <2>2, <2>3 DEF InPlace
  <2>5. m \in 0 .. n /\ d[m] = OPEN /\ \A k \in 1 .. n : d[k] = OPEN => m <= k
    BY <1>1, <2>3, <2>4, MarkIs
  <2>6. SUFFICES ASSUME Mark(c) # 0
                 PROVE  Mark(c) = m /\ SubSeq(c, m - s + 1, m - 1) = SubSeq(text, 1, s - 1)
    BY <1>1, <1>3, <2>1, <2>2, <2>4 DEF KeptInPlace
  <2>7. PICK g : g = Mark(c) OBVIOUS
  <2>8. PICK y \in Nat : y = x + 1 OBVIOUS
  <2>9. g \in 0 .. y /\ c[g] = OPEN /\ \A k \in 1 .. y : c[k] = OPEN => g <= k
    BY <2>1, <2>6, <2>7, <2>8, MarkIs
  <2>10. g \in 1 .. x BY <2>1, <2>6, <2>7, <2>8, <2>9
  <2>11. m <= g BY <1>1, <1>3, <2>1, <2>5, <2>9, <2>10
  <2>12. m \in 1 .. x BY <1>1, <2>4, <2>5, <2>10, <2>11
  <2>13. g <= m BY <2>1, <2>5, <2>8, <2>9, <2>12
  <2>14. g = m BY <2>10, <2>11, <2>12, <2>13
  <2>15. PICK v \in Int, w \in Int : v = m - s + 1 /\ w = m - 1
    <3>1. m - s + 1 \in Int /\ m - 1 \in Int BY <2>2, <2>12
    <3> QED BY <3>1
  <2>19. m \in Int /\ 1 <= m /\ m <= x BY <1>1, <2>12
  <2>21. s \in Nat /\ 1 <= s /\ s <= m BY <2>2, <2>4, <2>19
  <2>20. 1 <= v /\ v <= w + 1 /\ w < x BY <2>15, <2>19, <2>21
  <2>16. 1 <= v /\ v <= w + 1 /\ w <= Len(c) /\ w <= Len(d) /\ w - v = w - v
    BY <1>1, <1>3, <2>1, <2>15, <2>20
  <2>17. SameWords(c, v, d, v, w - v)
    <3>1. SUFFICES ASSUME NEW k \in 0 .. w - v PROVE c[v + k] = d[v + k] BY DEF SameWords
    <3>2. v + k \in 1 .. x BY <1>1, <2>15, <2>20
    <3> QED BY <2>1, <3>2
  <2>18. Alike(Word, c, v, w, d, v, w) BY <2>16, <2>17, SameStretch
  <2> QED BY <2>4, <2>7, <2>14, <2>15, <2>18 DEF Alike
<1> QED BY <1>2, <1>3

\* An answer without a passage says whether the quote is there, and that it is not unique.
LEMMA NoPassage ==
  ASSUME NEW bs, NEW q, NEW paragraphs, NEW c, c.kind \in {"not_found", "ambiguous"},
         ~Unique(bs, q), c.kind = "not_found" <=> ~Holds(joined(bs), q)
  PROVE  Said(bs, q, paragraphs, c)
<1>1. c.kind \notin Placed BY DEF Placed
<1> QED BY <1>1 DEF Said, AbsentSaid, UniqueSaid, GuessSaid, MarkSaid, PathSaid

\* A quote that is once in an element that is not a table, and in no other, is nowhere
\* else in the document: across elements it would have a line end before its last word.
LEMMA NowhereElse ==
  ASSUME NEW bs \in Seq(Elements), NEW q \in Seq(STRING), Len(q) > 0,
         NEW at \in 1 .. Len(bs), bs[at].kind # "table", Once(TextOf(bs[at]), q),
         \A j \in 1 .. Len(bs) : Holds(TextOf(bs[j]), q) => j = at
  PROVE  Once(joined(bs), q)
<1>1. PICK n \in Nat, l \in Nat : n = Len(bs) /\ l = Len(q) /\ l > 0 BY TextsTyped
<1>2. PICK f \in Seq(STRING), b \in Nat : f = joined(bs) /\ b = Len(f) BY DocIsLaid
<1>3. PICK s \in Seq(Seq(STRING)) : s = Texts(bs) /\ Len(s) = n /\ \A i \in 1 .. n : s[i] = TextOf(bs[i])
  BY <1>1, TextsTyped
<1>4. PICK off : Offsets(s, off) /\ Laid(s, off, n, f)
  <2>1. PICK off : DocLaid(bs, off) BY DocIsLaid
  <2> QED BY <1>1, <1>2, <1>3, <2>1 DEF DocLaid
<1>5. /\ off \in [0 .. n -> Nat]
      /\ \A p \in 1 .. n : off[p - 1] \in Nat /\ off[p] \in Nat /\ off[p] = off[p - 1] + Len(s[p])
  <2>1. off \in [0 .. n -> Nat] /\ \A p \in 1 .. n : off[p] = off[p - 1] + Len(s[p])
    BY <1>3, <1>4 DEF Offsets
  <2>2. \A p \in 1 .. n : p \in 0 .. n /\ p - 1 \in 0 .. n BY <1>1
  <2> QED BY <2>1, <2>2
<1>6. PICK e \in Seq(STRING), m \in Nat : e = TextOf(bs[at]) /\ m = Len(e) /\ e = s[at]
  BY <1>1, <1>3, TextsTyped
<1>7. PICK x \in StartsIn(e, q) : TRUE BY <1>6 DEF Once, Holds
<1>8. x \in 1 .. m - l + 1 /\ \A j \in 1 .. l : e[x - 1 + j] = q[j]
  <2>1. Occurs(e, q, x) BY <1>7, StartsAre
  <2> QED BY <1>1, <1>6, <2>1 DEF Occurs
<1>9. \A k \in 1 .. m : e[k] = Newline => k = m
  <2>1. bs[at] \in Elements BY TextsTyped
  <2> QED BY <1>6, <2>1, ElementText
\* Wherever it is in the document it is in that element.
<1>10. ASSUME NEW t \in StartsIn(f, q)
       PROVE  \E u \in StartsIn(e, q) : t = off[at - 1] + u
  <2>1. t \in 1 .. b - l + 1 /\ \A j \in 1 .. l : f[t - 1 + j] = q[j]
    <3>1. Occurs(f, q, t) BY <1>10, StartsAre
    <3> QED BY <1>1, <1>2, <3>1 DEF Occurs
  <2>2. t \in Nat /\ t >= 1 /\ t + l - 1 <= b BY <1>1, <1>2, <2>1
  <2>3. PICK p \in 1 .. n : \E j \in 1 .. Len(s[p]) : t = off[p - 1] + j
    <3>1. t \in 1 .. b BY <1>1, <1>2, <2>2
    <3>2. Len(f) = off[n] BY <1>4 DEF Laid
    <3> QED BY <1>2, <1>4, <3>1, <3>2 DEF Laid
  <2>4. s[p] \in Seq(STRING) /\ bs[p] \in Elements /\ s[p] = TextOf(bs[p]) BY <1>1, <1>3, TextsTyped
  <2>5. PICK c \in Nat, h \in Nat : c = off[p - 1] /\ h = Len(s[p]) /\ off[p] = c + h
    <3>1. PICK h \in Nat : h = Len(s[p]) BY <2>4
    <3>2. off[p - 1] \in Nat /\ off[p] = off[p - 1] + h BY <1>5, <3>1
    <3> QED BY <3>1, <3>2
  <2>6. PICK u \in 1 .. h : t = c + u BY <2>3, <2>5
  <2>10. u \in Int /\ 1 <= u /\ u <= h /\ t = c + u BY <2>5, <2>6
  <2>7. \A k \in 1 .. h : f[c + k] = s[p][k] BY <1>4, <2>5 DEF Laid
  <2>8. CASE u + l - 1 <= h
    <3>1. u \in 1 .. h - l + 1 BY <1>1, <2>5, <2>8, <2>10
    <3>2. ASSUME NEW j \in 1 .. l PROVE s[p][u - 1 + j] = q[j]
      <4>3. j \in Int /\ 1 <= j /\ j <= l BY <1>1
      <4>4. u - 1 + j \in Int /\ 1 <= u - 1 + j /\ u - 1 + j <= h BY <2>8, <2>10, <4>3
      <4>5. c + (u - 1 + j) = t - 1 + j BY <2>2, <2>10, <4>3
      <4>1. u - 1 + j \in 1 .. h /\ c + (u - 1 + j) = t - 1 + j BY <4>4, <4>5
      <4>2. f[c + (u - 1 + j)] = s[p][u - 1 + j] BY <2>7, <4>1
      <4> QED BY <2>1, <4>1, <4>2
    <3>3. Occurs(s[p], q, u) BY <1>1, <2>5, <3>1, <3>2 DEF Occurs
    <3>4. u \in StartsIn(s[p], q) BY <2>4, <3>3, StartsAre
    <3>5. Holds(TextOf(bs[p]), q) BY <2>4, <3>4 DEF Holds
    <3>6. p = at BY <1>1, <3>5
    <3> QED BY <1>6, <2>5, <2>6, <3>4, <3>6
  <2>9. CASE ~(u + l - 1 <= h)
    <3>1. PICK j \in 1 .. l : j = h - u + 1 /\ j <= l - 1
      <4>2. h - u + 1 \in Int /\ 1 <= h - u + 1 /\ h - u + 1 <= l - 1 BY <2>9, <2>10
      <4>1. h - u + 1 \in 1 .. l /\ h - u + 1 <= l - 1 BY <4>2
      <4> QED BY <4>1
    <3>8. j \in Int /\ 1 <= j /\ j = h - u + 1 BY <1>1, <3>1
    <3>10. t - 1 + j = c + h BY <2>2, <2>10, <3>8
    <3>11. h \in 1 .. h BY <2>10
    <3>2. t - 1 + j = c + h /\ h \in 1 .. h BY <3>10, <3>11
    <3>3. f[c + h] = s[p][h] BY <2>7, <3>2
    <3>4. s[p][h] = Newline BY <2>4, <2>5, <3>2, ElementText
    <3>5. q[j] = Newline BY <2>1, <3>2, <3>3, <3>4
    <3>6. e[x - 1 + j] = Newline BY <1>8, <3>5
    <3>9. x \in Int /\ 1 <= x /\ x <= m - l + 1 BY <1>1, <1>6, <1>8
    <3>12. j <= l - 1 BY <3>1
    <3>13. x - 1 + j \in Int /\ 1 <= x - 1 + j /\ x - 1 + j < m BY <3>8, <3>9, <3>12
    <3>7. x - 1 + j \in 1 .. m /\ x - 1 + j # m BY <3>13
    <3> QED BY <1>9, <3>6, <3>7
  <2> QED BY <2>8, <2>9
<1>11. Holds(f, q) BY <1>1, <1>2, <1>6, HeldIsHeld DEF Once
<1>12. ASSUME NEW t \in StartsIn(f, q), NEW w \in StartsIn(f, q) PROVE t < w + l
  <2>1. PICK u \in StartsIn(e, q), v \in StartsIn(e, q) : t = off[at - 1] + u /\ w = off[at - 1] + v
    BY <1>10
  <2>2. u < v + l BY <1>1, <1>6 DEF Once
  <2>3. u \in Int /\ v \in Int BY <1>1, <1>6 DEF StartsIn
  <2>4. off[at - 1] \in Nat BY <1>1, <1>5
  <2>5. PICK o \in Nat : o = off[at - 1] BY <2>4
  <2>6. t = o + u /\ w = o + v BY <2>1, <2>5
  <2> QED BY <1>1, <2>2, <2>3, <2>6
<1> QED BY <1>1, <1>2, <1>11, <1>12 DEF Once

\* A quote across elements.
LEMMA SpanningSaid ==
  ASSUME NEW bs \in Seq(Elements), NEW q \in Seq(STRING), Len(q) > 0,
         \A i \in 1 .. Len(bs) : ~Holds(TextOf(bs[i]), q), NEW paragraphs
  PROVE  Said(bs, q, paragraphs, build_spanning(bs, q))
<1>1. PICK c : c = build_spanning(bs, q) OBVIOUS
<1>2. PICK n \in Nat : n = Len(bs) /\ DOMAIN bs = 1 .. n BY TextsTyped
<1>3. PICK f \in Seq(STRING) : f = joined(bs) /\ Unmarked(f) BY DocIsLaid
<1>0. /\ {i \in DOMAIN bs : Holds(TextOf(bs[i]), q)} = {}
      /\ \A i : {i} # {}
  BY <1>2
<1>4. CASE ~Holds(f, q)
  <2>1. c.kind = "not_found" BY <1>1, <1>3, <1>4 DEF build_spanning, Nowhere
  <2>2. ~Once(f, q) BY <1>4 DEF Once
  <2> QED BY <1>0, <1>1, <1>3, <1>4, <2>1, <2>2, NoPassage DEF Unique
<1>5. CASE Holds(f, q) /\ repeated(bs, q)
  <2>1. c.kind = "ambiguous" BY <1>1, <1>3, <1>5 DEF build_spanning, Nowhere
  <2>2. ~Once(f, q)
    <3>1. PICK m \in Nat : m = count(f, q) /\ (m = 1 <=> Once(f, q)) BY CountTells
    <3>2. m > 1 BY <1>3, <1>5, <3>1 DEF repeated
    <3> QED BY <3>1, <3>2
  <2> QED BY <1>0, <1>1, <1>3, <1>5, <2>1, <2>2, NoPassage DEF Unique
<1>6. CASE Holds(f, q) /\ ~repeated(bs, q)
  <2>1. PICK at : at = spanning(bs, q) OBVIOUS
  <2>2. PICK lo \in 1 .. n, hi \in 1 .. n : lo = Min(at) /\ hi = Max(at) /\ lo <= hi /\ Holds(joined(SubSeq(bs, lo, hi)), q)
    BY <1>2, <1>3, <1>6, <2>1, TouchedHold
  <2>3. PICK t : t = joined(SubSeq(bs, lo, hi)) OBVIOUS
  <2>4. c = Found("spanning", bs, at, t, q) BY <1>1, <1>3, <1>6, <2>1, <2>2, <2>3 DEF build_spanning
  <2>5. IsFound(c, "spanning", bs, at, t, q) BY <2>4, FoundParts
  <2>6. c.kind = "spanning" /\ c.at = at BY <2>5 DEF IsFound
  <2>7. AbsentSaid(bs, q, c) BY <1>3, <1>6, <2>6 DEF AbsentSaid
  <2>8. UniqueSaid(bs, q, c) /\ GuessSaid(bs, q, c)
    <3>1. PICK m \in Nat : m = count(f, q) /\ (m = 0 <=> ~Holds(f, q)) /\ (m = 1 => Once(f, q)) BY CountTells
    <3>2. ~(m > 1) BY <1>3, <1>6, <3>1 DEF repeated
    <3>3. m = 1 BY <1>6, <3>1, <3>2
    <3>4. Unique(bs, q) BY <1>0, <1>3, <3>1, <3>3 DEF Unique
    <3> QED BY <1>3, <2>6, <3>1, <3>3, <3>4 DEF UniqueSaid, GuessSaid, Placed
  <2>9. MarkSaid(bs, q, paragraphs, c)
    <3>1. SUFFICES KeptInPlace(c.text, t, q, c.truncated) BY <2>2, <2>3, <2>6 DEF MarkSaid
    <3>2. PICK sub \in Seq(Elements) : sub = SubSeq(bs, lo, hi)
      <4>1. PICK m \in Nat : m = hi - lo + 1
        <5>1. hi - lo + 1 \in Nat BY <1>2, <2>2
        <5> QED BY <5>1
      <4>2. lo \in Int /\ hi \in Int /\ 1 <= lo /\ lo <= hi + 1 /\ hi <= Len(bs) BY <1>2, <2>2
      <4>3. TheseOf(SubSeq(bs, lo, hi), bs, lo, m) BY <4>1, <4>2, SomeElements
      <4> QED BY <4>3 DEF TheseOf
    <3>3. t \in Seq(STRING) /\ Unmarked(t) /\ Holds(t, q) BY <2>2, <2>3, <3>2, DocIsLaid
    <3>4. c.text = cap(delimit(t, q)) /\ c.truncated = (Len(delimit(t, q)) > MaxChars)
      BY <2>5 DEF IsFound
    <3>5. PICK m \in Nat : m = Len(t) BY <3>3
    <3>6. 0 \in Nat /\ 0 + Len(t) <= Len(t) /\ \A k \in 1 .. Len(t) : t[0 + k] = t[k]
      <4>1. 0 + m <= m /\ \A k \in 1 .. m : 0 + k = k BY <3>5
      <4> QED BY <3>5, <4>1
    <3>7. \A s \in StartsIn(t, q) : s >= 0 + Min(StartsIn(t, q))
      <4>1. PICK x \in Nat : x = Min(StartsIn(t, q)) /\ \A s \in StartsIn(t, q) : x <= s BY <3>3, FirstStart
      <4>2. \A s \in StartsIn(t, q) : s \in Nat
        <5>1. Len(q) \in Nat OBVIOUS
        <5> QED BY <3>5, <5>1 DEF StartsIn
      <4> QED BY <4>1, <4>2
    <3>8. InPlace(delimit(t, q), t, q) BY <3>3, <3>6, <3>7, MarkStands
    <3>9. delimit(t, q) \in Seq(Word) BY <3>3, Delimited
    <3>10. KeptInPlace(cap(delimit(t, q)), t, q, Len(delimit(t, q)) > MaxChars)
      BY <3>3, <3>8, <3>9, CutKeepsPlace
    <3> QED BY <3>4, <3>10
  <2>10. PathSaid(bs, c)
    <3>1. c.path = heading_path(bs, lo) /\ Min(c.at) = lo BY <2>2, <2>5, <2>6 DEF IsFound
    <3>2. lo \in 1 .. Len(bs) BY <1>2
    <3> QED BY <3>1, <3>2, PathGoverns DEF PathSaid
  <2> QED BY <1>1, <2>7, <2>8, <2>9, <2>10 DEF Said
<1> QED BY <1>4, <1>5, <1>6

\* A quote in one element.
LEMMA OneElementSaid ==
  ASSUME NEW bs \in Seq(Elements), NEW q \in Seq(STRING), Len(q) > 0, NEW paragraphs \in 0 .. 1,
         NEW at \in 1 .. Len(bs), Once(TextOf(bs[at]), q),
         \A j \in 1 .. Len(bs) : Holds(TextOf(bs[j]), q) => j = at,
         NEW c, LET x == extended(bs, at, passage_at(bs, at, q), paragraphs)
                IN  IsFound(c, x.kind, bs, {at}, x.text, q)
  PROVE  Said(bs, q, paragraphs, c)
<1>1. PICK n \in Nat : n = Len(bs) /\ DOMAIN bs = 1 .. n BY TextsTyped
<1>2. PICK x : x = extended(bs, at, passage_at(bs, at, q), paragraphs) /\ IsFound(c, x.kind, bs, {at}, x.text, q)
  OBVIOUS
<1>3. PICK e \in Seq(STRING) : e = TextOf(bs[at]) /\ Unmarked(e)
  <2>1. bs[at] \in Elements BY TextsTyped
  <2> QED BY <2>1, TextUnmarked
<1>4. Holds(e, q) /\ Once(e, q) BY <1>3 DEF Once
<1>5. Holds(joined(bs), q) BY <1>3, <1>4, HeldIsHeld
<1>6. Min(c.at) = at /\ Max(c.at) = at
  <2>1. at >= at /\ at <= at BY <1>1
  <2>2. c.at = {at} BY <1>2 DEF IsFound
  <2>3. Min({at}) = at BY <2>1 DEF Min
  <2>4. Max({at}) = at BY <2>1 DEF Max
  <2> QED BY <2>2, <2>3, <2>4
<1>7. c.kind = x.kind BY <1>2 DEF IsFound
<1>8. \/ bs[at].kind = "table" /\ x.kind \in {"table", "table_row"}
      \/ bs[at].kind # "table" /\ x.kind \in {"heading_and_following", "paragraph", "paragraphs"}
  <2>1. CASE bs[at].kind = "table"
    <3>1. passage_at(bs, at, q).kind \in {"table", "table_row"} BY <2>1, PassageOfTable
    <3>2. x.kind \in {"table", "table_row"} BY <1>2, <3>1 DEF extended
    <3> QED BY <2>1, <3>2
  <2>2. CASE bs[at].kind # "table" BY <1>2, <2>2, ExtendedAround
  <2> QED BY <2>1, <2>2
<1>9. c.kind \in Placed /\ c.kind # "not_found" BY <1>7, <1>8 DEF Placed
<1>10. AbsentSaid(bs, q, c) BY <1>5, <1>9 DEF AbsentSaid
<1>11. UniqueSaid(bs, q, c)
  <2>1. at \in DOMAIN bs BY <1>1
  <2>2. \A i : i \in {j \in DOMAIN bs : Holds(TextOf(bs[j]), q)} <=> i = at BY <1>1, <1>3, <1>4, <2>1
  <2>3. {j \in DOMAIN bs : Holds(TextOf(bs[j]), q)} = {at} BY <2>2
  <2>4. Unique(bs, q) BY <1>3, <1>4, <2>1, <2>3 DEF Unique
  <2> QED BY <1>9, <2>4 DEF UniqueSaid
<1>12. PathSaid(bs, c)
  <2>1. c.path = heading_path(bs, at)
    <3>1. c.path = heading_path(bs, Min({at})) /\ c.at = {at} BY <1>2 DEF IsFound
    <3> QED BY <1>6, <3>1
  <2> QED BY <1>6, <2>1, PathGoverns DEF PathSaid
<1>14. GuessSaid(bs, q, c)
  <2>1. c.kind \in Placed \ {"table", "table_row"} => bs[at].kind # "table" BY <1>7, <1>8
  <2> QED BY <1>3, <1>4, <2>1, NowhereElse DEF GuessSaid
<1>15. joined(SubSeq(bs, Min(c.at), Max(c.at))) = e BY <1>3, <1>6, TextOfOne
<1>16. c.text = cap(delimit(x.text, q)) /\ c.truncated = (Len(delimit(x.text, q)) > MaxChars)
  BY <1>2 DEF IsFound
<1>17. PICK z \in Nat : z = Len(e) BY <1>3
\* A whole table, shown by itself.
<1>18. ASSUME bs[at].kind = "table", x.kind = "table", paragraphs = 0
       PROVE  KeptInPlace(c.text, e, q, c.truncated)
  <2>1. x = passage_at(bs, at, q) BY <1>2, <1>18 DEF extended
  <2>2. x.text = e BY <1>3, <1>18, <2>1, WholeTable
  <2>3. 0 + z <= z /\ \A k \in 1 .. z : 0 + k = k BY <1>17
  <2>4. \A s \in StartsIn(e, q) : s >= 0 + Min(StartsIn(e, q))
    <3>1. PICK y \in Nat : y = Min(StartsIn(e, q)) /\ \A s \in StartsIn(e, q) : y <= s
      BY <1>4, FirstStart
    <3>2. \A s \in StartsIn(e, q) : s \in Nat
      <4>1. Len(q) \in Nat OBVIOUS
      <4> QED BY <1>17, <4>1 DEF StartsIn
    <3> QED BY <3>1, <3>2
  <2>5. InPlace(delimit(e, q), e, q) BY <1>3, <1>4, <1>17, <2>3, <2>4, MarkStands
  <2>6. delimit(e, q) \in Seq(Word) BY <1>3, <1>4, Delimited
  <2> QED BY <1>4, <1>16, <2>2, <2>5, <2>6, CutKeepsPlace
<1>13. MarkSaid(bs, q, paragraphs, c)
  <2>1. SUFFICES ASSUME bs[at].kind # "table" PROVE KeptInPlace(c.text, e, q, c.truncated)
    <3>1. CASE bs[at].kind # "table" BY <1>15, <2>1, <3>1 DEF MarkSaid
    <3>2. CASE bs[at].kind = "table"
      <4>1. c.kind \in {"table", "table_row"} BY <1>7, <1>8, <3>2
      <4> QED BY <1>7, <1>15, <1>18, <3>2, <4>1 DEF MarkSaid
    <3> QED BY <3>1, <3>2
  <2>2. PICK before \in Seq(STRING) :
          /\ Around(x.text, before, e)
          /\ before = <<>> \/ \E i \in 1 .. Len(bs) : i # at /\ before = TextOf(bs[i])
    BY <1>2, <1>3, <2>1, ExtendedAround
  <2>3. PICK t \in Seq(STRING) : t = x.text /\ Unmarked(t) BY <2>2 DEF Around
  <2>4. PICK a \in Nat : a = Len(before) OBVIOUS
  <2>5. /\ a + Len(e) <= Len(t)
        /\ \A k \in 1 .. a : t[k] = before[k]
        /\ \A k \in 1 .. Len(e) : t[a + k] = e[k]
    BY <2>2, <2>3, <2>4 DEF Around
  <2>6. ~Holds(before, q) /\ (a > 0 => before[a] = Newline)
    <3>1. CASE before = <<>>
      <4>1. a = 0 BY <2>4, <3>1, EmptySeq
      <4>2. PICK l \in Nat : l = Len(q) /\ l > 0 OBVIOUS
      <4>3. \A i \in 1 .. 0 - l + 1 : FALSE BY <4>2
      <4>4. StartsIn(before, q) = {} BY <2>4, <4>1, <4>2, <4>3 DEF StartsIn
      <4> QED BY <4>1, <4>4 DEF Holds
    <3>2. CASE \E i \in 1 .. Len(bs) : i # at /\ before = TextOf(bs[i])
      <4>1. PICK i \in 1 .. Len(bs) : i # at /\ before = TextOf(bs[i]) BY <3>2
      <4>2. ~Holds(before, q) BY <4>1
      <4>3. bs[i] \in Elements BY TextsTyped
      <4>4. a > 0 => a \in 1 .. Len(TextOf(bs[i])) BY <2>4, <4>1
      <4>5. a > 0 => before[a] = Newline BY <2>4, <4>1, <4>3, <4>4, ElementText
      <4> QED BY <4>2, <4>5
    <3> QED BY <2>2, <3>1, <3>2
  <2>7. \A k \in 1 .. Len(e) : e[k] = Newline => k = Len(e)
    <3>1. bs[at] \in Elements BY TextsTyped
    <3> QED BY <1>3, <2>1, <3>1, ElementText
  <2>8. \A s \in StartsIn(t, q) : s >= a + Min(StartsIn(e, q))
    <3>1. NeverBefore(t, before, e, q) BY <1>4, <2>4, <2>5, <2>6, <2>7, NotBefore
    <3> QED BY <2>4, <3>1 DEF NeverBefore
  <2>9. Holds(t, q) /\ InPlace(delimit(t, q), e, q) BY <1>3, <1>4, <2>3, <2>5, <2>8, MarkStands
  <2>10. delimit(t, q) \in Seq(Word) BY <2>3, <2>9, Delimited
  <2> QED BY <1>4, <1>16, <2>3, <2>9, <2>10, CutKeepsPlace
<1> QED BY <1>10, <1>11, <1>12, <1>13, <1>14 DEF Said

\* Every answer to a quote that has text.
LEMMA BuildSaid ==
  ASSUME NEW bs \in Seq(Elements), NEW q \in Seq(STRING), has_text(q), NEW paragraphs \in 0 .. 1
  PROVE  Said(bs, q, paragraphs, build(bs, q, paragraphs))
<1>1. PICK n \in Nat : n = Len(bs) /\ DOMAIN bs = 1 .. n BY TextsTyped
<1>2. Len(q) > 0
  <2>1. Len(q) \in Nat \ {0} BY TextHasWords
  <2> QED BY <2>1
<1>3. PICK c : c = build(bs, q, paragraphs) OBVIOUS
<1>4. PICK m \in Nat :
        /\ m = occurrences(bs, q)
        /\ m = 0 <=> \A i \in 1 .. n : ~Holds(TextOf(bs[i]), q)
        /\ m = 1 <=> \E i \in 1 .. n : /\ Once(TextOf(bs[i]), q)
                                       /\ \A j \in 1 .. n : Holds(TextOf(bs[j]), q) => j = i
  BY <1>1, <1>2, OccurrencesTell
<1>5. CASE m = 0
  <2>1. c = build_spanning(bs, q) BY <1>3, <1>4, <1>5 DEF build
  <2>2. \A i \in 1 .. Len(bs) : ~Holds(TextOf(bs[i]), q) BY <1>1, <1>4, <1>5
  <2> QED BY <1>2, <1>3, <2>1, <2>2, SpanningSaid
<1>6. CASE m > 1
  <2>1. c.kind = "ambiguous"
    <3>1. m # 0 /\ ambiguous(m) BY <1>6 DEF ambiguous
    <3> QED BY <1>3, <1>4, <3>1 DEF build, Nowhere
  <2>2. PICK i \in 1 .. Len(bs) : Holds(TextOf(bs[i]), q) BY <1>1, <1>4, <1>6
  <2>3. Holds(joined(bs), q) BY <1>2, <2>2, HeldIsHeld
  <2>4. PICK holding : holding = {j \in DOMAIN bs : Holds(TextOf(bs[j]), q)} OBVIOUS
  <2>5. holding # {} BY <1>1, <2>2, <2>4
  <2>6. ASSUME NEW j \in DOMAIN bs, holding = {j}, Once(TextOf(bs[j]), q) PROVE FALSE
    <3>1. \A k \in 1 .. n : Holds(TextOf(bs[k]), q) => k = j BY <1>1, <2>4, <2>6
    <3> QED BY <1>1, <1>4, <1>6, <2>6, <3>1
  <2>7. ~Unique(bs, q) BY <2>4, <2>5, <2>6 DEF Unique
  <2> QED BY <1>3, <2>1, <2>3, <2>7, NoPassage
<1>7. CASE m = 1
  <2>1. PICK at \in 1 .. Len(bs) : /\ Once(TextOf(bs[at]), q)
                                   /\ \A j \in 1 .. Len(bs) : Holds(TextOf(bs[j]), q) => j = at
    BY <1>1, <1>4, <1>7
  <2>2. {i \in DOMAIN bs : Holds(TextOf(bs[i]), q)} = {at}
    <3>1. \A i : i \in {j \in DOMAIN bs : Holds(TextOf(bs[j]), q)} <=> i = at BY <1>1, <2>1 DEF Once
    <3> QED BY <3>1
  <2>3. Min({at}) = at
    <3>1. at <= at BY <1>1
    <3> QED BY <3>1 DEF Min
  <2>4. PICK x : x = extended(bs, at, passage_at(bs, at, q), paragraphs) OBVIOUS
  <2>5. c = Found(x.kind, bs, {at}, x.text, q)
    <3>1. m # 0 /\ ~ambiguous(m) BY <1>7 DEF ambiguous
    <3> QED BY <1>3, <1>4, <2>2, <2>3, <2>4, <3>1 DEF build
  <2>6. IsFound(c, x.kind, bs, {at}, x.text, q) BY <2>5, FoundParts
  <2> QED BY <1>2, <1>3, <2>1, <2>4, <2>6, OneElementSaid
<1>8. m = 0 \/ m = 1 \/ m > 1 OBVIOUS
<1> QED BY <1>5, <1>6, <1>7, <1>8

-----------------------------------------------------------------------------
(* The passage shown with a comment is the one it is about. *)

\* What is asked about is a document, and the answer, while there is one, is what build
\* makes of it.
PassageInv ==
  /\ blocks \in Seq(Elements)
  /\ context \in {Nowhere("none"), Nowhere("unsupported")} \/
       /\ request.quote \in Quotes /\ request.paragraphs \in 0 .. 1
       /\ context = build(blocks, request.quote, request.paragraphs)

LEMMA PassageInvHolds == PassageSpec => []PassageInv
<1>1. PassageInit => PassageInv
  <2>1. <<>> \in Seq(Elements) OBVIOUS
  <2> QED BY <2>1 DEF PassageInit, PassageInv, Nowhere
<1>2. PassageInv /\ [PassageNext]_passageVars => PassageInv'
  <2>1. SUFFICES ASSUME PassageInv, [PassageNext]_passageVars PROVE PassageInv' OBVIOUS
  <2>2. ASSUME NEW e \in Elements, WriteElement(e) PROVE PassageInv'
    <3>1. Append(blocks, e) \in Seq(Elements) BY <2>1 DEF PassageInv
    <3> QED BY <2>2, <3>1 DEF WriteElement, PassageInv, Nowhere
  <2>3. ASSUME NEW quote \in Quotes, NEW paragraphs \in 0 .. 1, AskContext(quote, paragraphs)
        PROVE  PassageInv'
    <3>1. request' = [quote |-> quote, paragraphs |-> paragraphs] BY <2>3 DEF AskContext
    <3>2. request'.quote = quote /\ request'.paragraphs = paragraphs BY <3>1
    <3> QED BY <2>1, <2>3, <3>2 DEF AskContext, PassageInv
  <2>4. CASE AskElsewhere BY <2>1, <2>4 DEF AskElsewhere, PassageInv, Nowhere
  <2>5. CASE UNCHANGED passageVars BY <2>1, <2>5 DEF passageVars, PassageInv
  <2> QED BY <2>1, <2>2, <2>3, <2>4, <2>5 DEF PassageNext
<1> QED BY <1>1, <1>2, PTL DEF PassageSpec

\* A comment's quote is given a passage if and only if it is once in one element and in no
\* other, or in none and once across elements; outside tables it is then nowhere else in the
\* document; the passage is marked where the quote is, also when it is cut, and said to be
\* under the headings above it (_context.py:38-44, 160-398).
THEOREM PassagesAreTheirOwn == PassageSpec => []PassageIsItsOwn
<1>1. ASSUME PassageInv PROVE PassageIsItsOwn
  <2>1. CASE ~Asked
    BY <2>1 DEF PassageIsItsOwn, AbsentIsAbsent, PlacedByElement, NeverGuessed, MarkedInPlace,
                UnderItsHeadings
  <2>2. CASE Asked
    <3>0. context \notin {Nowhere("none"), Nowhere("unsupported")} BY <2>2 DEF Asked, Nowhere
    <3>1. PICK q : q = request.quote OBVIOUS
    <3>2. q \in Seq(STRING) /\ has_text(q) /\ context = build(blocks, q, request.paragraphs)
      BY <1>1, <2>2, <3>0, <3>1, PassageAssumption DEF Asked, PassageInv
    <3>3. Said(blocks, q, request.paragraphs, context)
      <4>1. blocks \in Seq(Elements) /\ request.paragraphs \in 0 .. 1 BY <1>1, <3>0 DEF PassageInv
      <4> QED BY <3>2, <4>1, BuildSaid
    <3>4. AbsentIsAbsent BY <3>1, <3>3 DEF Said, AbsentSaid, AbsentIsAbsent, Whole
    <3>5. PlacedByElement BY <3>1, <3>3 DEF Said, UniqueSaid, Unique, PlacedByElement, Whole
    <3>6. MarkedInPlace BY <3>1, <3>3 DEF Said, MarkSaid, MarkedInPlace, KeptInPlace, Mark, Tabular
    <3>8. NeverGuessed BY <3>1, <3>3 DEF Said, GuessSaid, NeverGuessed, Whole, Tabular
    <3>7. UnderItsHeadings
      <4>1. SUFFICES ASSUME context.kind \in Placed
                     PROVE  LET at == Min(context.at)
                                above == {i \in 1 .. at : is_heading(blocks[i])}
                                governing == {i \in above : \A j \in above : j > i => blocks[j].level > blocks[i].level}
                            IN  {context.path[i] : i \in DOMAIN context.path} = governing
        BY DEF UnderItsHeadings
      <4>2. Members(context.path) = Governing(blocks, Min(context.at), NotAHeading)
        BY <3>3, <4>1 DEF Said, PathSaid
      <4> DEFINE at == Min(context.at)
                 above == {i \in 1 .. at : is_heading(blocks[i])}
                 governing == {i \in above : \A j \in above : j > i => blocks[j].level > blocks[i].level}
      <4>3. governing = Governing(blocks, at, NotAHeading)
        <5>1. \A i \in above : blocks[i].level < NotAHeading BY DEF is_heading
        <5> QED BY <5>1 DEF Governing
      <4> QED BY <4>2, <4>3 DEF Members
    <3> QED BY <3>4, <3>5, <3>6, <3>7, <3>8 DEF PassageIsItsOwn
  <2> QED BY <2>1, <2>2
<1> QED BY <1>1, PassageInvHolds, PTL

-----------------------------------------------------------------------------
(* The kinds of answers, and how long a passage is. *)

LEMMA PickedIsThere ==
  ASSUME NEW n \in Nat, NEW I, \A i \in I : i \in 1 .. n
  PROVE  (IF I # {} THEN Min(I) ELSE 0) \in 0 .. n
<1>1. CASE I = {} BY <1>1
<1>2. CASE I # {}
  <2>1. I \in SUBSET Nat OBVIOUS
  <2>2. PICK x \in I : \A i \in I : x <= i BY <1>2, <2>1, HasLeast
  <2>3. Min(I) \in I BY <2>2 DEF Min
  <2> QED BY <1>2, <2>3
<1> QED BY <1>1, <1>2

\* A row under the header is a text, and so is one without.
LEMMA LinesAreText ==
  ASSUME NEW a \in Seq(STRING), NEW b \in Seq(STRING), Newline \in STRING \/ <<>> \in {a, b}
  PROVE  lines(a, b) \in Seq(STRING)
<1>1. CASE <<>> \in {a, b}
  <2>1. lines(a, b) = a \o b BY <1>1 DEF lines
  <2> QED BY <2>1, ConcatProperties
<1>2. CASE <<>> \notin {a, b}
  <2>1. PICK o \in Seq(STRING) : o = <<Newline>>
    <3>1. Newline \in STRING BY <1>2
    <3> QED BY <3>1, OneWord
  <2>2. lines(a, b) = (a \o o) \o b BY <1>2, <2>1 DEF lines
  <2>3. a \o o \in Seq(STRING) BY <2>1, ConcatProperties
  <2> QED BY <2>2, <2>3, ConcatProperties
<1> QED BY <1>1, <1>2

\* A row ends in a newline, so where there are two the newline is a word.
LEMMA TableIsText ==
  ASSUME NEW bs \in Seq(Elements), NEW at \in 1 .. Len(bs), bs[at].kind = "table", NEW q
  PROVE  passage_at(bs, at, q).text \in Seq(STRING)
<1>1. MaxChars \in Nat /\ bs[at] \in Elements BY PassageAssumption, TextsTyped
<1>2. PICK p \in Seq(STRING) : p = TextOf(bs[at]) BY TextsTyped
<1>3. PICK n \in Nat : n = Len(p) BY LenProperties
<1>4. n <= MaxChars \/ n > MaxChars BY <1>1, <1>3
<1>5. CASE n <= MaxChars
  <2>1. ~(n > MaxChars) BY <1>1, <1>5
  <2>2. passage_at(bs, at, q) = [kind |-> "table", text |-> p]
    BY <1>2, <1>3, <1>5, <2>1 DEF passage_at, is_heading
  <2> QED BY <2>2
<1>6. CASE n > MaxChars
  <2> DEFINE I == {i \in 1 .. Len(bs[at].rows) : Holds(bs[at].rows[i], q)}
             here == IF I # {} THEN Min(I) ELSE 0
             a == IF here = 1 THEN <<>> ELSE bs[at].rows[1]
             b == IF here = 0 THEN <<>> ELSE bs[at].rows[here]
  <2>1. passage_at(bs, at, q) = [kind |-> "table_row", text |-> lines(a, b)]
    <3>1. ~(n <= MaxChars) BY <1>1, <1>6
    <3>2. here = SelectInSeq(bs[at].rows, LAMBDA r : Holds(r, q)) BY DEF SelectInSeq
    <3> QED BY <1>2, <1>3, <1>6, <3>1, <3>2 DEF passage_at, is_heading
  <2>2. PICK s \in Seq(Seq(STRING)) : s = bs[at].rows BY <1>1, PassageAssumption
  <2>3. PICK l \in Nat : l = Len(s) /\ DOMAIN s = 1 .. l BY <2>2
  <2>4. l > 0
    <3>1. SUFFICES ASSUME l = 0 PROVE FALSE BY <2>3
    <3>0. Len(s) = 0 /\ Len(s) <= 1 BY <2>3, <3>1
    <3>2. FlattenSeq(s) = <<>> BY <2>2, <3>0, FlattenFew
    <3>3. p = <<>> BY <1>2, <2>2, <3>2 DEF TextOf
    <3>4. n = 0 BY <1>3, <3>3
    <3> QED BY <1>1, <1>6, <3>4
  <2>5. here \in 0 .. l
    <3>1. \A i \in I : i \in 1 .. l BY <2>2, <2>3
    <3> HIDE DEF I
    <3> QED BY <3>1, PickedIsThere
  <2> HIDE DEF here
  <2>6. \A i \in 1 .. l : s[i] \in Seq(STRING) BY <2>3, ElementOfSeq
  <2>7. <<>> \in Seq(STRING) OBVIOUS
  <2>8. 1 \in 1 .. l /\ (here # 0 => here \in 1 .. l) BY <2>3, <2>4, <2>5
  <2>9. a \in Seq(STRING) /\ b \in Seq(STRING)
    <3>1. a = (IF here = 1 THEN <<>> ELSE s[1]) /\ b = (IF here = 0 THEN <<>> ELSE s[here]) BY <2>2
    <3> QED BY <2>6, <2>7, <2>8, <3>1
  <2>10. Newline \in STRING \/ <<>> \in {a, b}
    <3>1. SUFFICES ASSUME a # <<>> PROVE Newline \in STRING OBVIOUS
    <3>2. a = s[1] BY <2>2, <3>1
    <3>3. PICK k \in Nat : k = Len(a) BY <2>9, LenProperties
    <3>4. k > 0 /\ k \in DOMAIN a /\ DOMAIN a = 1 .. k BY <2>9, <3>1, <3>3
    <3>5. a[k] \in STRING BY <2>9, <3>3, <3>4, ElementOfSeq
    <3>6. 1 \in DOMAIN s /\ k = Len(s[1]) /\ k \in DOMAIN s[1] BY <2>3, <2>8, <3>2, <3>3, <3>4
    <3>7. s[1][k] = Newline BY <1>1, <2>2, <3>6, PassageAssumption
    <3> QED BY <3>2, <3>5, <3>7
  <2> HIDE DEF a, b
  <2> QED BY <2>1, <2>9, <2>10, LinesAreText
<1> QED BY <1>4, <1>5, <1>6

LEMMA ShownIsText ==
  ASSUME NEW bs \in Seq(Elements)
  PROVE  Shown(bs) \in Seq(STRING)
<1>1. PICK n \in Nat : n = Len(bs) /\ DOMAIN bs = 1 .. n BY TextsTyped
<1>2. \A i \in 1 .. n : TextOf(bs[i]) \in Seq(STRING) BY <1>1, TextsTyped
<1>3. PICK t : t = [i \in 1 .. n |-> IF has_text(TextOf(bs[i])) THEN TextOf(bs[i]) ELSE <<>>] OBVIOUS
<1>4. <<>> \in Seq(STRING) OBVIOUS
<1>5. t \in [1 .. n -> Seq(STRING)] BY <1>2, <1>3, <1>4
<1>6. t \in Seq(Seq(STRING)) BY <1>5
<1>7. Shown(bs) = FlattenSeq(t) BY <1>1, <1>3 DEF Shown
<1> QED BY <1>6, <1>7, FlattenPositions

LEMMA ExtendedIsText ==
  ASSUME NEW bs \in Seq(Elements), NEW at \in 1 .. Len(bs), NEW q, NEW paragraphs \in 0 .. 1
  PROVE  LET x == extended(bs, at, passage_at(bs, at, q), paragraphs)
         IN  x.kind \in Placed /\ x.text \in Seq(STRING)
<1>1. PICK n \in Nat : n = Len(bs) BY TextsTyped
<1>2. PICK p : p = passage_at(bs, at, q) OBVIOUS
<1>3. p.kind \in Placed /\ p.text \in Seq(STRING)
  <2>1. CASE bs[at].kind = "table" BY <1>2, <2>1, PassageOfTable, TableIsText DEF Placed
  <2>2. CASE bs[at].kind # "table"
    <3>1. p.kind \in Placed /\ Around(p.text, <<>>, TextOf(bs[at])) BY <1>2, <2>2, PassageOfAnother DEF Placed
    <3> QED BY <3>1 DEF Around
  <2> QED BY <2>1, <2>2
<1>4. PICK x : x = extended(bs, at, p, paragraphs) OBVIOUS
<1>5. CASE paragraphs = 0
  <2>1. x = p BY <1>4, <1>5 DEF extended
  <2> QED BY <1>2, <1>3, <1>4, <2>1
<1>6. CASE paragraphs = 1
  <2>1. PICK lo \in Int, j \in Int : lo = (IF at > 1 THEN at - 1 ELSE 1) /\ j = at - 1
    <3>1. (IF at > 1 THEN at - 1 ELSE 1) \in Int /\ at - 1 \in Int BY <1>1
    <3> QED BY <3>1
  <2>2. PICK hi \in Int, k \in Int : hi = (IF at + 1 < Len(bs) THEN at + 1 ELSE Len(bs)) /\ k = at + 1
    <3>1. (IF at + 1 < Len(bs) THEN at + 1 ELSE Len(bs)) \in Int /\ at + 1 \in Int BY <1>1
    <3> QED BY <3>1
  <2>3. PICK u : u = SubSeq(bs, lo, j) OBVIOUS
  <2>4. PICK w : w = SubSeq(bs, k, hi) OBVIOUS
  <2>5. x = [kind |-> IF p.kind = "paragraph" THEN "paragraphs" ELSE p.kind,
             text |-> (Shown(u) \o p.text) \o Shown(w)]
    BY <1>4, <1>6, <2>1, <2>2, <2>3, <2>4 DEF extended, Shown
  <2>6. u \in Seq(Elements)
    <3>1. 1 <= lo /\ lo <= j + 1 /\ j <= Len(bs) BY <1>1, <2>1
    <3> QED BY <2>3, <3>1, CutOut
  <2>7. w \in Seq(Elements)
    <3>1. 1 <= k /\ k <= hi + 1 /\ hi <= Len(bs) BY <1>1, <2>2
    <3> QED BY <2>4, <3>1, CutOut
  <2>8. Shown(u) \in Seq(STRING) /\ Shown(w) \in Seq(STRING) BY <2>6, <2>7, ShownIsText
  <2>9. Shown(u) \o p.text \in Seq(STRING) BY <1>3, <2>8, ConcatProperties
  <2>10. (Shown(u) \o p.text) \o Shown(w) \in Seq(STRING) BY <2>8, <2>9, ConcatProperties
  <2>11. x.text \in Seq(STRING) /\ x.kind \in Placed BY <1>3, <2>5, <2>10 DEF Placed
  <2> QED BY <1>2, <1>4, <2>11
<1>7. paragraphs = 0 \/ paragraphs = 1 OBVIOUS
<1> QED BY <1>5, <1>6, <1>7

\* A marked text, whether it holds the quote or not.
LEMMA DelimitTyped ==
  ASSUME NEW text \in Seq(STRING), NEW q \in Seq(STRING)
  PROVE  delimit(text, q) \in Seq(Word)
<1>1. CASE ~Holds(text, q)
  <2>1. delimit(text, q) = text BY <1>1 DEF delimit
  <2> QED BY <2>1, OfWords
<1>2. CASE Holds(text, q)
  <2>1. PICK n \in Nat, l \in Nat : n = Len(text) /\ l = Len(q)
    <3>1. Len(text) \in Nat /\ Len(q) \in Nat OBVIOUS
    <3> QED BY <3>1
  <2>2. PICK i \in StartsIn(text, q) : i = Min(StartsIn(text, q)) BY <1>2, FirstStart
  <2>3. i \in 1 .. n - l + 1 BY <2>1, <2>2 DEF StartsIn
  <2>4. PICK x \in Int, y \in Int : x = i - 1 /\ y = i + l
    <3>1. i - 1 \in Int /\ i + l \in Int BY <2>1, <2>3
    <3> QED BY <3>1
  <2>5. 1 <= 1 /\ 1 <= x + 1 /\ x <= Len(text) /\ 1 <= y /\ y <= n + 1 /\ n <= Len(text) /\ n \in Int /\ 1 \in Int
    BY <2>1, <2>3, <2>4
  <2>6. PICK a \in Seq(STRING) : a = SubSeq(text, 1, x) BY <2>5, CutOut
  <2>7. PICK z \in Seq(STRING) : z = SubSeq(text, y, n) BY <2>5, CutOut
  <2>8. PICK o \in Seq(Word) : o = <<OPEN>>
    <3>1. OPEN \in Word BY DEF Word
    <3> QED BY <3>1, OneWord
  <2>9. PICK c \in Seq(Word) : c = <<CLOSE>>
    <3>1. CLOSE \in Word BY DEF Word
    <3> QED BY <3>1, OneWord
  <2>10. a \in Seq(Word) /\ q \in Seq(Word) /\ z \in Seq(Word) BY <2>6, <2>7, OfWords
  <2>11. delimit(text, q) = ((((a \o o) \o q) \o c) \o z)
    BY <1>2, <2>1, <2>2, <2>4, <2>6, <2>7, <2>8, <2>9 DEF delimit
  <2>12. a \o o \in Seq(Word) BY <2>8, <2>10, ConcatProperties
  <2>13. (a \o o) \o q \in Seq(Word) BY <2>10, <2>12, ConcatProperties
  <2>14. ((a \o o) \o q) \o c \in Seq(Word) BY <2>9, <2>13, ConcatProperties
  <2>15. (((a \o o) \o q) \o c) \o z \in Seq(Word) BY <2>10, <2>14, ConcatProperties
  <2> QED BY <2>11, <2>15
<1> QED BY <1>1, <1>2

LEMMA CapBounds ==
  ASSUME NEW d \in Seq(Word)
  PROVE  Len(cap(d)) <= MaxChars + (IF Len(d) > MaxChars THEN 1 ELSE 0)
<1>1. PICK n \in Nat : n = Len(d) BY LenProperties
<1>2. MaxChars \in Nat BY PassageAssumption
<1>3. CASE n <= MaxChars
  <2>1. cap(d) = d /\ ~(n > MaxChars) BY <1>1, <1>2, <1>3 DEF cap
  <2> QED BY <1>1, <1>2, <1>3, <2>1
<1>4. CASE n > MaxChars
  <2>1. Len(cap(d)) = MaxChars + 1 BY <1>1, <1>4, CutBegins
  <2> QED BY <1>1, <1>2, <1>4, <2>1
<1> QED BY <1>1, <1>2, <1>3, <1>4

\* An answer of a known kind, within the limit, under headings of the document.
AnswerTyped(bs, c) ==
  /\ c.kind \in Placed \cup {"none", "unsupported", "no_quote", "not_found", "ambiguous"}
  /\ Len(c.text) <= MaxChars + (IF c.truncated THEN 1 ELSE 0)
  /\ \A i \in DOMAIN c.path : c.path[i] \in DOMAIN bs

LEMMA EmptyAnswer ==
  ASSUME NEW bs, NEW c, c.kind \in {"none", "unsupported", "no_quote", "not_found", "ambiguous"},
         c.text = <<>>, c.path = <<>>
  PROVE  AnswerTyped(bs, c)
<1>1. MaxChars \in Nat /\ Len(<<>>) = 0 /\ DOMAIN <<>> = {} BY PassageAssumption
<1>2. 0 <= MaxChars + (IF c.truncated THEN 1 ELSE 0) BY <1>1
<1> QED BY <1>1, <1>2 DEF AnswerTyped

LEMMA NowhereTyped ==
  ASSUME NEW bs, NEW kind \in {"none", "unsupported", "no_quote", "not_found", "ambiguous"}
  PROVE  AnswerTyped(bs, Nowhere(kind))
<1>1. Nowhere(kind).kind = kind /\ Nowhere(kind).text = <<>> /\ Nowhere(kind).path = <<>> BY DEF Nowhere
<1> QED BY <1>1, EmptyAnswer

LEMMA FoundTyped ==
  ASSUME NEW bs \in Seq(Elements), NEW q \in Seq(STRING), NEW text \in Seq(STRING), NEW kind \in Placed,
         NEW at, Min(at) \in 1 .. Len(bs)
  PROVE  AnswerTyped(bs, Found(kind, bs, at, text, q))
<1>1. PICK c : c = Found(kind, bs, at, text, q) /\ IsFound(c, kind, bs, at, text, q) BY FoundParts
<1>2. /\ c.kind = kind /\ c.text = cap(delimit(text, q)) /\ c.path = heading_path(bs, Min(at))
      /\ c.truncated = (Len(delimit(text, q)) > MaxChars)
  BY <1>1 DEF IsFound
<1>3. Len(c.text) <= MaxChars + (IF c.truncated THEN 1 ELSE 0)
  <2>1. PICK d \in Seq(Word) : d = delimit(text, q) BY DelimitTyped
  <2> QED BY <1>2, <2>1, CapBounds
<1>4. Members(c.path) = Governing(bs, Min(at), NotAHeading) BY <1>2, PathGoverns
<1>5. ASSUME NEW i \in DOMAIN c.path PROVE c.path[i] \in DOMAIN bs
  <2>1. c.path[i] \in Members(c.path) BY DEF Members
  <2>2. c.path[i] \in 1 .. Min(at) BY <1>4, <2>1 DEF Governing
  <2>3. PICK n \in Nat : n = Len(bs) /\ DOMAIN bs = 1 .. n BY TextsTyped
  <2> QED BY <2>2, <2>3
<1> QED BY <1>1, <1>2, <1>3, <1>5 DEF AnswerTyped

LEMMA SpanningTyped ==
  ASSUME NEW bs \in Seq(Elements), NEW q \in Seq(STRING), Len(q) > 0
  PROVE  AnswerTyped(bs, build_spanning(bs, q))
<1>1. PICK c : c = build_spanning(bs, q) OBVIOUS
<1>2. PICK n \in Nat : n = Len(bs) BY TextsTyped
<1>3. CASE ~Holds(joined(bs), q)
  <2>1. c = Nowhere("not_found") BY <1>1, <1>3 DEF build_spanning
  <2> QED BY <1>1, <2>1, NowhereTyped
<1>4. CASE Holds(joined(bs), q) /\ repeated(bs, q)
  <2>1. c = Nowhere("ambiguous") BY <1>1, <1>4 DEF build_spanning
  <2> QED BY <1>1, <2>1, NowhereTyped
<1>5. CASE Holds(joined(bs), q) /\ ~repeated(bs, q)
  <2>1. PICK at : at = spanning(bs, q) OBVIOUS
  <2>2. PICK lo \in 1 .. n, hi \in 1 .. n : lo = Min(at) /\ hi = Max(at) /\ lo <= hi
    BY <1>2, <1>5, <2>1, TouchedHold
  <2>3. PICK t : t = joined(SubSeq(bs, lo, hi)) OBVIOUS
  <2>4. t \in Seq(STRING)
    <3>1. lo \in Int /\ hi \in Int /\ 1 <= lo /\ lo <= hi + 1 /\ hi <= Len(bs) BY <1>2, <2>2
    <3>2. SubSeq(bs, lo, hi) \in Seq(Elements) BY <3>1, CutOut
    <3> QED BY <2>3, <3>2, DocIsLaid
  <2>5. c = Found("spanning", bs, at, t, q) BY <1>1, <1>5, <2>1, <2>2, <2>3 DEF build_spanning
  <2>6. "spanning" \in Placed BY DEF Placed
  <2> QED BY <1>1, <1>2, <2>2, <2>4, <2>5, <2>6, FoundTyped
<1> QED BY <1>3, <1>4, <1>5

LEMMA BuildTyped ==
  ASSUME NEW bs \in Seq(Elements), NEW q \in Seq(STRING), NEW paragraphs \in 0 .. 1
  PROVE  AnswerTyped(bs, build(bs, q, paragraphs))
<1>1. PICK n \in Nat : n = Len(bs) /\ DOMAIN bs = 1 .. n BY TextsTyped
<1>2. PICK c : c = build(bs, q, paragraphs) OBVIOUS
<1>3. CASE ~has_text(q)
  <2>1. c = Nowhere("no_quote") BY <1>2, <1>3 DEF build
  <2> QED BY <1>2, <2>1, NowhereTyped
<1>4. CASE has_text(q)
  <2>1. Len(q) > 0
    <3>1. Len(q) \in Nat \ {0} BY <1>4, TextHasWords
    <3> QED BY <3>1
  <2>2. PICK m \in Nat :
          /\ m = occurrences(bs, q)
          /\ m = 1 => \E i \in 1 .. n : /\ Once(TextOf(bs[i]), q)
                                        /\ \A j \in 1 .. n : Holds(TextOf(bs[j]), q) => j = i
    BY <1>1, <2>1, OccurrencesTell
  <2>3. CASE m = 0
    <3>1. c = build_spanning(bs, q) BY <1>2, <1>4, <2>2, <2>3 DEF build
    <3> QED BY <1>2, <2>1, <3>1, SpanningTyped
  <2>4. CASE m > 1
    <3>1. m # 0 /\ ambiguous(m) BY <2>4 DEF ambiguous
    <3>2. c.kind = "ambiguous" /\ c.text = <<>> /\ c.path = <<>>
      BY <1>2, <1>4, <2>2, <3>1 DEF build, Nowhere
    <3> QED BY <1>2, <3>2, EmptyAnswer
  <2>5. CASE m = 1
    <3>1. PICK at \in 1 .. n : /\ Once(TextOf(bs[at]), q)
                               /\ \A j \in 1 .. n : Holds(TextOf(bs[j]), q) => j = at
      BY <2>2, <2>5
    <3>2. {i \in DOMAIN bs : Holds(TextOf(bs[i]), q)} = {at}
      <4>1. \A i : i \in {j \in DOMAIN bs : Holds(TextOf(bs[j]), q)} <=> i = at BY <1>1, <3>1 DEF Once
      <4> QED BY <4>1
    <3>3. Min({at}) = at
      <4>1. at <= at BY <1>1
      <4> QED BY <4>1 DEF Min
    <3>4. PICK x : x = extended(bs, at, passage_at(bs, at, q), paragraphs) OBVIOUS
    <3>5. c = Found(x.kind, bs, {at}, x.text, q)
      <4>1. m # 0 /\ ~ambiguous(m) BY <2>5 DEF ambiguous
      <4> QED BY <1>2, <1>4, <2>2, <3>2, <3>3, <3>4, <4>1 DEF build
    <3>6. x.kind \in Placed /\ x.text \in Seq(STRING) BY <1>1, <3>4, ExtendedIsText
    <3>7. Min({at}) \in 1 .. Len(bs) BY <1>1, <3>3
    <3> QED BY <1>2, <3>5, <3>6, <3>7, FoundTyped
  <2>6. m = 0 \/ m = 1 \/ m > 1 OBVIOUS
  <2> QED BY <2>3, <2>4, <2>5, <2>6
<1> QED BY <1>3, <1>4

\* No passage is longer than the limit, the marks included and the note of a cut one apart,
\* whatever is extended; and the headings it is said to be under are elements of the document
\* (_context.py:170-398).
THEOREM PassageTypes == PassageSpec => []PassageTypeOK
<1>1. ASSUME PassageInv PROVE PassageTypeOK
  <2>1. AnswerTyped(blocks, context)
    <3>1. CASE context \in {Nowhere("none"), Nowhere("unsupported")} BY <3>1, NowhereTyped
    <3>2. CASE context \notin {Nowhere("none"), Nowhere("unsupported")}
      <4>1. /\ blocks \in Seq(Elements) /\ request.quote \in Seq(STRING) /\ request.paragraphs \in 0 .. 1
            /\ context = build(blocks, request.quote, request.paragraphs)
        BY <1>1, <3>2, PassageAssumption DEF PassageInv
      <4> QED BY <4>1, BuildTyped
    <3> QED BY <3>1, <3>2
  <2> QED BY <2>1 DEF AnswerTyped, PassageTypeOK
<1> QED BY <1>1, PassageInvHolds, PTL
=============================================================================
