---------------------------- MODULE ThreadTools ----------------------------
(***************************************************************************)
(* The comment tools of one file (mcp/_tools/comments.py over comments.py): *)
(* each opens the file, fetches a thread, changes it by a second request    *)
(* and answers, from what it fetched or from a third request, while other   *)
(* calls and people in the editor change the same threads.                  *)
(*                                                                         *)
(* What Drive does to a thread is what the package's own double of it does  *)
(* (FakeBackend in backend.py), except that Drive refuses to change a       *)
(* thread or a reply that is deleted.  A text is told by who wrote it last. *)
(***************************************************************************)
EXTENDS Naturals, Sequences, FiniteSets

CONSTANTS
  ToolCalls,     \* the tool calls there are
  Person,        \* the people in the editor
  ThreadIds, UnbornThreads,   \* the threads there may be, and those not there at first
  Stripped,      \* what a deletion leaves of a text and its author
  MaxReplies,    \* bound: the replies of a thread
  MaxHands       \* bound: what the people in the editor do

ASSUME ThreadAssumption ==
  /\ Person \notin ToolCalls /\ Stripped \notin ToolCalls \cup {Person}
  /\ UnbornThreads \subseteq ThreadIds /\ MaxReplies \in Nat /\ MaxHands \in Nat

VARIABLES
  threads,   \* the threads, as Drive holds them
  tool,      \* the calls: where they are, what they hold, what they answered
  meddling   \* how often somebody has interfered

threadVars == <<threads, tool, meddling>>

ReplyTools == {"reply", "resolve", "reopen"}
ChangeTools == {"edit", "delete"}
WholeThread == 0      \* no replyId: the tool is about the thread itself

-----------------------------------------------------------------------------
(* Drive. *)

create_comment(w) ==
  [there |-> TRUE, deleted |-> FALSE, resolved |-> FALSE, text |-> w, replies |-> <<>>, deleter |-> Stripped]

\* Without a text or with one: resolving and reopening are replies that carry an action.
create_reply(t, w, action) ==
  [t EXCEPT !.replies = Append(@, [text |-> w, action |-> action, deleted |-> FALSE]),
            !.resolved = IF action = "reply" THEN @ ELSE action = "resolve"]

update_comment(t, w) == [t EXCEPT !.text = w]
update_reply(t, i, w) == [t EXCEPT !.replies[i].text = w]

strip(r) == [r EXCEPT !.text = Stripped, !.deleted = TRUE]
\* Deleting a thread takes what its replies said with it.
delete_comment(t, w) ==
  [t EXCEPT !.text = Stripped, !.deleted = TRUE, !.deleter = w,
            !.replies = [i \in DOMAIN @ |-> strip(@[i])]]
delete_reply(t, i) == [t EXCEPT !.replies[i] = strip(@)]

\* A deleted thread is not found unless it is asked for.
get_comment(t, include_deleted) == t.there /\ (t.deleted => include_deleted)

DriveTakes(t, i) ==
  t.there /\ ~t.deleted /\ (i = WholeThread \/ (i \in DOMAIN t.replies /\ ~t.replies[i].deleted))

Changed(t, call, w) ==
  CASE call.tool \in ReplyTools -> create_reply(t, w, call.tool)
    [] call.tool = "edit"   -> IF call.reply = WholeThread THEN update_comment(t, w) ELSE update_reply(t, call.reply, w)
    [] call.tool = "delete" -> IF call.reply = WholeThread THEN delete_comment(t, w) ELSE delete_reply(t, call.reply)

-----------------------------------------------------------------------------
(* The library: what a Comment in memory becomes when its own change is done. *)

\* Mutant: the call answers with the thread as it was fetched.
held_as_fetched(copy, call, w) == copy
held_after(copy, call, w) ==
  [copy EXCEPT !.replies = Append(@, [text |-> w, action |-> call.tool, deleted |-> FALSE]),
               !.resolved = IF call.tool = "reply" THEN @ ELSE call.tool = "resolve"]

never(read_only) == FALSE
\* A change through a read-only workspace is refused before anything is sent.
_guard(read_only) == read_only

\* The listing: all threads, or the open or the resolved ones alone.
filter(t, resolved, include_deleted) ==
  /\ get_comment(t, include_deleted)
  /\ resolved = "open" => ~t.resolved
  /\ resolved = "closed" => t.resolved

\* Only after deleting the thread itself is the deleted one asked for.
wants_tombstone(call) == call.tool = "delete" /\ call.reply = WholeThread

-----------------------------------------------------------------------------
(* The calls. *)

NotCalled == [at |-> "unborn", tool |-> "none", thread |-> Stripped, reply |-> WholeThread,
              read_only |-> FALSE, copy |-> <<>>, wrote |-> FALSE]

ThreadInit ==
  /\ threads = [x \in ThreadIds |->
                  [create_comment(Person) EXCEPT !.there = x \notin UnbornThreads]]
  /\ tool = [c \in ToolCalls |-> NotCalled]
  /\ meddling = 0

Goes(c, fields) == tool' = [tool EXCEPT ![c] = [f \in DOMAIN @ |-> IF f \in DOMAIN fields THEN fields[f] ELSE @[f]]]

CallTool(c, name, x, i, read_only) ==
  /\ name \in ReplyTools => i = WholeThread
  /\ Goes(c, [at |-> "get", tool |-> name, thread |-> x, reply |-> i, read_only |-> read_only])
  /\ UNCHANGED <<threads, meddling>>

Fetch(c) ==
  /\ tool[c].at = "get"
  /\ LET t == threads[tool[c].thread] IN
       IF ~get_comment(t, FALSE) THEN Goes(c, [at |-> "not found"])
       ELSE IF tool[c].reply # WholeThread /\ tool[c].reply \notin DOMAIN t.replies
              THEN Goes(c, [at |-> "not found"])
       ELSE IF _guard(tool[c].read_only) THEN Goes(c, [at |-> "read only"])
       ELSE Goes(c, [at |-> "change", copy |-> t])
  /\ UNCHANGED <<threads, meddling>>

\* The change, and what the call does with the answer to it.
Change(c) ==
  /\ tool[c].at = "change"
  /\ LET x == tool[c].thread t == threads[x] IN
       IF ~DriveTakes(t, tool[c].reply)
         THEN Goes(c, [at |-> "refused"]) /\ UNCHANGED threads
         ELSE /\ tool[c].tool \in ReplyTools => Len(t.replies) < MaxReplies
              /\ threads' = [threads EXCEPT ![x] = Changed(t, tool[c], c)]
              /\ Goes(c, IF tool[c].tool \in ReplyTools
                           THEN [at |-> "done", wrote |-> TRUE, copy |-> held_after(tool[c].copy, tool[c], c)]
                           ELSE [at |-> "read back", wrote |-> TRUE])
  /\ UNCHANGED meddling

ReadBack(c) ==
  /\ tool[c].at = "read back"
  /\ LET t == threads[tool[c].thread] IN
       IF get_comment(t, wants_tombstone(tool[c])) THEN Goes(c, [at |-> "done", copy |-> t])
       ELSE Goes(c, [at |-> "not found"])
  /\ UNCHANGED <<threads, meddling>>

MakeThread(c, x, read_only) ==
  /\ x \in UnbornThreads /\ ~threads[x].there
  /\ IF _guard(read_only)
       THEN Goes(c, [at |-> "read only", tool |-> "create", read_only |-> TRUE]) /\ UNCHANGED threads
       ELSE /\ threads' = [threads EXCEPT ![x] = create_comment(c)]
            /\ Goes(c, [at |-> "done", tool |-> "create", thread |-> x, copy |-> create_comment(c),
                        wrote |-> TRUE, read_only |-> read_only])
  /\ UNCHANGED meddling

ShowThreads(c, resolved, include) ==
  /\ Goes(c, [at |-> "done", tool |-> "list",
              copy |-> {x \in ThreadIds : filter(threads[x], resolved, include)}])
  /\ UNCHANGED <<threads, meddling>>

\* A request that Google refuses, or whose answer never comes: carried out or not.
RequestFails(c) ==
  /\ tool[c].at \in {"get", "change", "read back"}
  /\ Goes(c, [at |-> "failed"])
  /\ \/ UNCHANGED threads
     \/ /\ tool[c].at = "change"
        /\ LET x == tool[c].thread IN
             /\ DriveTakes(threads[x], tool[c].reply)
             /\ tool[c].tool \in ReplyTools => Len(threads[x].replies) < MaxReplies
             /\ threads' = [threads EXCEPT ![x] = Changed(@, tool[c], c)]
  /\ UNCHANGED meddling

SomebodyChanges(x, name, i) ==
  /\ meddling' = meddling + 1
  /\ name \in ReplyTools => i = WholeThread /\ Len(threads[x].replies) < MaxReplies
  /\ DriveTakes(threads[x], i)
  /\ threads' = [threads EXCEPT ![x] = Changed(@, [tool |-> name, reply |-> i], Person)]
  /\ UNCHANGED tool

\* Each call there is, once.
Called(c) ==
  \/ \E x \in ThreadIds, name \in ReplyTools \cup ChangeTools, i \in 0 .. MaxReplies, read_only \in BOOLEAN :
       CallTool(c, name, x, i, read_only)
  \/ \E x \in UnbornThreads, read_only \in BOOLEAN : MakeThread(c, x, read_only)
  \/ \E resolved \in {"all", "open", "closed"}, include \in BOOLEAN : ShowThreads(c, resolved, include)

ThreadNext ==
  \/ \E c \in ToolCalls :
       \/ tool[c].at = "unborn" /\ Called(c)
       \/ Fetch(c) \/ Change(c) \/ ReadBack(c) \/ RequestFails(c)
  \/ /\ meddling < MaxHands
     /\ \E x \in ThreadIds, name \in ReplyTools \cup ChangeTools, i \in 0 .. MaxReplies : SomebodyChanges(x, name, i)

ThreadSpec == ThreadInit /\ [][ThreadNext]_threadVars
=============================================================================
