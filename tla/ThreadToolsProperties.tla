----------------------- MODULE ThreadToolsProperties -----------------------
(***************************************************************************)
(* What the callers of the comment tools rely on.                          *)
(***************************************************************************)
EXTENDS ThreadTools

Authors == ToolCalls \cup {Person}

\* The types of the variables; of what is deleted, neither text nor author is left.
ThreadTypeOK ==
  /\ meddling \in 0 .. MaxHands
  /\ \A x \in ThreadIds :
       /\ threads[x].deleted = (threads[x].text = Stripped)
       /\ \A i \in DOMAIN threads[x].replies :
            LET r == threads[x].replies[i] IN r.deleted = (r.text = Stripped)
       /\ threads[x].deleted => \A i \in DOMAIN threads[x].replies : threads[x].replies[i].deleted

\* A call whose change was carried out is not told that the thread is not there, unless
\* somebody else deleted it before the call looked again (mcp/_tools/comments.py:727-740).
DoneIsNotDenied ==
  \A c \in ToolCalls : tool[c].at = "not found" /\ tool[c].wrote =>
    threads[tool[c].thread].deleted /\ threads[tool[c].thread].deleter # c

\* The answer to a change shows the change: a reply is the last of the replies of its
\* thread, a resolved or reopened thread is said to be in that state, and after an edit
\* or a deletion the answer is the thread as Drive holds it (comments.py:263-306).
AnswersShowTheChange ==
  [][\A c \in ToolCalls : tool'[c].at = "done" /\ tool[c].at \in {"change", "read back"} =>
       LET t == threads'[tool[c].thread] answer == tool'[c].copy IN
         IF tool[c].tool \in ReplyTools
           THEN /\ answer.replies # <<>>
                /\ answer.replies[Len(answer.replies)] = t.replies[Len(t.replies)]
                /\ tool[c].tool # "reply" => answer.resolved = t.resolved
           ELSE answer = t]_threadVars

\* However calls and people interleave, a thread changes by somebody's hand or by the one
\* call that names it, and never by a call through a read-only workspace, whatever it had
\* fetched before (comments.py:256-262).
ReadOnlyWritesNothing ==
  [][\A x \in ThreadIds : threads'[x] # threads[x] =>
       meddling' # meddling
       \/ \E c \in ToolCalls : /\ tool'[c] # tool[c] /\ ~tool'[c].read_only
                           /\ tool'[c].thread = x]_threadVars

\* What a tool call answers is what it did to the thread (comments.py:256-306,
\* mcp/_tools/comments.py:633-754).
AnswersAreTrue == []DoneIsNotDenied /\ AnswersShowTheChange /\ ReadOnlyWritesNothing
=============================================================================
