-------------------------- MODULE MCApplyRegister --------------------------
(***************************************************************************)
(* Small registers for TLC: two rows drawn from a menu with one row of     *)
(* every kind, on two threads, one of which carries a spam reply.          *)
(***************************************************************************)
EXTENDS ApplyRegisterProperties, TLC

CONSTANTS t1, t2, elsewhere, none, fixed, blank

Ask(thread, parent, words, resolve, delete) ==
  [thread_id |-> thread, reply_to |-> parent, reply_comment |-> words,
   resolve_comment |-> resolve, delete_comment |-> delete]

Spam == [id |-> 1, thread |-> t1, text |-> fixed, by |-> "other", deleted |-> FALSE]
MCOldReplies == {Spam}

\* One row of each kind; the last ones are refused, or name another document.
Menu ==
  {Ask(t1, none, fixed, "TRUE", "empty"), Ask(t1, none, blank, "FALSE", "empty"),
   Ask(t1, none, blank, "empty", "TRUE"), Ask(1, t1, blank, "empty", "TRUE"),
   Ask(t2, none, fixed, "empty", "empty"), Ask(t2, none, blank, "TRUE", "empty"),
   Ask(t1, none, blank, "empty", "empty"),
   Ask(t1, none, fixed, "empty", "TRUE"), Ask(t1, none, blank, "maybe later", "empty"),
   Ask(1, t1, fixed, "empty", "empty"), Ask(elsewhere, none, fixed, "empty", "empty"),
   Ask(elsewhere, none, blank, "empty", "TRUE")}

TwoRows(menu) == {reg \in [RowIds -> menu] : AsksOnce(reg)}
AllKinds == TwoRows(Menu)

\* Rows that can be carried out, some only before the others.
Doable == TwoRows({Ask(t1, none, fixed, "TRUE", "empty"), Ask(t1, none, blank, "FALSE", "empty"),
                   Ask(1, t1, blank, "empty", "TRUE"), Ask(t2, none, fixed, "empty", "empty"),
                   Ask(t2, none, blank, "empty", "TRUE")})

\* A register of deletions, of this document or of another one.
DeleteAll == [RowIds -> {Ask(t, none, blank, "empty", "TRUE") : t \in Threads \cup {Foreign}}]
NoReplies == {}

\* Registers for a server whose policy withholds comment.resolve and which may not
\* write locally: three deletions, or an answer and a closing beside them.
Curbed == DeleteAll \cup
  {[reg EXCEPT ![1] = Ask(t1, none, fixed, "TRUE", "empty")] : reg \in DeleteAll}

RealAndForced == {<<TRUE, FALSE>>, <<TRUE, TRUE>>}
AllModes == BOOLEAN \X BOOLEAN
RealRuns == {<<TRUE, FALSE>>}
=============================================================================
