-------------------------- MODULE RegisterPromise --------------------------
(***************************************************************************)
(* What apply_comment_actions promises about a shared document, whatever   *)
(* crashes, lost answers and re-runs happen on the way: a reply asked for  *)
(* is on its thread at most once, nothing is said on a deleted thread, and *)
(* a deleted thread takes its replies with it for good.                    *)
(***************************************************************************)
CONSTANTS Threads, Texts

VARIABLES
  copies,   \* the live copies of each reply the runs have posted, by reply id
  gone      \* the deleted threads

Init == copies = [q \in Threads \X Texts |-> {}] /\ gone = {}

\* A reply is posted: there is no live copy of it, and its thread is there.
Say(t, x) ==
  /\ t \notin gone /\ copies[<<t, x>>] = {}
  /\ \E id \in copies'[<<t, x>>] : copies' = [copies EXCEPT ![<<t, x>>] = {id}]
  /\ UNCHANGED gone

\* Somebody deletes the reply.
Unsay(t, x) ==
  /\ copies[<<t, x>>] # {} /\ copies' = [copies EXCEPT ![<<t, x>>] = {}]
  /\ UNCHANGED gone

\* A thread is deleted.
Bury(t) ==
  /\ t \notin gone /\ gone' = gone \cup {t}
  /\ copies' = [q \in Threads \X Texts |-> IF q[1] = t THEN {} ELSE copies[q]]

Next == \/ \E t \in Threads, x \in Texts : Say(t, x) \/ Unsay(t, x)
        \/ \E t \in Threads : Bury(t)

Spec == Init /\ [][Next]_<<copies, gone>>
=============================================================================
