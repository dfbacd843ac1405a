--------------------------- MODULE MCCredentials ---------------------------
(* Small instances of the credential cache for TLC. *)
EXTENDS CredentialsProperties

CONSTANTS t1, a1, a2, s1, l1

\* Two desktop clients each run a server; `login` runs in a terminal.
OneServerEach == [x \in Actors |-> CASE x \in {t1, a1, s1} -> "first server"
                                     [] x = a2 -> "second server"
                                     [] OTHER -> "terminal"]

Full == [is |-> "token", grant |-> 0, scopes |-> {"write", "labels"}, fresh |-> TRUE]
Aged == [Full EXCEPT !.fresh = FALSE]
\* From before the labels scope was required.
Short == [Full EXCEPT !.scopes = {"write"}]
Narrow == [Full EXCEPT !.scopes = {"read", "labels"}]
Broad == [Full EXCEPT !.scopes = {"read", "write", "labels"}]
Unstated == [Full EXCEPT !.scopes = {}]

FreshOnly == {Full}
FreshOrAged == {Full, Aged}
AllKinds == {Aged, Short, Narrow, Broad, Unstated}
=============================================================================
