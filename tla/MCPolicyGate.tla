--------------------------- MODULE MCPolicyGate ---------------------------
(* Environments for TLC: every capability alone, every profile, both set,  *)
(* and the shapes of the two lists.                                        *)
EXTENDS PolicyGateProperties

CONSTANTS f1, f2, n1, none

Url(f) == [is |-> "url", id |-> f]
A(kind) == [is |-> kind, id |-> none]

Unset == [legacy |-> FALSE, read_only |-> FALSE, profile |-> NoProfile, explicit |-> FALSE, capabilities |-> {},
          read |-> {}, modify |-> {}]
Of(entries) == [Unset EXCEPT !.explicit = TRUE, !.capabilities = entries]

Alone == {Of({c}) : c \in ALL_CAPABILITIES \cup {"none", "default", "all", "coment.reply"}}
         \cup {Of({}), Of({"none", "file.share"}), Of({"comment.reply", "content.write"})}
Named == {[Unset EXCEPT !.profile = p] : p \in Spellings \cup {"manager", "wirter"}}
\* Both are set: the explicit list wins.
Both == {[e EXCEPT !.profile = "organizer"] : e \in Alone}

Lists == {{}, {A("*")}, {A("note")}, {Url(f1), A("note")}, {Url(f2)}, {Url(n1)},
          {Url(f1), A("unusable")}, {A("unusable"), A("*")}}
Listed == {[Unset EXCEPT !.read = r, !.modify = m] : r \in Lists, m \in Lists}

ReadOnly == {[e EXCEPT !.read_only = TRUE] :
               e \in {Unset, Of({"all"}), [Unset EXCEPT !.read = {Url(f1)}],
                      [Unset EXCEPT !.modify = {Url(f1)}]}}

AllEnvironments ==
  {[Unset EXCEPT !.legacy = TRUE]} \cup Alone \cup Named \cup Both \cup Listed \cup ReadOnly
=============================================================================
