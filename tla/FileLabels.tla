----------------------------- MODULE FileLabels -----------------------------
(***************************************************************************)
(* What a file is classified as (labels.py): one API says which labels the *)
(* file carries, as ids, another what an id is called, one definition at a *)
(* time.  Meanwhile an administrator renames, withdraws and publishes      *)
(* definitions and switches the second API on and off, and somebody        *)
(* relabels the file.                                                      *)
(***************************************************************************)
EXTENDS Naturals, Sequences, FiniteSets, SequencesExt

CONSTANTS
  LabelIds, ChoiceIds,   \* ids of labels, and of the choices of their one field
  LabelNames,            \* what labels and choices are called
  Unnamed,               \* no name
  MaxChanges             \* bound: what administrators and editors change

ASSUME LabelsAssumption ==
  /\ LabelNames \cap (LabelIds \cup ChoiceIds) = {} /\ Unnamed \notin LabelNames \cup LabelIds \cup ChoiceIds
  /\ IsFiniteSet(LabelIds) /\ ChoiceIds # {} /\ LabelNames # {} /\ MaxChanges \in Nat

VARIABLES
  applied,      \* the labels on the file: their choice
  definitions,  \* the definitions: of a label, its title and the names of its choices
  service,      \* the Labels API: on or off; whether this credential may read it, and which labels
  classified,   \* the reading under way or just answered
  changes       \* the changes since the start

labelVars == <<applied, definitions, service, classified, changes>>

SomeFunctions(S, T) == UNION {[D -> T] : D \in SUBSET S}
\* A title may be empty, and is then no name.
Definitions == [title : LabelNames \cup {Unnamed}, choices : SomeFunctions(ChoiceIds, LabelNames)]
Reasons == {"none", "enable the API", "sign in again", "no definition"}
Causes == {"disabled", "unscoped", "hidden", "missing"}
Unread == [at |-> "rest", todo |-> <<>>, out |-> <<>>]

LabelsInit ==
  /\ applied = [l \in LabelIds |-> CHOOSE c \in ChoiceIds : TRUE]
  /\ definitions = [l \in LabelIds |-> [title |-> CHOOSE t \in LabelNames : TRUE, choices |-> <<>>]]
  /\ service = [on |-> TRUE, scope |-> TRUE, hidden |-> {}]
  /\ classified = Unread /\ changes = 0

-----------------------------------------------------------------------------
(* Joining a label with its definition. *)

\* A choice by its name, or as something that is visibly a reference.
_render(v, choices) == IF v \in DOMAIN choices THEN [ref |-> FALSE, word |-> choices[v]] ELSE [ref |-> TRUE, word |-> v]

\* definition is a set of at most one.  The reason is one for want of a definition: a
\* definition without a title gives neither name nor reason.
build_label(one, definition, unresolved_reason) ==
  [id |-> one.id,
   name |-> IF definition = {} THEN Unnamed ELSE (CHOOSE d \in definition : TRUE).title,
   value |-> _render(one.choice, IF definition = {} THEN <<>> ELSE (CHOOSE d \in definition : TRUE).choices),
   unresolved_reason |-> IF definition = {} THEN unresolved_reason ELSE "none"]

\* A withdrawn definition has no fix.  One that is only kept from this user is answered as
\* a missing scope is, and told as one.
reason_of(cause) ==
  CASE cause = "disabled" -> "enable the API"
    [] cause \in {"unscoped", "hidden"} -> "sign in again"
    [] cause = "missing"  -> "no definition"

\* What the Labels API answers: the refusals that hold, or else the definition.
Refusals(l) ==
  {cause \in Causes :
     /\ cause = "disabled" => ~service.on
     /\ cause = "unscoped" => ~service.scope
     /\ cause = "hidden" => l \in service.hidden
     /\ cause = "missing" => l \notin DOMAIN definitions}

-----------------------------------------------------------------------------
(* The operation. *)

\* list_labels: which labels there are.
list_file_labels ==
  /\ classified.at \in {"rest", "answered", "raised"}
  /\ classified' = [at |-> "names", out |-> <<>>,
                    todo |-> [i \in 1 .. Cardinality(DOMAIN applied) |->
                                LET l == SetToSeq(DOMAIN applied)[i] IN [id |-> l, choice |-> applied[l]]]]
  /\ UNCHANGED <<applied, definitions, service, changes>>

\* A label that cannot be named is still listed.
listed(label) == <<label>>

\* Mutant: every label is given the definition read first.
first_definition(l) == definitions[Head(SetToSeq(DOMAIN definitions))]
\* get_label_definition: of the label asked for.
definition_of(l) == definitions[l]

\* What a label is called; any other failure ends the call.
get_label_definition ==
  /\ classified.at = "names" /\ classified.todo # <<>>
  /\ LET one == Head(classified.todo) IN
       \/ \E d \in IF Refusals(one.id) = {} THEN {<<{definition_of(one.id)}, "none">>}
                   ELSE {<<{}, reason_of(cause)>> : cause \in Refusals(one.id)} :
            classified' = [classified EXCEPT !.todo = Tail(@), !.out = @ \o listed(build_label(one, d[1], d[2]))]
       \/ classified' = [Unread EXCEPT !.at = "raised"]
  /\ UNCHANGED <<applied, definitions, service, changes>>

labels_out ==
  /\ classified.at = "names" /\ classified.todo = <<>>
  /\ classified' = [classified EXCEPT !.at = "answered"]
  /\ UNCHANGED <<applied, definitions, service, changes>>

LabelledMeanwhile ==
  /\ changes < MaxChanges /\ changes' = changes + 1 /\ UNCHANGED classified
  /\ \/ \E l \in LabelIds, c \in ChoiceIds :
          applied' = [x \in DOMAIN applied \cup {l} |-> IF x = l THEN c ELSE applied[x]] /\ UNCHANGED <<definitions, service>>
     \/ \E l \in DOMAIN applied :
          applied' = [x \in DOMAIN applied \ {l} |-> applied[x]] /\ UNCHANGED <<definitions, service>>
     \/ \E l \in LabelIds, d \in Definitions :
          /\ definitions' = [x \in DOMAIN definitions \cup {l} |-> IF x = l THEN d ELSE definitions[x]]
          /\ UNCHANGED <<applied, service>>
     \/ \E l \in DOMAIN definitions :
          definitions' = [x \in DOMAIN definitions \ {l} |-> definitions[x]] /\ UNCHANGED <<applied, service>>
     \/ \E on, scope \in BOOLEAN, hidden \in SUBSET LabelIds :
          service' = [on |-> on, scope |-> scope, hidden |-> hidden] /\ UNCHANGED <<applied, definitions>>

LabelsNext == list_file_labels \/ get_label_definition \/ labels_out \/ LabelledMeanwhile
LabelsSpec == LabelsInit /\ [][LabelsNext]_labelVars
=============================================================================
