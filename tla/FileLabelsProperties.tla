------------------------ MODULE FileLabelsProperties ------------------------
(***************************************************************************)
(* What "is this document classified, and as what?" is answered with.      *)
(***************************************************************************)
EXTENDS FileLabels

\* The types of the variables; nothing that is an id is ever given as a name, be it of a
\* label or of a choice (labels.py:128-165).
LabelsTypeOK ==
  /\ DOMAIN applied \subseteq LabelIds /\ DOMAIN definitions \subseteq LabelIds /\ changes \in 0 .. MaxChanges
  /\ \A i \in DOMAIN classified.out :
       LET label == classified.out[i] IN
         /\ label.id \in LabelIds /\ label.unresolved_reason \in Reasons
         /\ label.name \in LabelNames \cup {Unnamed}
         /\ label.value.word \in IF label.value.ref THEN ChoiceIds ELSE LabelNames

\* Whatever the second API does meanwhile, a listing that is answered holds every label
\* the first one named, so no labelled file is reported as unlabelled, and a reason is
\* given only of a label with neither a name nor a choice known by name
\* (labels.py:90-92, 197-225).
LabelledIsNeverUnlabelled ==
  [][classified.at = "names" /\ classified'.at \in {"names", "answered"} =>
       /\ Len(classified'.todo) + Len(classified'.out) = Len(classified.todo) + Len(classified.out)
       /\ \A i \in DOMAIN classified'.out :
            classified'.out[i].unresolved_reason # "none" =>
              classified'.out[i].name = Unnamed /\ classified'.out[i].value.ref]_labelVars

\* Labels are told in the order they were listed.  One without a reason is called what its
\* own definition called it when it was read, which is nothing when that had no title, and
\* its choice, when by a name, by that definition's.  A reason tells the refusal of that
\* moment: the API was off, there was no definition, or the reading of it was refused.
\* The last is told as a missing scope also of a user who has the scope and may not read
\* this definition, whom signing in again does not help (labels.py:185-187, 211-225).
NamedByItsDefinition ==
  [][Len(classified'.out) > Len(classified.out) =>
       LET label == Last(classified'.out) one == Head(classified.todo) IN
         /\ label.id = one.id
         /\ label.unresolved_reason = "none" =>
              /\ one.id \in DOMAIN definitions /\ label.name = definitions[one.id].title
              /\ ~label.value.ref =>
                   LET choices == definitions[one.id].choices IN
                     one.choice \in DOMAIN choices /\ label.value.word = choices[one.choice]
         /\ label.unresolved_reason = "enable the API" => ~service.on
         /\ label.unresolved_reason = "sign in again" => ~service.scope \/ one.id \in service.hidden
         /\ label.unresolved_reason = "no definition" => one.id \notin DOMAIN definitions]_labelVars

\* What a file is said to be classified as is what it is, as far as the two APIs let one
\* say; what cannot be said is left out with the refusal (labels.py:147-225).
LabelsAreTrue == LabelledIsNeverUnlabelled /\ NamedByItsDefinition
=============================================================================
