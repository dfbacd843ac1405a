------------------------- MODULE SharingProperties -------------------------
(***************************************************************************)
(* What a file's owner relies on.                                          *)
(***************************************************************************)
EXTENDS Sharing

\* The types of the variables; no id is given twice, and a caller of a read-only
\* workspace has made nothing what it is.
SharingTypeOK ==
  /\ given \in 1 .. MaxGiven /\ by_hand \in 0 .. MaxByHand
  /\ \A g, h \in grants : g.id = h.id => g = h
  /\ \A g \in grants : g.id \in 1 .. given /\ g.by \in (Callers \ ReadOnlyCallers) \cup {ByHand}

\* However calls, requests and answers follow one another, the library makes nobody an
\* owner: each owner is so by hand (permissions.py:81-125, access_proposals.py:141-165).
NoNewOwner == \A g \in grants : g.role = "owner" => g.by = ByHand

\* What a call grants is what its caller said: the role in the caller's words, to the
\* address the caller named, whatever the request asked for and whoever else asked
\* (access_proposals.py:141-165).
GrantsWhatWasSaid ==
  [][\A g \in grants' \ grants : g.by \in Callers =>
       LET c == g.by IN /\ g.role = caller'[c].role
                        /\ Lower[g.who] = Lower[caller'[c].wanted]]_sharingVars

\* A revocation takes from the person the caller picked, and from nobody else, even if
\* grants came and went since it looked (permissions.py:126-140).
RevokesThePicked ==
  [][\A c \in Callers, g \in grants :
       caller[c].at = "grant" /\ caller'[c] # caller[c] /\ by_hand' = by_hand
         /\ g.id \notin {h.id : h \in grants'} => g.who = caller[c].who]_sharingVars

\* Nobody is told that there is no request of an address while one is pending
\* (access_proposals.py:177-189).
FoundHoweverSpelled ==
  [][\A c \in Callers, r \in requests :
       caller'[c].at = "nobody" /\ caller[c].at # "nobody" => Lower[r.who] # Lower[caller'[c].wanted]]_sharingVars

\* Access changes for whom the caller named, to what the caller said, and the pending
\* request of an address is found (permissions.py:81-140, access_proposals.py:141-189).
AccessAsSaid == GrantsWhatWasSaid /\ RevokesThePicked /\ FoundHoweverSpelled
=============================================================================
