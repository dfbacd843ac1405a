------------------------------ MODULE Sharing ------------------------------
(***************************************************************************)
(* Who can reach one file: granting, changing and revoking access          *)
(* (permissions.py, files.py) and answering those who ask for it           *)
(* (access_proposals.py).  A caller looks first and acts on the id it saw, *)
(* while other callers and people in Drive's own window do the same.       *)
(*                                                                         *)
(* Drive is what the package's double of it is (FakeBackend): every grant  *)
(* and every request has an id of its own.                                 *)
(***************************************************************************)
EXTENDS Naturals, FiniteSets

CONSTANTS
  Callers,          \* the callers of the library
  ByHand,           \* whoever grants in Drive's own window
  ReadOnlyCallers,  \* those whose workspace is read-only
  Addresses,        \* email addresses, as Drive spells them
  Lower,            \* the lower case of every spelling
  MaxGiven,         \* bound: the ids Drive gives
  MaxByHand         \* bound: the steps taken in Drive's own window

ASSUME SharingAssumption ==
  /\ ReadOnlyCallers \subseteq Callers /\ ByHand \notin Callers /\ Addresses \subseteq DOMAIN Lower
  /\ \E a, b \in Addresses : Lower[a] = a /\ Lower[b] # b
  /\ MaxGiven \in Nat \ {0, 1} /\ MaxByHand \in Nat

VARIABLES
  grants,    \* the grants: id, address, role, and who made them what they are
  requests,  \* the pending requests: id, address, the role asked for
  given,     \* the last id given
  caller,    \* the callers: what they have picked, and what became of it
  by_hand    \* the steps taken in Drive's own window

sharingVars == <<grants, requests, given, caller, by_hand>>

\* Drive's roles that matter here, with a misspelt one that callers also try.
Roles == {"reader", "writer", "owner"}
Words == Roles \cup {"wirter"}
\* A caller with nothing in hand, after a call about `wanted` that said `role`.
EmptyHanded(wanted, role) == [at |-> "free", id |-> 0, who |-> ByHand, role |-> role, wanted |-> wanted]
Nothing == EmptyHanded(ByHand, "none")

SharingInit ==
  /\ grants = {[id |-> 1, who |-> CHOOSE a \in Addresses : Lower[a] = a, role |-> "owner", by |-> ByHand]}
  /\ requests = {[id |-> 2, who |-> CHOOSE a \in Addresses : Lower[a] # a, role |-> "writer"]}
  /\ given = 2 /\ by_hand = 0
  /\ caller = [c \in Callers |-> Nothing]

-----------------------------------------------------------------------------
(* What the library checks before it asks Drive for anything. *)

\* Mutant: ownership is a role like the others.
any_known_role(c, role) == role \in Roles /\ c \notin ReadOnlyCallers
\* Ownership is never given, a role has to be one of Drive's, and the workspace writable,
\* as the method or the policy of a read-only workspace says.
allowed(c, role) == role \in Roles \ {"owner"} /\ c \notin ReadOnlyCallers

\* The request of an address, found by the address alone, however it is spelled.
find_access_proposal(r, address) == Lower[r.who] = Lower[address]

\* What accepting grants is what the caller said, not what was asked for.
granted(r, role) == role

\* Only ACCEPT grants; DENY ends the request.
action(approve) == approve

Now(c, state) == caller' = [caller EXCEPT ![c] = state]
Refuses(c) == Now(c, Nothing) /\ UNCHANGED <<grants, requests, given>>

\* Done; the caller is as free to try again as when the answer is lost.
Settles(c, wanted, role) == Now(c, EmptyHanded(wanted, role))

-----------------------------------------------------------------------------
(* The operations. *)

share(c, address, role) ==
  /\ IF ~allowed(c, role) THEN Refuses(c)
     ELSE /\ given < MaxGiven /\ given' = given + 1
          /\ grants' = grants \cup {[id |-> given + 1, who |-> address, role |-> role, by |-> c]}
          /\ Settles(c, address, role) /\ UNCHANGED requests
  /\ UNCHANGED by_hand

\* permissions: the caller takes an id from the list.
PickGrant(c, g) ==
  /\ Now(c, [at |-> "grant", role |-> "none", id |-> g.id, who |-> g.who, wanted |-> g.who])
  /\ UNCHANGED <<grants, requests, given, by_hand>>

PickRequest(c, address) ==
  /\ \/ \E r \in requests :
          /\ find_access_proposal(r, address)
          /\ Now(c, [at |-> "request", role |-> "none", id |-> r.id, who |-> r.who, wanted |-> address])
     \/ /\ \A r \in requests : ~find_access_proposal(r, address)
        /\ Now(c, [EmptyHanded(address, "none") EXCEPT !.at = "nobody"])
  /\ UNCHANGED <<grants, requests, given, by_hand>>

Forget(c) ==
  /\ caller[c].at \in {"nobody", "request", "grant"}
  /\ Now(c, Nothing) /\ UNCHANGED <<grants, requests, given, by_hand>>

set_role(c, role) ==
  /\ caller[c].at = "grant"
  /\ IF ~allowed(c, role) \/ \A g \in grants : g.id # caller[c].id THEN Refuses(c)
     ELSE /\ grants' = {IF g.id = caller[c].id THEN [id |-> g.id, who |-> g.who, role |-> role, by |-> c] ELSE g : g \in grants}
          /\ Settles(c, caller[c].wanted, role) /\ UNCHANGED <<requests, given>>
  /\ UNCHANGED by_hand

\* Mutant: revoking takes the oldest grant, whatever was picked.
the_oldest(g, id) == \A h \in grants : g.id <= h.id
_find_permission(g, id) == g.id = id

unshare(c) ==
  /\ caller[c].at = "grant"
  /\ IF c \in ReadOnlyCallers \/ \A g \in grants : ~_find_permission(g, caller[c].id) THEN Refuses(c)
     ELSE /\ grants' = {g \in grants : ~_find_permission(g, caller[c].id)}
          /\ Settles(c, caller[c].wanted, "none") /\ UNCHANGED <<requests, given>>
  /\ UNCHANGED by_hand

resolve_access_proposal(c, approve, role) ==
  /\ caller[c].at = "request"
  /\ IF (approve /\ ~allowed(c, role)) \/ c \in ReadOnlyCallers \/ {r \in requests : r.id = caller[c].id} = {}
       THEN Refuses(c)
     ELSE LET r == CHOOSE q \in requests : q.id = caller[c].id IN
          /\ requests' = requests \ {r}
          /\ IF action(approve)
               THEN /\ given < MaxGiven /\ given' = given + 1
                    /\ grants' = grants \cup {[id |-> given + 1, who |-> r.who, role |-> granted(r, role), by |-> c]}
               ELSE UNCHANGED <<grants, given>>
          /\ Settles(c, caller[c].wanted, IF approve THEN role ELSE "none")
  /\ UNCHANGED by_hand

\* In Drive's own window: somebody asks, grants, revokes or answers.
InDrive ==
  /\ by_hand < MaxByHand /\ by_hand' = by_hand + 1
  /\ \/ /\ given < MaxGiven /\ given' = given + 1
        /\ \E a \in Addresses, role \in Roles :
             \/ requests' = requests \cup {[id |-> given + 1, who |-> a, role |-> role]} /\ UNCHANGED grants
             \/ /\ role # "owner" /\ UNCHANGED requests
                /\ grants' = grants \cup {[id |-> given + 1, who |-> a, role |-> role, by |-> ByHand]}
     \/ \E g \in grants : g.role # "owner" /\ grants' = grants \ {g} /\ UNCHANGED <<requests, given>>
     \/ \E r \in requests : requests' = requests \ {r} /\ UNCHANGED <<grants, given>>
  /\ UNCHANGED caller

SharingNext ==
  \/ \E c \in Callers :
       \/ /\ caller[c].at = "free"
          /\ \/ \E a \in DOMAIN Lower : PickRequest(c, a)
             \/ \E a \in Addresses, role \in Words : share(c, a, role)
             \/ \E g \in grants : PickGrant(c, g)
       \/ \E role \in Words : set_role(c, role) \/ \E approve \in BOOLEAN : resolve_access_proposal(c, approve, role)
       \/ unshare(c) \/ Forget(c)
  \/ InDrive

SharingSpec == SharingInit /\ [][SharingNext]_sharingVars
=============================================================================
