----------------------------- MODULE FilesProofs -----------------------------
(***************************************************************************)
(* Files, for any of them, any people and callers, and any bounds.          *)
(*                                                                         *)
(* Who can reach one: in however many steps and whatever is done in Drive's *)
(* own window meanwhile, the library makes nobody an owner, and access     *)
(* changes for whom and to what a caller said.  What one is classified as: *)
(* a label is named by its own definition, or the reason why it cannot be   *)
(* is true.  Which there are: a search finds them, and an inventory         *)
(* accounts for every id, while others use the Drive.                       *)
(***************************************************************************)
EXTENDS SharingProperties, FileLabelsProperties, DriveFilesProperties, FiniteSetTheorems,
        SequenceTheorems, WellFoundedInduction, TLAPS

-----------------------------------------------------------------------------
(* Who can reach a file. *)

Makers == (Callers \ ReadOnlyCallers) \cup {ByHand}
Grant == [id : Nat, who : Addresses, role : Roles, by : Makers]
Request == [id : Nat, who : Addresses, role : Roles]
State == [at : {"free", "grant", "request", "nobody"}, id : Nat, who : Addresses \cup {ByHand},
          role : Words \cup {"none"}, wanted : DOMAIN Lower \cup {ByHand}]

\* Drive's side: every id is given once.
DriveInv ==
  /\ given \in 1 .. MaxGiven
  /\ grants \subseteq Grant /\ requests \subseteq Request
  /\ \A g \in grants : g.id \in 1 .. given
  /\ \A r \in requests : r.id \in 1 .. given
  /\ \A g, h \in grants : g.id = h.id => g = h
  /\ \A q, r \in requests : q.id = r.id => q = r
  /\ NoNewOwner

\* A caller's side: what it picked is still whose it was, if it is there at all, for an
\* id that was given is not given again.
Knows(s) ==
  /\ s \in State /\ s.id <= given
  /\ s.at = "grant" => \A g \in grants :
                         g.id = s.id => g.who = s.who /\ Lower[g.who] = Lower[s.wanted]
  /\ s.at = "request" => \A r \in requests :
                           r.id = s.id => r.who = s.who /\ Lower[r.who] = Lower[s.wanted]

SharingInv ==
  /\ DriveInv /\ by_hand \in 0 .. MaxByHand
  /\ caller \in [Callers -> State]
  /\ \A c \in Callers : Knows(caller[c])

\* What the steps do to Drive leaves every caller's knowledge sound.
StillKnown == \A s \in State : Knows(s) => Knows(s)'

-----------------------------------------------------------------------------
\* A role that passes the check of every granting call is not the owner's.
LEMMA AllowedRole ==
  ASSUME NEW c \in Callers, NEW role, allowed(c, role)
  PROVE  role \in Roles /\ role # "owner" /\ c \in Makers
  BY DEF allowed, Roles, Makers

LEMMA NewGrant ==
  ASSUME SharingInv, NEW g \in Grant, g.id = given + 1, g.role # "owner",
         given < MaxGiven, given' = given + 1,
         grants' = grants \cup {g}, requests' \subseteq requests
  PROVE  DriveInv' /\ StillKnown
<1>1. given \in 1 .. MaxGiven /\ MaxGiven \in Nat
  BY SharingAssumption DEF SharingInv, DriveInv
<1>2. DriveInv'
  BY <1>1 DEF SharingInv, DriveInv, NoNewOwner
<1>3. StillKnown
  BY <1>1 DEF StillKnown, Knows, State
<1> QED BY <1>2, <1>3

LEMMA NewRequest ==
  ASSUME SharingInv, NEW r \in Request, r.id = given + 1, given < MaxGiven, given' = given + 1,
         grants' = grants, requests' = requests \cup {r}
  PROVE  DriveInv' /\ StillKnown
<1>1. given \in 1 .. MaxGiven /\ MaxGiven \in Nat
  BY SharingAssumption DEF SharingInv, DriveInv
<1>2. DriveInv'
  BY <1>1 DEF SharingInv, DriveInv, NoNewOwner
<1>3. StillKnown
  BY <1>1 DEF StillKnown, Knows, State
<1> QED BY <1>2, <1>3

LEMMA Removal ==
  ASSUME SharingInv, given' = given, grants' \subseteq grants, requests' \subseteq requests
  PROVE  DriveInv' /\ StillKnown
<1>1. DriveInv'
  BY DEF SharingInv, DriveInv, NoNewOwner
<1>2. StillKnown
  BY DEF StillKnown, Knows, State
<1> QED BY <1>1, <1>2

\* A grant whose role is changed stays the grant of the same person, and is no owner's.
LEMMA NewRole ==
  ASSUME SharingInv, NEW id, NEW role \in Roles, NEW c \in Makers, role # "owner",
         given' = given, requests' = requests,
         grants' = {IF g.id = id THEN [id |-> g.id, who |-> g.who, role |-> role, by |-> c] ELSE g : g \in grants}
  PROVE  DriveInv' /\ StillKnown
<1> DEFINE new(g) == IF g.id = id THEN [id |-> g.id, who |-> g.who, role |-> role, by |-> c] ELSE g
<1>1. \A g \in grants : /\ new(g) \in Grant /\ new(g).id = g.id /\ new(g).who = g.who
                        /\ new(g).role = "owner" => new(g) = g
  BY DEF SharingInv, DriveInv, Grant
<1>2. grants' = {new(g) : g \in grants}
  OBVIOUS
<1> HIDE DEF new
<1>3. DriveInv'
  <2>1. \A g, h \in grants : new(g).id = new(h).id => new(g) = new(h)
    BY <1>1 DEF SharingInv, DriveInv
  <2> QED BY <1>1, <1>2, <2>1 DEF SharingInv, DriveInv, NoNewOwner
<1>4. StillKnown
  BY <1>1, <1>2 DEF StillKnown, Knows, State
<1> QED BY <1>3, <1>4

\* One caller's own step, after which the others know what they knew.
LEMMA CallerMoves ==
  ASSUME SharingInv, DriveInv', StillKnown, NEW c \in Callers, NEW s \in State,
         Knows(s)', Now(c, s), by_hand' = by_hand
  PROVE  SharingInv'
<1>1. caller' = [caller EXCEPT ![c] = s] /\ caller \in [Callers -> State]
  BY DEF Now, SharingInv
<1>2. caller' \in [Callers -> State]
  BY <1>1
<1>3. ASSUME NEW d \in Callers
      PROVE  Knows(caller[d])'
  <2>1. CASE d = c
    <3>1. caller'[d] = s
      BY <1>1, <2>1
    <3> QED BY <3>1 DEF Knows
  <2>2. CASE d # c
    <3>1. caller'[d] = caller[d] /\ caller[d] \in State /\ Knows(caller[d])
      BY <1>1, <2>2 DEF SharingInv
    <3>2. \A s2 \in State : Knows(s2) => Knows(s2)'
      BY DEF StillKnown
    <3> QED BY <3>1, <3>2 DEF Knows
  <2> QED BY <2>1, <2>2
<1> QED BY <1>2, <1>3 DEF SharingInv

\* A caller that has nothing in hand knows nothing that could be wrong.
LEMMA FreeKnows ==
  ASSUME DriveInv', NEW s \in State, s.at \in {"free", "nobody"}, s.id = 0
  PROVE  Knows(s)'
  BY DEF Knows, DriveInv

LEMMA EmptyHandedIsFree ==
  ASSUME NEW wanted \in DOMAIN Lower \cup {ByHand}, NEW role \in Words \cup {"none"}
  PROVE  LET s == EmptyHanded(wanted, role)
         IN  s \in State /\ s.at = "free" /\ s.id = 0 /\ s.role = role /\ s.wanted = wanted
  BY DEF EmptyHanded, State

LEMMA NothingIsFree == Nothing \in State /\ Nothing.at = "free" /\ Nothing.id = 0
  BY EmptyHandedIsFree DEF Nothing

LEMMA NobodyIsFree ==
  ASSUME NEW wanted \in DOMAIN Lower
  PROVE  LET s == [EmptyHanded(wanted, "none") EXCEPT !.at = "nobody"]
         IN  s \in State /\ s.at = "nobody" /\ s.id = 0 /\ s.wanted = wanted
  BY DEF EmptyHanded, State

-----------------------------------------------------------------------------
\* The three parts of AccessAsSaid, as actions.
GrantsAsSaid ==
  \A g \in grants' \ grants : g.by \in Callers =>
    LET c == g.by IN /\ g.role = caller'[c].role
                     /\ Lower[g.who] = Lower[caller'[c].wanted]
RevokesAsPicked ==
  \A c \in Callers, g \in grants :
    caller[c].at = "grant" /\ caller'[c] # caller[c] /\ by_hand' = by_hand
      /\ g.id \notin {h.id : h \in grants'} => g.who = caller[c].who
FindsAsAsked ==
  \A c \in Callers, r \in requests :
    caller'[c].at = "nobody" /\ caller[c].at # "nobody" => Lower[r.who] # Lower[caller'[c].wanted]
AsSaid == GrantsAsSaid /\ RevokesAsPicked /\ FindsAsAsked

\* A step that only tells one caller something.
LEMMA OnlyTold ==
  ASSUME SharingInv, NEW c \in Callers, NEW s \in State, Knows(s), Now(c, s),
         UNCHANGED <<grants, requests, given, by_hand>>,
         s.at = "nobody" => \A r \in requests : Lower[r.who] # Lower[s.wanted]
  PROVE  SharingInv' /\ AsSaid
<1>1. Knows(s)'
  BY DEF Knows
<1>2. DriveInv' /\ StillKnown
  BY Removal
<1>3. SharingInv'
  BY <1>1, <1>2, CallerMoves
<1>4. caller' = [caller EXCEPT ![c] = s] /\ caller \in [Callers -> State]
  BY DEF Now, SharingInv
<1>5. GrantsAsSaid /\ RevokesAsPicked
  BY DEF GrantsAsSaid, RevokesAsPicked
<1>6. FindsAsAsked
  BY <1>4 DEF FindsAsAsked
<1> QED BY <1>3, <1>5, <1>6 DEF AsSaid

LEMMA Refusal ==
  ASSUME SharingInv, NEW c \in Callers, Refuses(c), by_hand' = by_hand
  PROVE  SharingInv' /\ AsSaid
<1>1. Nothing \in State /\ Nothing.at = "free" /\ Nothing.id = 0
  BY NothingIsFree
<1>2. Knows(Nothing)
  BY <1>1 DEF Knows, SharingInv, DriveInv
<1> QED BY <1>1, <1>2, OnlyTold DEF Refuses

LEMMA ForgetKeeps ==
  ASSUME SharingInv, NEW c \in Callers, Forget(c)
  PROVE  SharingInv' /\ AsSaid
  BY Refusal DEF Forget, Refuses

LEMMA PickGrantKeeps ==
  ASSUME SharingInv, NEW c \in Callers, NEW g \in grants, PickGrant(c, g)
  PROVE  SharingInv' /\ AsSaid
<1> DEFINE s == [at |-> "grant", role |-> "none", id |-> g.id, who |-> g.who, wanted |-> g.who]
<1>1. g \in Grant /\ g.id <= given /\ \A h \in grants : h.id = g.id => h = g
  BY DEF SharingInv, DriveInv
<1>2. s \in State
  BY <1>1, SharingAssumption DEF State, Grant
<1>3. Knows(s)
  BY <1>1, <1>2 DEF Knows
<1> QED BY <1>2, <1>3, OnlyTold DEF PickGrant

LEMMA PickRequestKeeps ==
  ASSUME SharingInv, NEW c \in Callers, NEW a \in DOMAIN Lower, PickRequest(c, a)
  PROVE  SharingInv' /\ AsSaid
<1>1. ASSUME NEW r \in requests, find_access_proposal(r, a),
             Now(c, [at |-> "request", role |-> "none", id |-> r.id, who |-> r.who, wanted |-> a]),
             UNCHANGED <<grants, requests, given, by_hand>>
      PROVE  SharingInv' /\ AsSaid
  <2> DEFINE s == [at |-> "request", role |-> "none", id |-> r.id, who |-> r.who, wanted |-> a]
  <2>1. r \in Request /\ r.id <= given /\ \A q \in requests : q.id = r.id => q = r
    BY DEF SharingInv, DriveInv
  <2>2. s \in State
    BY <2>1 DEF State, Request
  <2>3. Knows(s)
    BY <1>1, <2>1, <2>2 DEF Knows, find_access_proposal
  <2> QED BY <1>1, <2>2, <2>3, OnlyTold
<1>2. CASE /\ \A r \in requests : ~find_access_proposal(r, a)
           /\ Now(c, [EmptyHanded(a, "none") EXCEPT !.at = "nobody"])
           /\ UNCHANGED <<grants, requests, given, by_hand>>
  <2> DEFINE s == [EmptyHanded(a, "none") EXCEPT !.at = "nobody"]
  <2>1. s \in State /\ s.at = "nobody" /\ s.id = 0 /\ s.wanted = a
    BY NobodyIsFree
  <2> HIDE DEF s
  <2>2. Knows(s)
    BY <2>1 DEF Knows, SharingInv, DriveInv
  <2> QED BY <1>2, <2>1, <2>2, OnlyTold DEF find_access_proposal, s
<1> QED BY <1>1, <1>2 DEF PickRequest

\* A caller's step after which it holds nothing.
LEMMA Settling ==
  ASSUME SharingInv, DriveInv', StillKnown, NEW c \in Callers, NEW wanted \in DOMAIN Lower \cup {ByHand},
         NEW role \in Words \cup {"none"}, Settles(c, wanted, role), by_hand' = by_hand
  PROVE  /\ SharingInv' /\ FindsAsAsked
         /\ caller'[c].role = role /\ caller'[c].wanted = wanted
         /\ \A d \in Callers : caller'[d] # caller[d] => d = c
<1> DEFINE s == EmptyHanded(wanted, role)
<1>1. s \in State /\ s.at = "free" /\ s.id = 0 /\ s.role = role /\ s.wanted = wanted
  BY EmptyHandedIsFree
<1>2. Now(c, s)
  BY DEF Settles
<1> HIDE DEF s
<1>3. SharingInv'
  BY <1>1, <1>2, FreeKnows, CallerMoves
<1>4. caller' = [caller EXCEPT ![c] = s] /\ caller \in [Callers -> State]
  BY <1>2 DEF Now, SharingInv
<1> QED BY <1>1, <1>3, <1>4 DEF FindsAsAsked

LEMMA ShareKeeps ==
  ASSUME SharingInv, NEW c \in Callers, NEW a \in Addresses, NEW role \in Words, share(c, a, role)
  PROVE  SharingInv' /\ AsSaid
<1>1. CASE ~allowed(c, role)
  BY <1>1, Refusal DEF share
<1>2. CASE allowed(c, role)
  <2> DEFINE g == [id |-> given + 1, who |-> a, role |-> role, by |-> c]
  <2>1. /\ given < MaxGiven /\ given' = given + 1 /\ grants' = grants \cup {g}
        /\ Settles(c, a, role) /\ requests' = requests /\ by_hand' = by_hand
    BY <1>2 DEF share
  <2>2. role \in Roles /\ role # "owner" /\ c \in Makers /\ given \in Nat
    BY <1>2, AllowedRole DEF SharingInv, DriveInv
  <2>3. g \in Grant /\ g.id = given + 1 /\ g.role = role /\ g.who = a /\ g.by = c
    BY <2>2 DEF Grant
  <2> HIDE DEF g
  <2>4. DriveInv' /\ StillKnown
    BY <2>1, <2>2, <2>3, NewGrant
  <2>5. a \in DOMAIN Lower
    BY SharingAssumption
  <2>6. SharingInv' /\ FindsAsAsked /\ caller'[c].role = role /\ caller'[c].wanted = a
    BY <2>1, <2>4, <2>5, Settling
  <2>7. GrantsAsSaid
    BY <2>1, <2>3, <2>6 DEF GrantsAsSaid
  <2>8. RevokesAsPicked
    BY <2>1 DEF RevokesAsPicked
  <2> QED BY <2>6, <2>7, <2>8 DEF AsSaid
<1> QED BY <1>1, <1>2

LEMMA SetRoleKeeps ==
  ASSUME SharingInv, NEW c \in Callers, NEW role \in Words, set_role(c, role)
  PROVE  SharingInv' /\ AsSaid
<1>1. CASE Refuses(c)
  BY <1>1, Refusal DEF set_role
<1>2. CASE ~Refuses(c)
  <2> DEFINE id == caller[c].id
             new(g) == IF g.id = id THEN [id |-> g.id, who |-> g.who, role |-> role, by |-> c] ELSE g
  <2>1. /\ caller[c].at = "grant" /\ allowed(c, role)
        /\ grants' = {new(g) : g \in grants}
        /\ Settles(c, caller[c].wanted, role) /\ UNCHANGED <<requests, given, by_hand>>
    BY <1>2 DEF set_role
  <2>2. role \in Roles /\ role # "owner" /\ c \in Makers
    BY <2>1, AllowedRole
  <2>3. DriveInv' /\ StillKnown
    BY <2>1, <2>2, NewRole
  <2>4. caller[c] \in State /\ Knows(caller[c])
    BY DEF SharingInv
  <2>5. /\ SharingInv' /\ FindsAsAsked
        /\ caller'[c].role = role /\ caller'[c].wanted = caller[c].wanted
    BY <2>1, <2>3, <2>4, Settling DEF State
  <2>6. \A g \in grants : \/ new(g) = g
                          \/ /\ new(g).by = c /\ new(g).role = role /\ new(g).who = g.who
                             /\ Lower[g.who] = Lower[caller[c].wanted]
    BY <2>1, <2>4 DEF Knows
  <2>7. \A g \in grants : new(g).id = g.id
    OBVIOUS
  <2> HIDE DEF new
  <2>8. GrantsAsSaid
    BY <2>1, <2>5, <2>6 DEF GrantsAsSaid
  <2>9. RevokesAsPicked
    BY <2>1, <2>7 DEF RevokesAsPicked
  <2> QED BY <2>5, <2>8, <2>9 DEF AsSaid
<1> QED BY <1>1, <1>2

LEMMA UnshareKeeps ==
  ASSUME SharingInv, NEW c \in Callers, unshare(c)
  PROVE  SharingInv' /\ AsSaid
<1>1. CASE Refuses(c)
  BY <1>1, Refusal DEF unshare
<1>2. CASE ~Refuses(c)
  <2>1. /\ caller[c].at = "grant" /\ grants' = {g \in grants : g.id # caller[c].id}
        /\ Settles(c, caller[c].wanted, "none") /\ UNCHANGED <<requests, given, by_hand>>
    BY <1>2 DEF unshare, _find_permission
  <2>2. DriveInv' /\ StillKnown
    BY <2>1, Removal
  <2>3. caller[c] \in State /\ Knows(caller[c])
    BY DEF SharingInv
  <2>4. SharingInv' /\ FindsAsAsked /\ \A d \in Callers : caller'[d] # caller[d] => d = c
    BY <2>1, <2>2, <2>3, Settling DEF State
  <2>5. GrantsAsSaid
    BY <2>1 DEF GrantsAsSaid
  <2>6. RevokesAsPicked
    BY <2>1, <2>3, <2>4 DEF RevokesAsPicked, Knows
  <2> QED BY <2>4, <2>5, <2>6 DEF AsSaid
<1> QED BY <1>1, <1>2

LEMMA ResolveKeeps ==
  ASSUME SharingInv, NEW c \in Callers, NEW approve \in BOOLEAN, NEW role \in Words,
         resolve_access_proposal(c, approve, role)
  PROVE  SharingInv' /\ AsSaid
<1>1. CASE Refuses(c)
  BY <1>1, Refusal DEF resolve_access_proposal
<1>2. CASE ~Refuses(c)
  <2> DEFINE r == CHOOSE q \in requests : q.id = caller[c].id
             g == [id |-> given + 1, who |-> r.who, role |-> role, by |-> c]
             told == IF approve THEN role ELSE "none"
  <2>1. /\ caller[c].at = "request" /\ \E q \in requests : q.id = caller[c].id
        /\ approve => allowed(c, role)
        /\ requests' = requests \ {r}
        /\ IF approve THEN given < MaxGiven /\ given' = given + 1 /\ grants' = grants \cup {g}
           ELSE grants' = grants /\ given' = given
        /\ Settles(c, caller[c].wanted, told) /\ by_hand' = by_hand
    BY <1>2 DEF resolve_access_proposal, action, granted
  <2>2. r \in requests /\ r.id = caller[c].id
    BY <2>1
  <2>3. caller[c] \in State /\ Knows(caller[c]) /\ r \in Request /\ given \in Nat
    BY <2>2 DEF SharingInv, DriveInv
  <2>4. Lower[r.who] = Lower[caller[c].wanted]
    BY <2>1, <2>2, <2>3 DEF Knows
  <2> HIDE DEF r
  <2>5. approve => /\ g \in Grant /\ g.id = given + 1 /\ g.role = role /\ g.who = r.who /\ g.by = c
                   /\ role # "owner"
    BY <2>1, <2>3, AllowedRole DEF Grant, Request
  <2> HIDE DEF g
  <2>6. DriveInv' /\ StillKnown
    BY <2>1, <2>5, NewGrant, Removal
  <2>7. told \in Words \cup {"none"} /\ caller[c].wanted \in DOMAIN Lower \cup {ByHand}
    BY <2>3 DEF State
  <2>8. /\ SharingInv' /\ FindsAsAsked
        /\ caller'[c].role = told /\ caller'[c].wanted = caller[c].wanted
    BY <2>1, <2>6, <2>7, Settling
  <2>9. GrantsAsSaid
    BY <2>1, <2>4, <2>5, <2>8 DEF GrantsAsSaid
  <2>10. RevokesAsPicked
    BY <2>1 DEF RevokesAsPicked
  <2> QED BY <2>8, <2>9, <2>10 DEF AsSaid
<1> QED BY <1>1, <1>2

\* What is done in Drive's own window leaves what the callers know as it is.
LEMMA InDriveKeeps ==
  ASSUME SharingInv, InDrive
  PROVE  SharingInv' /\ AsSaid
<1>1. /\ by_hand' = by_hand + 1 /\ by_hand' \in 0 .. MaxByHand
      /\ caller' = caller /\ given \in Nat /\ by_hand \in Nat
  BY SharingAssumption DEF InDrive, SharingInv, DriveInv
<1>2. /\ DriveInv' /\ StillKnown
      /\ \A g \in grants' \ grants : g.by = ByHand
  <2>1. ASSUME NEW a \in Addresses, NEW role \in Roles, given < MaxGiven, given' = given + 1,
               requests' = requests \cup {[id |-> given + 1, who |-> a, role |-> role]}, grants' = grants
        PROVE  DriveInv' /\ StillKnown
    <3> DEFINE r == [id |-> given + 1, who |-> a, role |-> role]
    <3>1. r \in Request /\ r.id = given + 1
      BY <1>1 DEF Request
    <3> HIDE DEF r
    <3>2. requests' = requests \cup {r}
      BY <2>1 DEF r
    <3> QED BY <2>1, <3>1, <3>2, NewRequest
  <2>2. ASSUME NEW a \in Addresses, NEW role \in Roles, given < MaxGiven, given' = given + 1,
               role # "owner", requests' = requests,
               grants' = grants \cup {[id |-> given + 1, who |-> a, role |-> role, by |-> ByHand]}
        PROVE  DriveInv' /\ StillKnown /\ \A g \in grants' \ grants : g.by = ByHand
    <3> DEFINE g == [id |-> given + 1, who |-> a, role |-> role, by |-> ByHand]
    <3>1. g \in Grant /\ g.id = given + 1 /\ g.role # "owner" /\ g.by = ByHand
      BY <1>1, <2>2 DEF Grant, Makers
    <3> HIDE DEF g
    <3>2. grants' = grants \cup {g}
      BY <2>2 DEF g
    <3>3. DriveInv' /\ StillKnown
      BY <2>2, <3>1, <3>2, NewGrant
    <3> QED BY <3>1, <3>2, <3>3
  <2>3. CASE grants' \subseteq grants /\ requests' \subseteq requests /\ given' = given
    BY <2>3, Removal
  <2> QED BY <2>1, <2>2, <2>3 DEF InDrive
<1>3. \A c \in Callers : caller[c] \in State /\ Knows(caller[c])
  BY DEF SharingInv
<1>4. ASSUME NEW c \in Callers
      PROVE  Knows(caller[c])'
  <2>1. \A s \in State : Knows(s) => Knows(s)'
    BY <1>2 DEF StillKnown
  <2> QED BY <1>1, <1>3, <2>1 DEF Knows
<1>5. SharingInv'
  BY <1>1, <1>2, <1>4 DEF SharingInv
<1>6. AsSaid
  BY <1>1, <1>2, SharingAssumption DEF AsSaid, GrantsAsSaid, RevokesAsPicked, FindsAsAsked
<1> QED BY <1>5, <1>6

LEMMA NextKeeps ==
  ASSUME SharingInv, SharingNext
  PROVE  SharingInv' /\ AsSaid
<1>1. ASSUME NEW c \in Callers, NEW a \in DOMAIN Lower, PickRequest(c, a)
      PROVE  SharingInv' /\ AsSaid
  BY <1>1, PickRequestKeeps
<1>2. ASSUME NEW c \in Callers, NEW a \in Addresses, NEW role \in Words, share(c, a, role)
      PROVE  SharingInv' /\ AsSaid
  BY <1>2, ShareKeeps
<1>3. ASSUME NEW c \in Callers, NEW g \in grants, PickGrant(c, g)
      PROVE  SharingInv' /\ AsSaid
  BY <1>3, PickGrantKeeps
<1>4. ASSUME NEW c \in Callers, NEW role \in Words, set_role(c, role)
      PROVE  SharingInv' /\ AsSaid
  BY <1>4, SetRoleKeeps
<1>5. ASSUME NEW c \in Callers, NEW role \in Words, NEW approve \in BOOLEAN,
             resolve_access_proposal(c, approve, role)
      PROVE  SharingInv' /\ AsSaid
  BY <1>5, ResolveKeeps
<1>6. ASSUME NEW c \in Callers, unshare(c) \/ Forget(c)
      PROVE  SharingInv' /\ AsSaid
  BY <1>6, UnshareKeeps, ForgetKeeps
<1>7. CASE InDrive
  BY <1>7, InDriveKeeps
<1> QED BY <1>1, <1>2, <1>3, <1>4, <1>5, <1>6, <1>7 DEF SharingNext

LEMMA InitHolds ==
  ASSUME SharingInit
  PROVE  SharingInv
<1> DEFINE a == CHOOSE x \in Addresses : Lower[x] = x
           b == CHOOSE x \in Addresses : Lower[x] # x
<1>1. a \in Addresses /\ b \in Addresses
  BY SharingAssumption
<1>2. /\ grants = {[id |-> 1, who |-> a, role |-> "owner", by |-> ByHand]}
      /\ requests = {[id |-> 2, who |-> b, role |-> "writer"]}
      /\ given = 2 /\ by_hand = 0 /\ caller = [c \in Callers |-> Nothing]
  BY DEF SharingInit
<1> HIDE DEF a, b
<1>3. given \in 1 .. MaxGiven /\ by_hand \in 0 .. MaxByHand
  BY <1>2, SharingAssumption
<1>4. DriveInv
  BY <1>1, <1>2, <1>3 DEF DriveInv, Grant, Request, Makers, Roles, NoNewOwner
<1>5. Nothing \in State /\ Knows(Nothing)
  BY <1>2, NothingIsFree DEF Knows
<1> QED BY <1>2, <1>3, <1>4, <1>5 DEF SharingInv

LEMMA SharingInvariant == SharingSpec => []SharingInv
<1>1. SharingInit => SharingInv
  BY InitHolds
<1>2. SharingInv /\ [SharingNext]_sharingVars => SharingInv'
  <2>1. SUFFICES ASSUME SharingInv, UNCHANGED sharingVars
                 PROVE  SharingInv'
    BY NextKeeps
  <2> QED BY <2>1 DEF sharingVars, SharingInv, DriveInv, Knows, NoNewOwner
<1> QED BY <1>1, <1>2, PTL DEF SharingSpec

\* The types of the variables, and that no grant is made by a caller whose workspace is
\* read-only (permissions.py:81-140).
THEOREM SharingTypes == SharingSpec => []SharingTypeOK
<1>1. SharingInv => SharingTypeOK
  BY DEF SharingInv, DriveInv, SharingTypeOK, Grant, Makers
<1> QED BY <1>1, SharingInvariant, PTL

\* Whatever callers and people do, the library makes nobody an owner
\* (permissions.py:81-125, access_proposals.py:141-165).
THEOREM OwnersAreByHand == SharingSpec => []NoNewOwner
<1>1. SharingInv => NoNewOwner
  BY DEF SharingInv, DriveInv
<1> QED BY <1>1, SharingInvariant, PTL

\* However many callers grant, answer, revoke and look up, each step of one of them is
\* about the person it named, and to the role it said (permissions.py:81-140,
\* access_proposals.py:141-189).
THEOREM AccessIsAsSaid == SharingSpec => AccessAsSaid
<1>1. SharingInv /\ [SharingNext]_sharingVars => [AsSaid]_sharingVars
  BY NextKeeps
<1>2. [AsSaid]_sharingVars => [GrantsAsSaid]_sharingVars
  BY DEF AsSaid
<1>3. [AsSaid]_sharingVars => [RevokesAsPicked]_sharingVars
  BY DEF AsSaid
<1>4. [AsSaid]_sharingVars => [FindsAsAsked]_sharingVars
  BY DEF AsSaid
<1>5. SharingSpec => [][GrantsAsSaid]_sharingVars /\ [][RevokesAsPicked]_sharingVars /\ [][FindsAsAsked]_sharingVars
  BY <1>1, <1>2, <1>3, <1>4, SharingInvariant, PTL DEF SharingSpec
<1> QED BY <1>5 DEF AccessAsSaid, GrantsWhatWasSaid, RevokesThePicked, FoundHoweverSpelled,
                    GrantsAsSaid, RevokesAsPicked, FindsAsAsked

-----------------------------------------------------------------------------
(* What a file is classified as. *)

OnFile == [id : LabelIds, choice : ChoiceIds]
Label == [id : LabelIds, name : LabelNames \cup {Unnamed},
          value : [ref : BOOLEAN, word : ChoiceIds \cup LabelNames], unresolved_reason : Reasons]
\* A label as it may be told: nothing that is an id given as a name, and a reason only for
\* want of every name.
Tellable ==
  {label \in Label :
     /\ label.value.word \in IF label.value.ref THEN ChoiceIds ELSE LabelNames
     /\ label.unresolved_reason # "none" => label.name = Unnamed /\ label.value.ref}
Classified ==
  [at : {"rest", "names", "answered", "raised"}, todo : Seq(OnFile), out : Seq(Tellable)]

LabelsInv ==
  /\ \E D \in SUBSET LabelIds : applied \in [D -> ChoiceIds]
  /\ \E D \in SUBSET LabelIds : definitions \in [D -> Definitions]
  /\ changes \in 0 .. MaxChanges
  /\ classified \in Classified

-----------------------------------------------------------------------------
\* The labels on a file are finitely many, so there is an order to tell them in.
LEMMA LabelsInOrder ==
  ASSUME NEW S \in SUBSET LabelIds
  PROVE  Cardinality(S) \in Nat /\ SetToSeq(S) \in [1 .. Cardinality(S) -> S]
<1>1. IsFiniteSet(S) BY LabelsAssumption, FS_Subset
<1>2. Cardinality(S) \in Nat BY <1>1, FS_CardinalityType
<1>3. ExistsBijection(1 .. Cardinality(S), S) BY <1>1, FS_CardinalityType
<1>4. PICK f \in [1 .. Cardinality(S) -> S] : IsInjective(f)
  BY <1>3 DEF ExistsBijection, Bijection, Injection, IsInjective
<1> QED BY <1>2, <1>4 DEF SetToSeq

\* A definition names the label and its choices; an id it does not know is told as one.
LEMMA RenderedByTheDefinition ==
  ASSUME NEW v \in ChoiceIds, NEW d \in Definitions
  PROVE  /\ _render(v, d.choices) \in [ref : BOOLEAN, word : ChoiceIds \cup LabelNames]
         /\ _render(v, d.choices).word \in IF _render(v, d.choices).ref THEN ChoiceIds ELSE LabelNames
         /\ ~_render(v, d.choices).ref =>
              v \in DOMAIN d.choices /\ _render(v, d.choices).word = d.choices[v]
<1>1. PICK D \in SUBSET ChoiceIds : d.choices \in [D -> LabelNames]
  BY DEF Definitions, SomeFunctions
<1>2. CASE v \in DOMAIN d.choices
  <2>1. d.choices[v] \in LabelNames BY <1>1, <1>2
  <2> QED BY <1>2, <2>1 DEF _render
<1>3. CASE v \notin DOMAIN d.choices BY <1>3 DEF _render
<1> QED BY <1>2, <1>3

LEMMA BuiltWith ==
  ASSUME NEW one \in OnFile, NEW d \in Definitions
  PROVE  /\ build_label(one, {d}, "none") \in Tellable
         /\ build_label(one, {d}, "none").id = one.id
         /\ build_label(one, {d}, "none").name = d.title
         /\ build_label(one, {d}, "none").unresolved_reason = "none"
         /\ ~build_label(one, {d}, "none").value.ref =>
              /\ one.choice \in DOMAIN d.choices
              /\ build_label(one, {d}, "none").value.word = d.choices[one.choice]
<1>1. (CHOOSE e \in {d} : TRUE) = d OBVIOUS
<1>2. PICK value : value = _render(one.choice, d.choices) OBVIOUS
<1>3. one.choice \in ChoiceIds /\ one.id \in LabelIds BY DEF OnFile
<1>4. d.title \in LabelNames \cup {Unnamed} BY DEF Definitions
<1>5. build_label(one, {d}, "none") =
        [id |-> one.id, name |-> d.title, value |-> value, unresolved_reason |-> "none"]
  BY <1>1, <1>2 DEF build_label
<1>6. /\ value \in [ref : BOOLEAN, word : ChoiceIds \cup LabelNames]
      /\ value.word \in IF value.ref THEN ChoiceIds ELSE LabelNames
      /\ ~value.ref => one.choice \in DOMAIN d.choices /\ value.word = d.choices[one.choice]
  BY <1>2, <1>3, RenderedByTheDefinition
<1>7. PICK label : label = build_label(one, {d}, "none") OBVIOUS
<1>8. /\ label = [id |-> one.id, name |-> d.title, value |-> value, unresolved_reason |-> "none"]
      /\ "none" \in Reasons
  BY <1>5, <1>7 DEF Reasons
<1>9. label \in Label BY <1>3, <1>4, <1>6, <1>8 DEF Label
<1>10. label \in Tellable BY <1>6, <1>8, <1>9 DEF Tellable
<1> QED BY <1>6, <1>7, <1>8, <1>10

LEMMA BuiltWithout ==
  ASSUME NEW one \in OnFile, NEW cause \in Causes
  PROVE  /\ build_label(one, {}, reason_of(cause)) \in Tellable
         /\ build_label(one, {}, reason_of(cause)).id = one.id
         /\ build_label(one, {}, reason_of(cause)).name = Unnamed
         /\ build_label(one, {}, reason_of(cause)).unresolved_reason = reason_of(cause)
<1>1. reason_of(cause) \in Reasons \ {"none"} BY DEF reason_of, Reasons, Causes
<1>2. one.choice \in ChoiceIds /\ one.id \in LabelIds BY DEF OnFile
<1>3. _render(one.choice, <<>>) = [ref |-> TRUE, word |-> one.choice] BY DEF _render
<1>4. build_label(one, {}, reason_of(cause)) =
        [id |-> one.id, name |-> Unnamed, value |-> [ref |-> TRUE, word |-> one.choice],
         unresolved_reason |-> reason_of(cause)]
  BY <1>3 DEF build_label
<1>5. PICK label : label = build_label(one, {}, reason_of(cause)) OBVIOUS
<1>6. PICK value : value = [ref |-> TRUE, word |-> one.choice] OBVIOUS
<1>7. value \in [ref : BOOLEAN, word : ChoiceIds \cup LabelNames] /\ value.ref /\ value.word \in ChoiceIds
  BY <1>2, <1>6
<1>8. label = [id |-> one.id, name |-> Unnamed, value |-> value, unresolved_reason |-> reason_of(cause)]
  BY <1>4, <1>5, <1>6
<1>9. label \in Label BY <1>1, <1>2, <1>7, <1>8 DEF Label
<1>10. label \in Tellable BY <1>1, <1>7, <1>8, <1>9 DEF Tellable
<1> QED BY <1>5, <1>8, <1>10

-----------------------------------------------------------------------------
\* What a step of the reading says of one label, in the terms of the two properties.
TellsTruly(label, one) ==
  /\ label.id = one.id
  /\ label.unresolved_reason = "none" =>
       /\ one.id \in DOMAIN definitions /\ label.name = definitions[one.id].title
       /\ ~label.value.ref =>
            LET choices == definitions[one.id].choices IN
              one.choice \in DOMAIN choices /\ label.value.word = choices[one.choice]
  /\ label.unresolved_reason = "enable the API" => ~service.on
  /\ label.unresolved_reason = "sign in again" => ~service.scope \/ one.id \in service.hidden
  /\ label.unresolved_reason = "no definition" => one.id \notin DOMAIN definitions

LosesNoLabel ==
  classified.at = "names" /\ classified'.at \in {"names", "answered"} =>
    /\ Len(classified'.todo) + Len(classified'.out) = Len(classified.todo) + Len(classified.out)
    /\ \A i \in DOMAIN classified'.out :
         classified'.out[i].unresolved_reason # "none" =>
           classified'.out[i].name = Unnamed /\ classified'.out[i].value.ref
TellsLastTruly ==
  Len(classified'.out) > Len(classified.out) =>
    TellsTruly(Last(classified'.out), Head(classified.todo))
TellsAll == LosesNoLabel /\ TellsLastTruly

\* The label that a step tells: by its definition, or with a refusal that holds.
LEMMA OneLabel ==
  ASSUME LabelsInv, NEW one \in OnFile,
         NEW d \in IF Refusals(one.id) = {} THEN {<<{definition_of(one.id)}, "none">>}
                   ELSE {<<{}, reason_of(cause)>> : cause \in Refusals(one.id)}
  PROVE  build_label(one, d[1], d[2]) \in Tellable /\ TellsTruly(build_label(one, d[1], d[2]), one)
<1>1. PICK label : label = build_label(one, d[1], d[2]) OBVIOUS
<1>2. CASE Refusals(one.id) = {}
  <2>1. one.id \in DOMAIN definitions BY <1>2 DEF Refusals, Causes
  <2>2. definitions[one.id] \in Definitions BY <2>1 DEF LabelsInv
  <2>3. d[1] = {definitions[one.id]} /\ d[2] = "none" BY <1>2 DEF definition_of
  <2>4. /\ label \in Tellable /\ label.id = one.id
        /\ label.name = definitions[one.id].title /\ label.unresolved_reason = "none"
        /\ ~label.value.ref =>
             LET choices == definitions[one.id].choices IN
               one.choice \in DOMAIN choices /\ label.value.word = choices[one.choice]
    BY <1>1, <2>2, <2>3, BuiltWith
  <2> QED BY <1>1, <2>1, <2>4 DEF TellsTruly
<1>3. CASE Refusals(one.id) # {}
  <2>1. PICK cause \in Refusals(one.id) : d = <<{}, reason_of(cause)>> BY <1>3
  <2>2. d[1] = {} /\ d[2] = reason_of(cause) BY <2>1
  <2>3. cause \in Causes BY DEF Refusals
  <2>4. /\ label \in Tellable /\ label.id = one.id
        /\ label.name = Unnamed /\ label.unresolved_reason = reason_of(cause)
    BY <1>1, <2>2, <2>3, BuiltWithout
  <2>5. /\ reason_of("disabled") = "enable the API" /\ reason_of("missing") = "no definition"
        /\ reason_of("unscoped") = "sign in again" /\ reason_of("hidden") = "sign in again"
    BY DEF reason_of
  <2> QED BY <1>1, <2>1, <2>3, <2>4, <2>5 DEF TellsTruly, Refusals, Causes
<1> QED BY <1>2, <1>3

LEMMA ListingKeeps ==
  ASSUME LabelsInv, list_file_labels
  PROVE  LabelsInv' /\ TellsAll
<1>1. PICK D \in SUBSET LabelIds : applied \in [D -> ChoiceIds] BY DEF LabelsInv
<1>2. DOMAIN applied = D BY <1>1
<1>3. PICK n : n = Cardinality(D) OBVIOUS
<1>4. PICK order : order = SetToSeq(D) OBVIOUS
<1>5. n \in Nat /\ order \in [1 .. n -> D] BY <1>3, <1>4, LabelsInOrder
<1>6. PICK todo : todo = [i \in 1 .. n |-> [id |-> order[i], choice |-> applied[order[i]]]] OBVIOUS
<1>7. \A i \in 1 .. n : todo[i] \in OnFile BY <1>1, <1>5, <1>6 DEF OnFile
<1>8. todo \in Seq(OnFile) BY <1>5, <1>6, <1>7
<1>9. classified' = [at |-> "names", out |-> <<>>, todo |-> todo]
  BY <1>2, <1>3, <1>4, <1>6 DEF list_file_labels
<1>10. <<>> \in Seq(Tellable) /\ Len(<<>>) = 0 OBVIOUS
<1>11. classified' \in Classified BY <1>8, <1>9, <1>10 DEF Classified
<1>12. LabelsInv' BY <1>11 DEF list_file_labels, LabelsInv
<1>13. classified.at # "names" BY DEF list_file_labels
<1>14. Len(classified.out) \in Nat BY DEF LabelsInv, Classified
<1>15. classified'.out = <<>> BY <1>9
<1>16. ~(Len(classified'.out) > Len(classified.out)) BY <1>10, <1>14, <1>15
<1> QED BY <1>12, <1>13, <1>16 DEF TellsAll, LosesNoLabel, TellsLastTruly

LEMMA NamingKeeps ==
  ASSUME LabelsInv, get_label_definition
  PROVE  LabelsInv' /\ TellsAll
<1>1. PICK was \in Classified : was = classified BY DEF LabelsInv
<1>2. was.todo \in Seq(OnFile) /\ was.out \in Seq(Tellable) /\ was.at = "names" /\ was.todo # <<>>
  BY <1>1 DEF Classified, get_label_definition
<1>3. PICK one : one = Head(was.todo) OBVIOUS
<1>4. one \in OnFile BY <1>2, <1>3
<1>5. /\ Tail(was.todo) \in Seq(OnFile) /\ Len(Tail(was.todo)) = Len(was.todo) - 1
      /\ Len(was.todo) \in Nat \ {0} /\ Len(was.out) \in Nat
  BY <1>2
<1>6. ASSUME NEW d \in IF Refusals(one.id) = {} THEN {<<{definition_of(one.id)}, "none">>}
                       ELSE {<<{}, reason_of(cause)>> : cause \in Refusals(one.id)},
             classified' = [was EXCEPT !.todo = Tail(@), !.out = @ \o listed(build_label(one, d[1], d[2]))]
      PROVE  classified' \in Classified /\ TellsAll
  <2>1. PICK label : label = build_label(one, d[1], d[2]) OBVIOUS
  <2>2. label \in Tellable /\ TellsTruly(label, one) BY <1>4, <2>1, OneLabel
  <2>3. PICK out : out = was.out \o <<label>> OBVIOUS
  <2>4. /\ out \in Seq(Tellable) /\ Len(out) = Len(was.out) + 1 /\ out[Len(out)] = label
    BY <1>2, <2>2, <2>3
  <2>5. PICK todo : todo = Tail(was.todo) OBVIOUS
  <2>6. classified' = [was EXCEPT !.todo = todo, !.out = out]
    BY <1>6, <2>1, <2>3, <2>5 DEF listed
  <2>7. classified' \in Classified /\ classified'.todo = todo /\ classified'.out = out
    BY <1>5, <2>4, <2>5, <2>6 DEF Classified
  <2>8. \A i \in DOMAIN out : out[i].unresolved_reason # "none" => out[i].name = Unnamed /\ out[i].value.ref
    BY <2>4 DEF Tellable
  <2>9. Len(classified'.todo) + Len(classified'.out) = Len(classified.todo) + Len(classified.out)
    <3>1. Len(todo) = Len(was.todo) - 1 BY <1>5, <2>5
    <3>3. PICK m \in Nat, n \in Nat : m = Len(was.todo) /\ n = Len(was.out) BY <1>5
    <3>4. Len(todo) \in Nat /\ m = Len(todo) + 1 /\ Len(out) = n + 1 BY <1>5, <2>4, <2>5, <3>1, <3>3
    <3>5. PICK k \in Nat, l \in Nat : k = Len(todo) /\ l = Len(out) BY <3>3, <3>4
    <3>7. m = k + 1 /\ l = n + 1 BY <3>3, <3>4, <3>5
    <3>6. k + l = m + n BY <3>7
    <3>2. Len(todo) + Len(out) = Len(was.todo) + Len(was.out) BY <3>3, <3>5, <3>6
    <3> QED BY <1>1, <2>7, <3>2
  <2>11. LosesNoLabel BY <2>7, <2>8, <2>9 DEF LosesNoLabel
  <2>10. TellsLastTruly BY <1>1, <1>3, <2>2, <2>4, <2>7 DEF TellsLastTruly, Last
  <2> QED BY <2>7, <2>10, <2>11 DEF TellsAll
<1>7. ASSUME classified' = [Unread EXCEPT !.at = "raised"]
      PROVE  classified' \in Classified /\ TellsAll
  <2>1. classified' = [at |-> "raised", todo |-> <<>>, out |-> <<>>] BY <1>7 DEF Unread
  <2>2. <<>> \in Seq(OnFile) /\ <<>> \in Seq(Tellable) /\ Len(<<>>) = 0 OBVIOUS
  <2>3. classified' \in Classified BY <2>1, <2>2 DEF Classified
  <2>4. classified'.out = <<>> /\ classified'.at = "raised" BY <2>1
  <2>5. ~(Len(classified'.out) > Len(classified.out)) BY <1>1, <1>5, <2>2, <2>4
  <2> QED BY <2>3, <2>4, <2>5 DEF TellsAll, LosesNoLabel, TellsLastTruly
<1>8. \/ \E d \in IF Refusals(one.id) = {} THEN {<<{definition_of(one.id)}, "none">>}
                  ELSE {<<{}, reason_of(cause)>> : cause \in Refusals(one.id)} :
           classified' = [was EXCEPT !.todo = Tail(@), !.out = @ \o listed(build_label(one, d[1], d[2]))]
      \/ classified' = [Unread EXCEPT !.at = "raised"]
  <2>1. Head(classified.todo) = one BY <1>1, <1>3
  <2> QED BY <1>1, <2>1 DEF get_label_definition
<1>9. classified' \in Classified /\ TellsAll
  BY <1>6, <1>7, <1>8
<1> QED BY <1>9 DEF LabelsInv, get_label_definition

LEMMA AnsweringKeeps ==
  ASSUME LabelsInv, labels_out
  PROVE  LabelsInv' /\ TellsAll
<1>1. PICK was \in Classified : was = classified BY DEF LabelsInv
<1>2. classified' = [was EXCEPT !.at = "answered"] BY <1>1 DEF labels_out
<1>3. /\ classified' \in Classified
      /\ classified'.todo = was.todo /\ classified'.out = was.out
  BY <1>2 DEF Classified
<1>4. was.out \in Seq(Tellable) /\ Len(was.out) \in Nat BY DEF Classified
<1>5. \A i \in DOMAIN was.out :
        was.out[i].unresolved_reason # "none" => was.out[i].name = Unnamed /\ was.out[i].value.ref
  BY <1>4 DEF Tellable
<1>6. TellsAll BY <1>1, <1>3, <1>4, <1>5 DEF TellsAll, LosesNoLabel, TellsLastTruly
<1> QED BY <1>3, <1>6 DEF LabelsInv, labels_out

LEMMA StillTells ==
  ASSUME LabelsInv, UNCHANGED classified
  PROVE  TellsAll
<1>1. classified.out \in Seq(Tellable) /\ Len(classified.out) \in Nat BY DEF LabelsInv, Classified
<1>2. \A i \in DOMAIN classified.out :
        classified.out[i].unresolved_reason # "none" =>
          classified.out[i].name = Unnamed /\ classified.out[i].value.ref
  BY <1>1 DEF Tellable
<1> QED BY <1>1, <1>2 DEF TellsAll, LosesNoLabel, TellsLastTruly

LEMMA ChangesKeep ==
  ASSUME LabelsInv, LabelledMeanwhile
  PROVE  LabelsInv' /\ TellsAll
<1>1. PICK A \in SUBSET LabelIds : applied \in [A -> ChoiceIds] BY DEF LabelsInv
<1>2. PICK B \in SUBSET LabelIds : definitions \in [B -> Definitions] BY DEF LabelsInv
<1>3. changes' \in 0 .. MaxChanges BY LabelsAssumption DEF LabelledMeanwhile, LabelsInv
<1>4. DOMAIN applied = A /\ DOMAIN definitions = B BY <1>1, <1>2
<1>5. ASSUME NEW l \in LabelIds, NEW c \in ChoiceIds,
             applied' = [x \in A \cup {l} |-> IF x = l THEN c ELSE applied[x]]
      PROVE  \E D \in SUBSET LabelIds : applied' \in [D -> ChoiceIds]
  <2>1. A \cup {l} \in SUBSET LabelIds /\ applied' \in [A \cup {l} -> ChoiceIds] BY <1>1, <1>5
  <2> QED BY <2>1
<1>6. ASSUME NEW l, applied' = [x \in A \ {l} |-> applied[x]]
      PROVE  \E D \in SUBSET LabelIds : applied' \in [D -> ChoiceIds]
  <2>1. A \ {l} \in SUBSET LabelIds /\ applied' \in [A \ {l} -> ChoiceIds] BY <1>1, <1>6
  <2> QED BY <2>1
<1>7. ASSUME NEW l \in LabelIds, NEW d \in Definitions,
             definitions' = [x \in B \cup {l} |-> IF x = l THEN d ELSE definitions[x]]
      PROVE  \E D \in SUBSET LabelIds : definitions' \in [D -> Definitions]
  <2>1. B \cup {l} \in SUBSET LabelIds /\ definitions' \in [B \cup {l} -> Definitions] BY <1>2, <1>7
  <2> QED BY <2>1
<1>8. ASSUME NEW l, definitions' = [x \in B \ {l} |-> definitions[x]]
      PROVE  \E D \in SUBSET LabelIds : definitions' \in [D -> Definitions]
  <2>1. B \ {l} \in SUBSET LabelIds /\ definitions' \in [B \ {l} -> Definitions] BY <1>2, <1>8
  <2> QED BY <2>1
<1>9. UNCHANGED applied => \E D \in SUBSET LabelIds : applied' \in [D -> ChoiceIds] BY <1>1
<1>10. UNCHANGED definitions => \E D \in SUBSET LabelIds : definitions' \in [D -> Definitions] BY <1>2
<1>11. \E D \in SUBSET LabelIds : applied' \in [D -> ChoiceIds]
  BY <1>4, <1>5, <1>6, <1>9 DEF LabelledMeanwhile
<1>12. \E D \in SUBSET LabelIds : definitions' \in [D -> Definitions]
  BY <1>4, <1>7, <1>8, <1>10 DEF LabelledMeanwhile
<1>13. UNCHANGED classified BY DEF LabelledMeanwhile
<1>14. classified' \in Classified BY <1>13 DEF LabelsInv
<1> QED BY <1>3, <1>11, <1>12, <1>13, <1>14, StillTells DEF LabelsInv

LEMMA LabelsStart ==
  ASSUME LabelsInit
  PROVE  LabelsInv
<1>1. (CHOOSE c \in ChoiceIds : TRUE) \in ChoiceIds /\ (CHOOSE t \in LabelNames : TRUE) \in LabelNames
  BY LabelsAssumption
<1>2. applied \in [LabelIds -> ChoiceIds] BY <1>1 DEF LabelsInit
<1>3. <<>> \in SomeFunctions(ChoiceIds, LabelNames)
  <2>1. <<>> \in [{} -> LabelNames] /\ {} \in SUBSET ChoiceIds OBVIOUS
  <2> QED BY <2>1 DEF SomeFunctions
<1>4. definitions \in [LabelIds -> Definitions] BY <1>1, <1>3 DEF LabelsInit, Definitions
<1>5. <<>> \in Seq(OnFile) /\ <<>> \in Seq(Tellable) OBVIOUS
<1>6. classified \in Classified BY <1>5 DEF LabelsInit, Unread, Classified
<1> QED BY <1>2, <1>4, <1>6, LabelsAssumption DEF LabelsInit, LabelsInv

LEMMA LabelsStep ==
  ASSUME LabelsInv, [LabelsNext]_labelVars
  PROVE  LabelsInv' /\ [TellsAll]_labelVars
<1>1. CASE UNCHANGED labelVars BY <1>1 DEF labelVars, LabelsInv
<1> QED BY <1>1, ListingKeeps, NamingKeeps, AnsweringKeeps, ChangesKeep DEF LabelsNext

LEMMA LabelsInvariant == LabelsSpec => []LabelsInv
<1>1. LabelsInit => LabelsInv BY LabelsStart
<1>2. LabelsInv /\ [LabelsNext]_labelVars => LabelsInv' BY LabelsStep
<1> QED BY <1>1, <1>2, PTL DEF LabelsSpec

\* However the two APIs change, nothing that is an id is told as a name
\* (labels.py:128-165).
THEOREM IdsAreNoNames == LabelsSpec => []LabelsTypeOK
<1>1. LabelsInv => LabelsTypeOK
  <2> SUFFICES ASSUME LabelsInv PROVE LabelsTypeOK OBVIOUS
  <2>1. DOMAIN applied \subseteq LabelIds /\ DOMAIN definitions \subseteq LabelIds BY DEF LabelsInv
  <2>2. classified.out \in Seq(Tellable) BY DEF LabelsInv, Classified
  <2>3. \A i \in DOMAIN classified.out : classified.out[i] \in Tellable BY <2>2
  <2> QED BY <2>1, <2>3 DEF LabelsTypeOK, LabelsInv, Tellable, Label
<1> QED BY <1>1, LabelsInvariant, PTL

\* A reading of a file's labels loses none of them, calls each what its definition called
\* it when it was read, be that nothing, and tells of each it has no definition of how the
\* reading was refused, a hidden definition as a missing scope, whatever administrators and
\* editors change meanwhile (labels.py:147-225).
THEOREM LabelsAreToldTruly == LabelsSpec => LabelsAreTrue
<1>1. LabelsInv /\ [LabelsNext]_labelVars => [TellsAll]_labelVars BY LabelsStep
<1>2. [TellsAll]_labelVars => [LosesNoLabel]_labelVars BY DEF TellsAll
<1>3. [TellsAll]_labelVars => [TellsLastTruly]_labelVars BY DEF TellsAll
<1>4. LabelsSpec => [][LosesNoLabel]_labelVars /\ [][TellsLastTruly]_labelVars
  BY <1>1, <1>2, <1>3, LabelsInvariant, PTL DEF LabelsSpec
<1> QED BY <1>4 DEF LabelsAreTrue, LabelledIsNeverUnlabelled, NamedByItsDefinition,
                    LosesNoLabel, TellsLastTruly, TellsTruly

-----------------------------------------------------------------------------
(* Searches and inventories. *)

DriveFile == [there : BOOLEAN, trashed : BOOLEAN, touched : 0 .. Latest, parents : SUBSET Folders,
         editor : People, commented : SUBSET People]
SweepFields ==
  {"at", "op", "asked", "mentions", "limit", "order", "cursor", "found", "steady", "ids", "next",
   "unreachable", "subject", "comments", "rows", "caveats", "parents", "id"}

DriveShape ==
  /\ drive_files \in [Files -> DriveFile]
  /\ touches \in 0 .. Latest /\ moves \in 0 .. MaxMoves

\* Where an operation is tells which it is; only its answer has rows.
SweepShape ==
  /\ DOMAIN sweep = SweepFields
  /\ sweep.at \in {"rest", "page", "get", "read", "answered", "raised"}
  /\ sweep.found \in Seq(Files) /\ sweep.limit \in Nat /\ sweep.next \in Nat \ {0}
  /\ sweep.parents = NotAsked \/ (sweep.op \in AsksForParents /\ sweep.parents \subseteq Folders)
  /\ sweep.at = "page" => sweep.op \in {"search", "inventory of query"}
  /\ sweep.at = "get" => sweep.op = "inventory"
  /\ sweep.at = "read" => sweep.op \in {"inventory", "inventory of query"}
  /\ sweep.at \in {"page", "get", "read"} => sweep.rows = <<>>

\* A search under way has found what it has come past, and nothing out of order, but
\* for what was touched meanwhile.
ComesYet ==
  \A f \in sweep.steady \cap Listed :
    _compose(f, sweep.mentions) => Contains(sweep.found, f) \/ Past(f)
Falling ==
  \A i, j \in DOMAIN sweep.found :
    i < j /\ {sweep.found[i], sweep.found[j]} \subseteq sweep.steady =>
      drive_files[sweep.found[i]].touched > drive_files[sweep.found[j]].touched
NoneBelow ==
  \A i \in DOMAIN sweep.found :
    sweep.found[i] \in sweep.steady => drive_files[sweep.found[i]].touched >= sweep.cursor
SearchFits ==
  sweep.op = "search" =>
    /\ sweep.at \in {"page", "answered", "raised"}
    /\ sweep.at \in {"page", "answered"} =>
         /\ sweep.asked = [key |-> "recency", dir |-> "bare"] => sweep.order = "desc"
         /\ sweep.order = "desc" => Falling
    /\ sweep.at = "page" =>
         /\ sweep.cursor \in Int /\ Len(sweep.found) < sweep.limit /\ ComesYet
         /\ sweep.order = "desc" => NoneBelow
    /\ SearchIsComplete

\* An inventory has accounted for the ids it has come past.
Accounted(id) ==
  \/ \E j \in DOMAIN sweep.found : sweep.found[j] = id
  \/ \E j \in DOMAIN sweep.unreachable : sweep.unreachable[j].id = id
AccountedTo(n) ==
  /\ Len(sweep.found) + Len(sweep.unreachable) = n
  /\ \A i \in 1 .. n : Accounted(sweep.ids[i])
Unreached == [id : Files, reason : {"not_found", "no_access", "failed"}]
InventoryFits ==
  sweep.op = "inventory" =>
    /\ sweep.ids \in Seq(Files) /\ sweep.unreachable \in Seq(Unreached)
    /\ sweep.at = "get" =>
         sweep.next \in 1 .. Len(sweep.ids) + 1 /\ AccountedTo(sweep.next - 1)
    /\ sweep.at = "read" => AccountedTo(Len(sweep.ids))
    /\ EveryIdIsAccountedFor

\* Comments are read for somebody's inventory alone, and are of people.
SubjectFits ==
  /\ \A f \in DOMAIN sweep.comments : sweep.comments[f] \subseteq People
  /\ sweep.subject = NoSubject => DOMAIN sweep.comments = {}
  /\ NamesakesAreFlagged

FilesInv == DriveShape /\ SweepShape /\ SearchFits /\ InventoryFits /\ SubjectFits

-----------------------------------------------------------------------------
(* The largest of finitely many numbers. *)

LEMMA FiniteHasMax ==
  ASSUME NEW S \in SUBSET Nat, IsFiniteSet(S), S # {}
  PROVE  Max(S) \in S /\ \A y \in S : Max(S) >= y
<1> DEFINE n == Cardinality(S)
<1>1. n \in Nat /\ ExistsBijection(1 .. n, S) BY FS_CardinalityType
<1>2. PICK b \in [1 .. n -> S] : \A y \in S : \E i \in 1 .. n : b[i] = y
  BY <1>1 DEF ExistsBijection, Bijection, Surjection, Range
<1>3. n \in Nat \ {0}
  <2>1. PICK y \in S : TRUE OBVIOUS
  <2>2. PICK i \in 1 .. n : b[i] = y BY <1>2
  <2> QED BY <1>1, <2>2
<1> DEFINE Tops(k) == {m \in S : \A i \in 1 .. k : b[i] <= m}
           Bad == {k \in 1 .. n : Tops(k) = {}}
<1>4. Bad = {}
  <2> SUFFICES ASSUME Bad # {} PROVE FALSE OBVIOUS
  <2>1. PICK R : R = {ss \in Nat \X Nat : ss[1] < ss[2]} OBVIOUS
  <2>2. IsWellFoundedOn(R, Nat) BY <2>1, NatLessThanWellFounded DEF OpToRel
  <2>3. Bad \subseteq Nat BY <1>1
  <2>4. PICK k \in Bad : \A j \in Bad : <<j, k>> \notin R BY <2>2, <2>3, WFMin
  <2>5. k \in 1 .. n /\ Tops(k) = {} BY <2>4
  <2>6. CASE k = 1
    <3>0. 1 \in 1 .. n BY <1>3
    <3>4. b[1] \in S BY <1>2, <3>0
    <3>5. b[1] \in Nat BY <3>4
    <3>1. b[1] \in S /\ b[1] <= b[1] BY <3>4, <3>5
    <3>2. \A i \in 1 .. k : b[i] <= b[1] BY <2>6, <3>1
    <3>3. b[1] \in Tops(k) BY <3>1, <3>2
    <3> QED BY <2>5, <3>3
  <2>7. CASE k # 1
    <3>1. k - 1 \in 1 .. n /\ k - 1 \in Nat /\ k \in Nat /\ k - 1 < k BY <2>5, <2>7, <1>1
    <3>2. k - 1 \notin Bad BY <2>1, <2>4, <3>1
    <3>3. PICK m \in S : \A i \in 1 .. k - 1 : b[i] <= m BY <3>1, <3>2
    <3>4. b[k] \in S /\ m \in Nat /\ b[k] \in Nat BY <2>5, <1>2
    <3>5. PICK top \in S : top >= m /\ top >= b[k]
      <4>1. CASE m >= b[k] BY <4>1, <3>4
      <4>2. CASE ~(m >= b[k]) BY <4>2, <3>4
      <4> QED BY <4>1, <4>2
    <3>6. \A i \in 1 .. k : b[i] <= top
      <4> SUFFICES ASSUME NEW i \in 1 .. k PROVE b[i] <= top OBVIOUS
      <4>1. CASE i = k BY <4>1, <3>4, <3>5
      <4>2. CASE i # k
        <5>1. i \in 1 .. k - 1 /\ i \in 1 .. n BY <4>2, <2>5, <1>1
        <5>2. b[i] <= m /\ b[i] \in Nat BY <5>1, <3>3, <1>2
        <5> QED BY <5>2, <3>4, <3>5
      <4> QED BY <4>1, <4>2
    <3>7. top \in Tops(k) BY <3>6
    <3> QED BY <2>5, <3>7
  <2> QED BY <2>6, <2>7
<1>5. PICK m \in S : \A i \in 1 .. n : b[i] <= m
  <2>1. n \in 1 .. n /\ n \notin Bad BY <1>3, <1>4
  <2>2. Tops(n) # {} BY <2>1
  <2> QED BY <2>2
<1>6. \A y \in S : m >= y
  <2> SUFFICES ASSUME NEW y \in S PROVE m >= y OBVIOUS
  <2>1. PICK i \in 1 .. n : b[i] = y BY <1>2
  <2> QED BY <2>1, <1>5
<1> QED BY <1>6 DEF Max

LEMMA LatestIsLast == Latest \in Nat /\ Max(Files) \in Nat /\ \A f \in Files : f \in 0 .. Max(Files)
<1>1. Max(Files) \in Files /\ \A y \in Files : Max(Files) >= y
  BY FiniteHasMax, FilesAssumption
<1>2. Files \subseteq Nat /\ MaxTouch \in Nat BY FilesAssumption
<1>3. Max(Files) \in Nat BY <1>1, <1>2
<1>4. PICK m \in Nat : m = Max(Files) BY <1>3
<1>5. \A f \in Files : f \in Nat /\ m >= f BY <1>1, <1>2, <1>4
<1>6. \A f \in Files : f \in 0 .. m BY <1>5
<1> QED BY <1>2, <1>4, <1>6 DEF Latest

-----------------------------------------------------------------------------
(* Steps of an operation. *)

LEMMA FieldsOfRest == DOMAIN AtRest = SweepFields BY DEF AtRest, SweepFields

LEMMA Started ==
  ASSUME NEW fields, Starts(fields)
  PROVE  /\ DOMAIN sweep' = SweepFields
         /\ \A x \in SweepFields :
              sweep'[x] = IF x \in DOMAIN fields THEN fields[x]
                          ELSE IF x = "steady" THEN Files ELSE AtRest[x]
  BY FieldsOfRest DEF Starts

LEMMA Continued ==
  ASSUME NEW fields, Continues(fields), DOMAIN sweep = SweepFields
  PROVE  /\ DOMAIN sweep' = SweepFields
         /\ \A x \in SweepFields : sweep'[x] = IF x \in DOMAIN fields THEN fields[x] ELSE sweep[x]
  BY DEF Continues

\* An operation that begins has found nothing.
BlankSweep ==
  /\ sweep'.found = <<>> /\ sweep'.unreachable = <<>> /\ sweep'.comments = <<>> /\ sweep'.rows = <<>>
  /\ sweep'.steady = Files /\ sweep'.next = 1 /\ DOMAIN sweep' = SweepFields

\* One that gives its answer at once fits, unless it sweeps the Drive.
LEMMA AtOnceFits ==
  ASSUME FilesInv, DriveShape', BlankSweep, sweep'.at \in {"answered", "raised"}, sweep'.limit \in Nat,
         sweep'.op \notin {"search", "inventory"} \/ (sweep'.op = "search" /\ sweep'.at = "raised"),
         sweep'.parents = NotAsked \/ (sweep'.op \in AsksForParents /\ sweep'.parents \subseteq Folders)
  PROVE  FilesInv'
<1>5. <<>> \in Seq(Files) OBVIOUS
<1>6. sweep'.found \in Seq(Files) /\ sweep'.next \in Nat \ {0} BY <1>5 DEF BlankSweep
<1>1. SweepShape' BY <1>6 DEF SweepShape, BlankSweep
<1>2. SearchFits' BY DEF SearchFits, SearchIsComplete
<1>3. InventoryFits' BY DEF InventoryFits
<1>4. SubjectFits' BY DEF SubjectFits, NamesakesAreFlagged, BlankSweep
<1> QED BY <1>1, <1>2, <1>3, <1>4 DEF FilesInv

LEMMA CaughtFits ==
  ASSUME FilesInv, Raises, UNCHANGED <<drive_files, touches, moves>>
  PROVE  FilesInv'
<1>1. DriveShape' BY DEF FilesInv, DriveShape
<1>2. sweep' = [AtRest EXCEPT !.at = "raised"] BY DEF Raises
<1>3. /\ sweep'.at = "raised" /\ sweep'.op = "none" /\ sweep'.limit = 0 /\ sweep'.parents = NotAsked
      /\ sweep'.rows = <<>> /\ sweep'.comments = <<>> /\ sweep'.found = <<>> /\ DOMAIN sweep' = SweepFields
      /\ sweep'.next = 1
  BY <1>2 DEF AtRest, SweepFields
<1>4. SweepShape' BY <1>3 DEF SweepShape
<1>5. SearchFits' /\ InventoryFits' BY <1>3 DEF SearchFits, InventoryFits
<1>6. SubjectFits' BY <1>3 DEF SubjectFits, NamesakesAreFlagged
<1> QED BY <1>1, <1>4, <1>5, <1>6 DEF FilesInv

LEMMA StartsBlank ==
  ASSUME NEW fields, Starts(fields),
         DOMAIN fields \cap {"found", "unreachable", "comments", "rows", "steady", "next"} = {}
  PROVE  BlankSweep
<1>1. /\ AtRest.found = <<>> /\ AtRest.unreachable = <<>> /\ AtRest.comments = <<>>
      /\ AtRest.rows = <<>> /\ AtRest.next = 1
  BY DEF AtRest
<1>2. {"found", "unreachable", "comments", "rows", "steady", "next"} \subseteq SweepFields BY DEF SweepFields
<1> QED BY <1>1, <1>2, Started DEF BlankSweep

LEMMA DriveStays ==
  ASSUME FilesInv, UNCHANGED <<drive_files, touches>>, moves < MaxMoves, moves' = moves + 1
  PROVE  DriveShape'
  BY FilesAssumption DEF FilesInv, DriveShape

LEMMA SearchBegins ==
  ASSUME FilesInv, moves < MaxMoves, UNCHANGED <<drive_files, touches>>,
         NEW mentions, NEW limit \in Limits, NEW order \in Orders, search(mentions, limit, order)
  PROVE  FilesInv'
<1>1. limit \in Nat BY FilesAssumption
<1>2. CASE limit < 1 \/ _order(order) = "refused"
  <2>1. Starts([at |-> "raised", op |-> "search"]) BY <1>2 DEF search
  <2>2. BlankSweep BY <2>1, StartsBlank
  <2>3. /\ sweep'.at = "raised" /\ sweep'.op = "search"
        /\ sweep'.limit = AtRest.limit /\ sweep'.parents = AtRest.parents
    BY <2>1, Started DEF SweepFields
  <2>4. AtRest.limit = 0 /\ AtRest.parents = NotAsked BY DEF AtRest
  <2>5. DriveShape' BY <2>1, DriveStays DEF Starts
  <2> QED BY <2>2, <2>3, <2>4, <2>5, AtOnceFits
<1>3. CASE ~(limit < 1 \/ _order(order) = "refused")
  <2>1. PICK fields : fields = [at |-> "page", op |-> "search", mentions |-> mentions, limit |-> limit,
                  asked |-> order, order |-> _order(order),
                  cursor |-> IF _order(order) = "desc" THEN Latest + 1 ELSE -1]
    OBVIOUS
  <2>2. Starts(fields) BY <1>3, <2>1 DEF search
  <2>3. BlankSweep BY <2>1, <2>2, StartsBlank
  <2>4. /\ sweep'.at = "page" /\ sweep'.op = "search" /\ sweep'.limit = limit /\ sweep'.asked = order
        /\ sweep'.order = _order(order) /\ sweep'.parents = AtRest.parents
        /\ sweep'.cursor = IF _order(order) = "desc" THEN Latest + 1 ELSE -1
    BY <2>1, <2>2, Started DEF SweepFields
  <2>5. AtRest.parents = NotAsked BY DEF AtRest
  <2>6. DriveShape' BY <2>2, DriveStays DEF Starts
  <2>7. <<>> \in Seq(Files) /\ Len(<<>>) = 0 /\ DOMAIN <<>> = {} OBVIOUS
  <2>8. SweepShape' BY <2>3, <2>4, <2>5, <2>7, <1>1 DEF SweepShape, BlankSweep
  <2>9. \A f \in Files : drive_files'[f].touched \in 0 .. Latest BY <2>6 DEF DriveShape, DriveFile
  <2>10. ComesYet'
    <3> SUFFICES ASSUME NEW f \in Files PROVE Past(f)'
      BY FilesAssumption DEF ComesYet
    <3>1. PICK t \in 0 .. Latest : t = drive_files'[f].touched BY <2>9
    <3>2. -1 < t /\ t < Latest + 1 BY LatestIsLast
    <3> QED BY <2>4, <3>1, <3>2 DEF Past
  <2>11. sweep'.cursor \in Int BY <2>4, LatestIsLast
  <2>12. Falling' /\ NoneBelow' BY <2>3 DEF BlankSweep, Falling, NoneBelow
  <2>13. sweep'.asked = [key |-> "recency", dir |-> "bare"] => sweep'.order = "desc"
    BY <2>4 DEF _order, Aliases
  <2>14. SearchIsComplete' BY <2>4 DEF SearchIsComplete
  <2>15. Len(sweep'.found) < sweep'.limit BY <1>1, <1>3, <2>3, <2>4, <2>7 DEF BlankSweep
  <2>16. SearchFits' BY <2>4, <2>10, <2>11, <2>12, <2>13, <2>14, <2>15 DEF SearchFits
  <2>17. InventoryFits' BY <2>4 DEF InventoryFits
  <2>18. SubjectFits' BY <2>3, <2>7 DEF SubjectFits, NamesakesAreFlagged, BlankSweep
  <2> QED BY <2>6, <2>8, <2>16, <2>17, <2>18 DEF FilesInv
<1> QED BY <1>2, <1>3

LEMMA InventoryBegins ==
  ASSUME FilesInv, moves < MaxMoves, UNCHANGED <<drive_files, touches>>,
         NEW limit \in Limits, NEW subject, NEW ids \in IdLists, inventory(ids, limit, subject)
  PROVE  FilesInv'
<1>1. limit \in Nat /\ ids \in Seq(Files) BY FilesAssumption
<1>2. PICK some : some = SubSeq(ids, 1, IF limit < Len(ids) THEN limit ELSE Len(ids)) OBVIOUS
<1>3. some \in Seq(Files) BY <1>1, <1>2
<1>4. PICK fields : fields = [at |-> "get", op |-> "inventory", ids |-> some, limit |-> limit,
                              subject |-> subject]
  OBVIOUS
<1>5. Starts(fields) BY <1>2, <1>4 DEF inventory
<1>6. BlankSweep BY <1>4, <1>5, StartsBlank
<1>7. /\ sweep'.at = "get" /\ sweep'.op = "inventory" /\ sweep'.ids = some /\ sweep'.limit = limit
      /\ sweep'.next = AtRest.next /\ sweep'.parents = AtRest.parents
  BY <1>4, <1>5, Started DEF SweepFields
<1>8. AtRest.parents = NotAsked /\ AtRest.next = 1 BY DEF AtRest
<1>9. DriveShape' BY <1>5, DriveStays DEF Starts
<1>10. <<>> \in Seq(Files) /\ <<>> \in Seq(Unreached) /\ Len(<<>>) = 0 /\ DOMAIN <<>> = {} OBVIOUS
<1>11. SweepShape' BY <1>1, <1>6, <1>7, <1>8, <1>10 DEF SweepShape, BlankSweep
<1>12. SearchFits' BY <1>7 DEF SearchFits
<1>13. sweep'.next \in 1 .. Len(sweep'.ids) + 1 /\ sweep'.next - 1 = 0
  <2>1. Len(some) \in Nat BY <1>3
  <2> QED BY <1>7, <1>8, <2>1
<1>14. AccountedTo(0)' BY <1>6, <1>10 DEF AccountedTo, BlankSweep
<1>15. InventoryFits' BY <1>3, <1>6, <1>7, <1>10, <1>13, <1>14 DEF InventoryFits, EveryIdIsAccountedFor, BlankSweep
<1>16. SubjectFits' BY <1>6, <1>7, <1>10 DEF SubjectFits, NamesakesAreFlagged, BlankSweep
<1> QED BY <1>9, <1>11, <1>12, <1>15, <1>16 DEF FilesInv

LEMMA QueryBegins ==
  ASSUME FilesInv, moves < MaxMoves, UNCHANGED <<drive_files, touches>>,
         NEW limit \in Limits, NEW subject, inventory_of_query(limit, subject)
  PROVE  FilesInv'
<1>1. limit \in Nat BY FilesAssumption
<1>2. PICK fields : fields = [at |-> "page", op |-> "inventory of query", limit |-> limit,
                              subject |-> subject, order |-> "asc", cursor |-> -1]
  OBVIOUS
<1>3. Starts(fields) BY <1>2 DEF inventory_of_query
<1>4. BlankSweep BY <1>2, <1>3, StartsBlank
<1>5. /\ sweep'.at = "page" /\ sweep'.op = "inventory of query" /\ sweep'.limit = limit
      /\ sweep'.parents = AtRest.parents
  <2>1. \A x \in SweepFields :
          sweep'[x] = IF x \in DOMAIN fields THEN fields[x]
                      ELSE IF x = "steady" THEN Files ELSE AtRest[x]
    BY <1>3, Started
  <2>2. DOMAIN fields = {"at", "op", "limit", "subject", "order", "cursor"} BY <1>2
  <2>3. {"at", "op", "limit", "parents"} \subseteq SweepFields BY DEF SweepFields
  <2>4. fields.at = "page" /\ fields.op = "inventory of query" /\ fields.limit = limit BY <1>2
  <2> QED BY <2>1, <2>2, <2>3, <2>4
<1>6. AtRest.parents = NotAsked BY DEF AtRest
<1>7. DriveShape' BY <1>3, DriveStays DEF Starts
<1>8. <<>> \in Seq(Files) /\ DOMAIN <<>> = {} OBVIOUS
<1>12. sweep'.found \in Seq(Files) /\ sweep'.next \in Nat \ {0} BY <1>4, <1>8 DEF BlankSweep
<1>9. SweepShape' BY <1>1, <1>4, <1>5, <1>6, <1>12 DEF SweepShape, BlankSweep
<1>10. SearchFits' /\ InventoryFits' BY <1>5 DEF SearchFits, InventoryFits
<1>11. SubjectFits' BY <1>4, <1>5, <1>8 DEF SubjectFits, NamesakesAreFlagged, BlankSweep
<1> QED BY <1>7, <1>9, <1>10, <1>11 DEF FilesInv

LEMMA ToldFits ==
  ASSUME FilesInv, DriveShape', NEW op \in {"create", "copy", "update", "trash", "get"},
         NEW f \in Files, Tells(op, f)
  PROVE  FilesInv'
<1>1. PICK parents : parents = _wrap(op, drive_files'[f].parents) OBVIOUS
<1>2. PICK fields : fields = [at |-> "answered", op |-> op, id |-> f, parents |-> parents] OBVIOUS
<1>3. Starts(fields) BY <1>1, <1>2 DEF Tells
<1>4. BlankSweep BY <1>2, <1>3, StartsBlank
<1>5. sweep'.at = "answered" /\ sweep'.op = op /\ sweep'.limit = AtRest.limit /\ sweep'.parents = parents
  BY <1>2, <1>3, Started DEF SweepFields
<1>6. AtRest.limit = 0 BY DEF AtRest
<1>7. drive_files'[f].parents \subseteq Folders BY DEF DriveShape, DriveFile
<1>8. parents = NotAsked \/ (op \in AsksForParents /\ parents \subseteq Folders)
  BY <1>1, <1>7 DEF _wrap
<1> QED BY <1>4, <1>5, <1>6, <1>8, AtOnceFits

\* A file touched keeps the Drive in shape.
LEMMA TouchedFits ==
  ASSUME DriveShape, NEW f \in Files, NEW file, Touched(f, file), NEW t,
         file = [there |-> file.there, trashed |-> file.trashed, touched |-> t,
                 parents |-> file.parents, editor |-> file.editor, commented |-> file.commented],
         file.there \in BOOLEAN, file.trashed \in BOOLEAN, file.parents \subseteq Folders,
         file.editor \in People, file.commented \subseteq People, moves' \in 0 .. MaxMoves
  PROVE  DriveShape' /\ \A g \in Files \ {f} : drive_files'[g] = drive_files[g]
<1>1. touches' \in 0 .. Latest /\ touches' = touches + 1 BY LatestIsLast DEF DriveShape, Touched
<1>2. PICK now : now = [file EXCEPT !.touched = touches + 1] OBVIOUS
<1>3. now = [there |-> file.there, trashed |-> file.trashed, touched |-> touches + 1,
             parents |-> file.parents, editor |-> file.editor, commented |-> file.commented]
  BY <1>2
<1>4. now \in DriveFile BY <1>1, <1>3 DEF DriveFile
<1>5. drive_files' = [drive_files EXCEPT ![f] = now] BY <1>2 DEF Touched
<1>6. PICK was \in [Files -> DriveFile] : was = drive_files BY DEF DriveShape
<1>7. PICK new : new = [was EXCEPT ![f] = now] OBVIOUS
<1>8. new \in [Files -> DriveFile] /\ \A g \in Files \ {f} : new[g] = was[g] BY <1>4, <1>7
<1> QED BY <1>1, <1>5, <1>6, <1>7, <1>8 DEF DriveShape

-----------------------------------------------------------------------------
(* The life of a file. *)

LEMMA CreateKeeps ==
  ASSUME FilesInv, moves < MaxMoves, NEW f \in Files,
         NEW parent \in {{}} \cup {{g} : g \in Folders}, NEW op \in {"create", "copy"},
         Touched(f, Fresh(parent)), Tells(op, f)
  PROVE  FilesInv'
<1>1. PICK file : file = Fresh(parent) OBVIOUS
<1>2. /\ file = [there |-> file.there, trashed |-> file.trashed, touched |-> 0,
                 parents |-> file.parents, editor |-> file.editor, commented |-> file.commented]
      /\ file.there \in BOOLEAN /\ file.trashed \in BOOLEAN /\ file.parents \subseteq Folders
      /\ file.editor \in People /\ file.commented \subseteq People
  BY <1>1, FilesAssumption DEF Fresh
<1>3. moves' \in 0 .. MaxMoves BY FilesAssumption DEF FilesInv, DriveShape, Tells, Starts
<1>4. DriveShape' BY <1>1, <1>2, <1>3, TouchedFits DEF FilesInv
<1> QED BY <1>4, ToldFits

LEMMA UpdateKeeps ==
  ASSUME FilesInv, moves < MaxMoves, NEW f \in Files,
         NEW add \in {{}} \cup {{g} : g \in Folders}, NEW remove, update(f, add, remove)
  PROVE  FilesInv'
<1>1. PICK was \in DriveFile : was = drive_files[f] BY DEF FilesInv, DriveShape
<1>2. CASE add \cup remove = {}
  <2>1. Starts([at |-> "raised", op |-> "update"]) /\ UNCHANGED <<drive_files, touches>>
    BY <1>2 DEF update
  <2>2. BlankSweep BY <2>1, StartsBlank
  <2>3. /\ sweep'.at = "raised" /\ sweep'.op = "update"
        /\ sweep'.limit = AtRest.limit /\ sweep'.parents = AtRest.parents
    BY <2>1, Started DEF SweepFields
  <2>4. AtRest.limit = 0 /\ AtRest.parents = NotAsked BY DEF AtRest
  <2>5. DriveShape' BY <2>1, DriveStays DEF Starts
  <2> QED BY <2>2, <2>3, <2>4, <2>5, AtOnceFits
<1>3. CASE add \cup remove # {}
  <2>1. PICK file : file = [was EXCEPT !.parents = (@ \ remove) \cup add] OBVIOUS
  <2>2. /\ file = [there |-> file.there, trashed |-> file.trashed, touched |-> was.touched,
                   parents |-> file.parents, editor |-> file.editor, commented |-> file.commented]
        /\ file.there \in BOOLEAN /\ file.trashed \in BOOLEAN /\ file.parents \subseteq Folders
        /\ file.editor \in People /\ file.commented \subseteq People
    BY <1>1, <2>1 DEF DriveFile
  <2>3. Touched(f, file) /\ Tells("update", f) BY <1>1, <1>3, <2>1 DEF update
  <2>4. moves' \in 0 .. MaxMoves BY <2>3, FilesAssumption DEF FilesInv, DriveShape, Tells, Starts
  <2>5. DriveShape' BY <2>2, <2>3, <2>4, TouchedFits DEF FilesInv
  <2> QED BY <2>3, <2>5, ToldFits
<1> QED BY <1>2, <1>3

LEMMA OneFieldOfAFile ==
  ASSUME DriveShape, NEW f \in Files, NEW now \in DriveFile, drive_files' = [drive_files EXCEPT ![f] = now],
         touches' \in 0 .. Latest, moves' \in 0 .. MaxMoves
  PROVE  DriveShape' /\ \A g \in Files \ {f} : drive_files'[g] = drive_files[g]
<1>1. PICK was \in [Files -> DriveFile] : was = drive_files BY DEF DriveShape
<1>2. PICK new : new = [was EXCEPT ![f] = now] OBVIOUS
<1>3. new \in [Files -> DriveFile] /\ \A g \in Files \ {f} : new[g] = was[g] BY <1>2
<1> QED BY <1>1, <1>2, <1>3 DEF DriveShape

LEMMA TrashKeeps ==
  ASSUME FilesInv, moves < MaxMoves, NEW f \in Files, NEW untrash \in BOOLEAN, trash(f, untrash)
  PROVE  FilesInv'
<1>1. PICK was \in DriveFile : was = drive_files[f] BY DEF FilesInv, DriveShape
<1>2. PICK now : now = [was EXCEPT !.trashed = ~untrash] OBVIOUS
<1>3. now \in DriveFile BY <1>2 DEF DriveFile
<1>4. drive_files' = [drive_files EXCEPT ![f] = now] BY <1>1, <1>2 DEF trash
<1>5. moves' \in 0 .. MaxMoves /\ touches' \in 0 .. Latest
  BY FilesAssumption DEF FilesInv, DriveShape, trash, Tells, Starts
<1>6. DriveShape' BY <1>3, <1>4, <1>5, OneFieldOfAFile DEF FilesInv
<1> QED BY <1>6, ToldFits DEF trash

LEMMA GetKeeps ==
  ASSUME FilesInv, moves < MaxMoves, NEW f \in Files, get(f)
  PROVE  FilesInv'
<1>1. DriveShape' BY DriveStays DEF get, Tells, Starts
<1> QED BY <1>1, ToldFits DEF get

LEMMA BeginsKeep ==
  ASSUME FilesInv, Free, Begins
  PROVE  FilesInv'
<1>1. moves < MaxMoves BY DEF Free
<1>2. ASSUME NEW mentions \in BOOLEAN, NEW limit \in Limits, NEW order \in Orders,
             search(mentions, limit, order), UNCHANGED <<drive_files, touches>>
      PROVE  FilesInv'
  BY <1>1, <1>2, SearchBegins
<1>3. ASSUME NEW limit \in Limits \ {0}, NEW subject \in Subjects \cup {NoSubject},
             (\E ids \in IdLists : inventory(ids, limit, subject)) \/ inventory_of_query(limit, subject),
             UNCHANGED <<drive_files, touches>>
      PROVE  FilesInv'
  <2>1. CASE \E ids \in IdLists : inventory(ids, limit, subject)
    <3>1. PICK ids \in IdLists : inventory(ids, limit, subject) BY <2>1
    <3> QED BY <1>1, <1>3, <3>1, InventoryBegins
  <2>2. CASE inventory_of_query(limit, subject) BY <1>1, <1>3, <2>2, QueryBegins
  <2> QED BY <1>3, <2>1, <2>2
<1>4. ASSUME NEW f \in Files, NEW parent \in {{}} \cup {{g} : g \in Folders},
             create(f, parent) \/ \E source \in Files : copy(source, f, parent)
      PROVE  FilesInv'
  <2>1. \E op \in {"create", "copy"} : Touched(f, Fresh(parent)) /\ Tells(op, f)
    BY <1>4 DEF create, copy
  <2> QED BY <1>1, <2>1, CreateKeeps
<1>5. ASSUME NEW f \in Files, NEW add \in {{}} \cup {{g} : g \in Folders}, NEW remove,
             update(f, add, remove)
      PROVE  FilesInv'
  BY <1>1, <1>5, UpdateKeeps
<1>6. ASSUME NEW f \in Files, get(f) \/ \E untrash \in BOOLEAN : trash(f, untrash) PROVE FilesInv'
  BY <1>1, <1>6, GetKeeps, TrashKeeps
<1> QED BY <1>2, <1>3, <1>4, <1>5, <1>6 DEF Begins

-----------------------------------------------------------------------------
(* Others use the Drive meanwhile. *)

LEMMA StillFits ==
  ASSUME FilesInv, DriveShape', NEW f \in Files, Continues([steady |-> sweep.steady \ {f}]),
         \A g \in Files \ {f} : drive_files'[g] = drive_files[g]
  PROVE  FilesInv'
<1>1. /\ DOMAIN sweep' = SweepFields /\ sweep'.steady = sweep.steady \ {f}
      /\ \A x \in SweepFields \ {"steady"} : sweep'[x] = sweep[x]
  <2>1. PICK fields : fields = [steady |-> sweep.steady \ {f}] OBVIOUS
  <2>2. DOMAIN sweep = SweepFields /\ Continues(fields) BY <2>1 DEF FilesInv, SweepShape
  <2>3. DOMAIN fields = {"steady"} /\ fields.steady = sweep.steady \ {f} BY <2>1
  <2> QED BY <2>2, <2>3, Continued DEF SweepFields
<1>2. /\ sweep'.at = sweep.at /\ sweep'.op = sweep.op /\ sweep'.asked = sweep.asked
      /\ sweep'.mentions = sweep.mentions /\ sweep'.limit = sweep.limit /\ sweep'.order = sweep.order
      /\ sweep'.cursor = sweep.cursor /\ sweep'.found = sweep.found /\ sweep'.ids = sweep.ids
      /\ sweep'.next = sweep.next /\ sweep'.unreachable = sweep.unreachable
      /\ sweep'.subject = sweep.subject /\ sweep'.comments = sweep.comments
      /\ sweep'.rows = sweep.rows /\ sweep'.caveats = sweep.caveats /\ sweep'.parents = sweep.parents
  BY <1>1 DEF SweepFields
<1>3. SweepShape' BY <1>1, <1>2 DEF FilesInv, SweepShape
<1>4. sweep.found \in Seq(Files) BY DEF FilesInv, SweepShape
<1>5. \A i \in DOMAIN sweep.found : sweep.found[i] \in Files BY <1>4
<1>6. Falling => Falling' BY <1>1, <1>2, <1>5 DEF Falling
<1>7. NoneBelow => NoneBelow' BY <1>1, <1>2, <1>5 DEF NoneBelow
<1>8. ComesYet => ComesYet'
  BY <1>1, <1>2, FilesAssumption DEF ComesYet, Contains, Past, _compose
<1>9. SearchIsComplete => SearchIsComplete'
  <2>1. \A g \in sweep'.steady \cap Listed :
          g \in sweep.steady /\ (_compose(g, sweep.mentions)' <=> _compose(g, sweep.mentions))
    BY <1>1, <1>2, FilesAssumption DEF _compose
  <2>2. \A g : Contains(sweep.found, g) => Contains(sweep.found, g)' BY <1>2 DEF Contains
  <2> QED BY <1>2, <2>1, <2>2 DEF SearchIsComplete
<1>10. SearchFits' BY <1>2, <1>6, <1>7, <1>8, <1>9 DEF FilesInv, SearchFits
<1>11. ASSUME NEW n, AccountedTo(n) PROVE AccountedTo(n)'
  <2>1. \A id : Accounted(id) => Accounted(id)' BY <1>2 DEF Accounted
  <2>2. Len(sweep'.found) + Len(sweep'.unreachable) = n BY <1>2, <1>11 DEF AccountedTo
  <2>3. \A i \in 1 .. n : Accounted(sweep'.ids[i]) BY <1>2, <1>11 DEF AccountedTo
  <2> QED BY <2>1, <2>2, <2>3 DEF AccountedTo
<1>12. EveryIdIsAccountedFor => EveryIdIsAccountedFor'
  <2> SUFFICES ASSUME EveryIdIsAccountedFor, sweep.at = "answered", sweep.op = "inventory"
               PROVE  EveryIdIsAccountedFor'
    BY <1>2 DEF EveryIdIsAccountedFor
  <2>1. /\ Len(sweep.rows) + Len(sweep.unreachable) = Len(sweep.ids)
        /\ sweep.unreachable # <<>> => "unreachable" \in sweep.caveats
    BY DEF EveryIdIsAccountedFor
  <2>2. \A i \in DOMAIN sweep.ids :
           \/ \E j \in DOMAIN sweep.rows : sweep.rows[j].id = sweep.ids[i]
           \/ \E j \in DOMAIN sweep.unreachable : sweep.unreachable[j].id = sweep.ids[i]
    BY DEF EveryIdIsAccountedFor
  <2>3. PICK rows, gone, asked_for : rows = sweep.rows /\ gone = sweep.unreachable /\ asked_for = sweep.ids
    OBVIOUS
  <2>4. \A i \in DOMAIN asked_for : \/ \E j \in DOMAIN rows : rows[j].id = asked_for[i]
                                    \/ \E j \in DOMAIN gone : gone[j].id = asked_for[i]
    BY <2>2, <2>3
  <2>5. sweep'.rows = rows /\ sweep'.unreachable = gone /\ sweep'.ids = asked_for BY <1>2, <2>3
  <2>6. Len(rows) + Len(gone) = Len(asked_for) /\ (gone # <<>> => "unreachable" \in sweep'.caveats)
    BY <1>2, <2>1, <2>3
  <2> QED BY <2>4, <2>5, <2>6 DEF EveryIdIsAccountedFor
<1>13. InventoryFits' BY <1>2, <1>11, <1>12 DEF FilesInv, InventoryFits
<1>14. NamesakesAreFlagged => NamesakesAreFlagged' BY <1>2 DEF NamesakesAreFlagged
<1>15. SubjectFits' BY <1>2, <1>14 DEF FilesInv, SubjectFits
<1> QED BY <1>3, <1>10, <1>13, <1>15 DEF FilesInv

LEMMA MeanwhileKeeps ==
  ASSUME FilesInv, NEW f \in Files, NEW p \in People, Meanwhile(f, p)
  PROVE  FilesInv'
<1>1. PICK was \in DriveFile : was = drive_files[f] BY DEF FilesInv, DriveShape
<1>2. moves' \in 0 .. MaxMoves BY DEF Meanwhile, FilesInv, DriveShape
<1> DEFINE Fits == DriveShape' /\ \A g \in Files \ {f} : drive_files'[g] = drive_files[g]
<1>3. ASSUME NEW file, NEW t, Touched(f, file),
             file = [there |-> file.there, trashed |-> file.trashed, touched |-> t,
                     parents |-> file.parents, editor |-> file.editor, commented |-> file.commented],
             file.there \in BOOLEAN, file.trashed \in BOOLEAN, file.parents \subseteq Folders,
             file.editor \in People, file.commented \subseteq People
      PROVE  Fits
  BY <1>2, <1>3, TouchedFits DEF FilesInv
<1>4. CASE Touched(f, [drive_files[f] EXCEPT !.editor = p])
  <2>1. PICK file : file = [was EXCEPT !.editor = p] OBVIOUS
  <2>2. /\ file = [there |-> file.there, trashed |-> file.trashed, touched |-> was.touched,
                   parents |-> file.parents, editor |-> file.editor, commented |-> file.commented]
        /\ file.there \in BOOLEAN /\ file.trashed \in BOOLEAN /\ file.parents \subseteq Folders
        /\ file.editor \in People /\ file.commented \subseteq People
    BY <1>1, <2>1 DEF DriveFile
  <2>3. Fits BY <1>1, <1>3, <1>4, <2>1, <2>2
  <2> QED BY <2>3, StillFits DEF Meanwhile
<1>5. CASE Touched(f, [drive_files[f] EXCEPT !.commented = @ \cup {p}])
  <2>1. PICK file : file = [was EXCEPT !.commented = @ \cup {p}] OBVIOUS
  <2>2. /\ file = [there |-> file.there, trashed |-> file.trashed, touched |-> was.touched,
                   parents |-> file.parents, editor |-> file.editor, commented |-> file.commented]
        /\ file.there \in BOOLEAN /\ file.trashed \in BOOLEAN /\ file.parents \subseteq Folders
        /\ file.editor \in People /\ file.commented \subseteq People
    BY <1>1, <2>1 DEF DriveFile
  <2>3. Fits BY <1>1, <1>3, <1>5, <2>1, <2>2
  <2> QED BY <2>3, StillFits DEF Meanwhile
<1>6. ASSUME NEW now \in DriveFile, touches < Latest, touches' = touches + 1,
             drive_files' = [drive_files EXCEPT ![f] = now]
      PROVE  Fits
  <2>1. touches' \in 0 .. Latest BY <1>6, LatestIsLast DEF FilesInv, DriveShape
  <2> QED BY <1>2, <1>6, <2>1, OneFieldOfAFile DEF FilesInv
<1>7. CASE /\ touches < Latest /\ touches' = touches + 1
           /\ drive_files' = [drive_files EXCEPT ![f].trashed = TRUE]
  <2>1. PICK now : now = [was EXCEPT !.trashed = TRUE] OBVIOUS
  <2>2. now \in DriveFile BY <2>1 DEF DriveFile
  <2>3. drive_files' = [drive_files EXCEPT ![f] = now] BY <1>1, <1>7, <2>1
  <2>4. Fits BY <1>6, <1>7, <2>2, <2>3
  <2> QED BY <2>4, StillFits DEF Meanwhile
<1>8. CASE /\ touches < Latest /\ touches' = touches + 1
           /\ drive_files' = [drive_files EXCEPT ![f].there = FALSE]
  <2>1. PICK now : now = [was EXCEPT !.there = FALSE] OBVIOUS
  <2>2. now \in DriveFile BY <2>1 DEF DriveFile
  <2>3. drive_files' = [drive_files EXCEPT ![f] = now] BY <1>1, <1>8, <2>1
  <2>4. Fits BY <1>6, <1>8, <2>2, <2>3
  <2> QED BY <2>4, StillFits DEF Meanwhile
<1> QED BY <1>4, <1>5, <1>7, <1>8 DEF Meanwhile

-----------------------------------------------------------------------------
(* A page of a search. *)

LEMMA TouchesAreNumbers ==
  ASSUME DriveShape
  PROVE  \A f \in Files : drive_files[f].touched \in Nat
  BY LatestIsLast DEF DriveShape, DriveFile

\* Some files in order: each of them, and each once.
LEMMA OrderedIsAll ==
  ASSUME DriveShape, NEW S \in SUBSET Files, NEW s \in InOrder(S)
  PROVE  /\ IsFiniteSet(S) /\ Cardinality(S) \in Nat
         /\ s \in Seq(Files) /\ Len(s) = Cardinality(S) /\ DOMAIN s = 1 .. Cardinality(S)
         /\ \A i \in DOMAIN s : s[i] \in S
         /\ \A f \in S : \E i \in DOMAIN s : s[i] = f
         /\ \A i, j \in DOMAIN s : i < j => Before(s[i], s[j])
<1>1. IsFiniteSet(S) /\ Cardinality(S) \in Nat
  BY FilesAssumption, FS_Subset, FS_CardinalityType
<1>2. PICK n \in Nat : n = Cardinality(S) BY <1>1
<1>3. s \in [1 .. n -> S] /\ \A i, j \in DOMAIN s : i < j => Before(s[i], s[j])
  BY <1>2 DEF InOrder
<1>4. s \in Seq(Files) /\ Len(s) = n /\ DOMAIN s = 1 .. n BY <1>3
<1>5. \A f \in Files : ~Before(f, f) BY TouchesAreNumbers DEF Before
<1>6. \A i, j \in 1 .. n : s[i] = s[j] => i = j
  <2> SUFFICES ASSUME NEW i \in 1 .. n, NEW j \in 1 .. n, s[i] = s[j], i # j PROVE FALSE OBVIOUS
  <2>1. s[i] \in Files BY <1>3
  <2>2. i < j \/ j < i OBVIOUS
  <2> QED BY <2>1, <2>2, <1>3, <1>4, <1>5
<1>7. s \in Injection(1 .. n, S) BY <1>3, <1>6 DEF Injection, IsInjective
<1>8. IsFiniteSet(1 .. n) /\ Cardinality(1 .. n) = n BY FS_Interval
<1>9. s \in Surjection(1 .. n, S) BY <1>1, <1>2, <1>7, <1>8, FS_Injection
<1>10. \A f \in S : \E i \in 1 .. n : s[i] = f BY <1>9 DEF Surjection
<1> QED BY <1>1, <1>2, <1>3, <1>4, <1>10

\* What is found after a page: each was found before, or is of the page.
FoundOrKept(found, kept, page) ==
  \A i \in DOMAIN found :
    \/ i \in DOMAIN sweep.found /\ found[i] = sweep.found[i]
    \/ /\ i - Len(sweep.found) \in DOMAIN kept /\ found[i] = kept[i - Len(sweep.found)]
       /\ found[i] \in page

LEMMA FoundOnPage ==
  ASSUME FilesInv, sweep.at = "page", NEW page \in Nexts, NEW kept \in InOrder(page \cap Listed),
         Cardinality(page) <= sweep.limit - Len(sweep.found),
         NEW found, found = sweep.found \o kept
  PROVE  /\ found \in Seq(Files) /\ Len(found) <= sweep.limit
         /\ \A f : Contains(sweep.found, f) => Contains(found, f)
         /\ \A f \in page \cap Listed : Contains(found, f)
         /\ FoundOrKept(found, kept, page)
<1>1. PICK old \in Seq(Files) : old = sweep.found BY DEF FilesInv, SweepShape
<1>2. PICK m \in Nat : m = Len(old) BY <1>1
<1>3. page \in SUBSET Files BY DEF Nexts, Left
<1>4. PICK S \in SUBSET Files : S = page \cap Listed BY <1>3
<1>5. PICK n \in Nat : n = Cardinality(S) BY <1>4, OrderedIsAll DEF FilesInv
<1>6. /\ kept \in Seq(Files) /\ Len(kept) = n /\ DOMAIN kept = 1 .. n
      /\ \A i \in DOMAIN kept : kept[i] \in S
      /\ \A f \in S : \E i \in DOMAIN kept : kept[i] = f
  BY <1>4, <1>5, OrderedIsAll DEF FilesInv
<1>7. found = old \o kept BY <1>1
<1>8. found \in Seq(Files) /\ Len(found) = m + n
  <2>1. /\ old \o kept \in Seq(Files)
        /\ Len(old \o kept) = Len(old) + Len(kept)
    BY <1>1, <1>6, ConcatProperties
  <2> QED BY <2>1, <1>2, <1>6, <1>7
<1>9. n <= Cardinality(page) /\ Cardinality(page) \in Nat
  <2>1. IsFiniteSet(page) BY <1>3, FilesAssumption, FS_Subset
  <2> QED BY <2>1, <1>4, <1>5, FS_Subset, FS_CardinalityType
<1>10. Len(found) <= sweep.limit
  <2>1. PICK l \in Nat, k \in Nat : l = sweep.limit /\ k = Cardinality(page)
    BY <1>9 DEF FilesInv, SweepShape
  <2>2. k <= l - m /\ n <= k BY <2>1, <1>1, <1>2, <1>9
  <2>3. m + n <= l BY <2>2
  <2> QED BY <2>1, <2>3, <1>8
<1>11. \A i \in 1 .. m : found[i] = old[i] BY <1>1, <1>2, <1>6, <1>7
<1>12. \A i \in 1 .. n : found[m + i] = kept[i] /\ m + i \in 1 .. m + n
  <2> SUFFICES ASSUME NEW i \in 1 .. n PROVE found[m + i] = kept[i] /\ m + i \in 1 .. m + n OBVIOUS
  <2>1. m + i \in 1 .. m + n /\ ~(m + i <= m) /\ (m + i) - m = i OBVIOUS
  <2> QED BY <2>1, <1>1, <1>2, <1>6, <1>7
<1>13. \A f : Contains(old, f) => Contains(found, f)
  <2> SUFFICES ASSUME NEW f, NEW i \in 1 .. m, old[i] = f PROVE Contains(found, f)
    BY <1>2 DEF Contains
  <2>1. i \in 1 .. m + n OBVIOUS
  <2>2. found[i] = f BY <1>11
  <2> QED BY <2>1, <2>2, <1>8 DEF Contains
<1>14. \A f \in S : Contains(found, f)
  <2> SUFFICES ASSUME NEW f \in S PROVE Contains(found, f) OBVIOUS
  <2>1. PICK i \in 1 .. n : kept[i] = f BY <1>6
  <2>2. found[m + i] = f /\ m + i \in 1 .. Len(found) BY <2>1, <1>8, <1>12
  <2> QED BY <2>2 DEF Contains
<1>15. ASSUME NEW i \in 1 .. m + n
       PROVE  \/ i \in 1 .. m /\ found[i] = old[i]
              \/ i - m \in 1 .. n /\ found[i] = kept[i - m]
  <2>1. CASE i <= m
    <3>1. i \in 1 .. m BY <2>1
    <3> QED BY <3>1, <1>11
  <2>2. CASE ~(i <= m)
    <3>1. i - m \in 1 .. n /\ m + (i - m) = i BY <2>2
    <3> QED BY <3>1, <1>12
  <2> QED BY <2>1, <2>2
<1>16. DOMAIN found = 1 .. m + n /\ DOMAIN old = 1 .. m BY <1>1, <1>2, <1>8
<1>17. FoundOrKept(found, kept, page)
  BY <1>1, <1>2, <1>4, <1>6, <1>15, <1>16 DEF FoundOrKept
<1> QED BY <1>1, <1>4, <1>8, <1>10, <1>13, <1>14, <1>17

\* Nothing of a page is out of order, with what was found before or by itself.
LEMMA PageFalls ==
  ASSUME FilesInv, sweep.at = "page", sweep.op = "search", sweep.order = "desc",
         NEW page \in Nexts, NEW kept \in InOrder(page \cap Listed),
         Cardinality(page) <= sweep.limit - Len(sweep.found),
         NEW found, found = sweep.found \o kept,
         NEW i \in DOMAIN found, NEW j \in DOMAIN found, i < j,
         {found[i], found[j]} \subseteq sweep.steady
  PROVE  drive_files[found[i]].touched > drive_files[found[j]].touched
<1>1. /\ sweep.cursor \in Int /\ Falling /\ NoneBelow BY DEF FilesInv, SearchFits
<1>2. PICK m \in Nat : m = Len(sweep.found) /\ DOMAIN sweep.found = 1 .. m
  BY DEF FilesInv, SweepShape
<1>3. found \in Seq(Files) BY FoundOnPage
<1>4. found[i] \in Files /\ found[j] \in Files /\ i \in Int /\ j \in Int BY <1>3
<1>5. drive_files[found[i]].touched \in Int /\ drive_files[found[j]].touched \in Int
  BY <1>4, TouchesAreNumbers DEF FilesInv
<1>13. \A k \in DOMAIN found :
         \/ k \in DOMAIN sweep.found /\ found[k] = sweep.found[k]
         \/ /\ k - Len(sweep.found) \in DOMAIN kept /\ found[k] = kept[k - Len(sweep.found)]
            /\ found[k] \in page
  <2>1. FoundOrKept(found, kept, page) BY FoundOnPage
  <2> QED BY <2>1 DEF FoundOrKept
<1>6. \/ i \in 1 .. m /\ found[i] = sweep.found[i]
      \/ i - m \in DOMAIN kept /\ found[i] = kept[i - m] /\ found[i] \in page
  BY <1>2, <1>13
<1>7. \/ j \in 1 .. m /\ found[j] = sweep.found[j]
      \/ j - m \in DOMAIN kept /\ found[j] = kept[j - m] /\ found[j] \in page
  BY <1>2, <1>13
<1>8. DOMAIN kept \subseteq Nat \ {0}
  <2>1. page \cap Listed \in SUBSET Files BY DEF Nexts, Left
  <2> QED BY <2>1, OrderedIsAll DEF FilesInv
<1>9. \A k, l \in DOMAIN kept : k < l => Before(kept[k], kept[l])
  BY DEF InOrder
<1>10. CASE i \in 1 .. m /\ j \in 1 .. m
  BY <1>1, <1>2, <1>6, <1>7, <1>8, <1>10 DEF Falling
<1>11. CASE i \in 1 .. m /\ j \notin 1 .. m
  <2>1. i - m \notin DOMAIN kept BY <1>8, <1>11
  <2>2. drive_files[found[i]].touched >= sweep.cursor BY <1>1, <1>2, <1>6, <1>11, <2>1 DEF NoneBelow
  <2>3. found[j] \in page BY <1>7, <1>11
  <2>4. drive_files[found[j]].touched < sweep.cursor BY <2>3 DEF Nexts, Left, Past
  <2>5. PICK a \in Int, b \in Int, c \in Int :
          /\ a = drive_files[found[i]].touched /\ b = drive_files[found[j]].touched
          /\ c = sweep.cursor
    BY <1>1, <1>5
  <2>6. a >= c /\ b < c BY <2>2, <2>4, <2>5
  <2>7. a > b BY <2>6
  <2> QED BY <2>5, <2>7
<1>12. CASE i \notin 1 .. m
  <2>1. i - m \in DOMAIN kept /\ found[i] = kept[i - m] BY <1>6, <1>12
  <2>2. j \notin 1 .. m /\ i - m < j - m BY <1>4, <1>8, <1>12, <2>1
  <2>3. j - m \in DOMAIN kept /\ found[j] = kept[j - m] BY <1>7, <2>2
  <2>4. Before(found[i], found[j]) BY <1>9, <2>1, <2>2, <2>3
  <2> QED BY <2>4 DEF Before
<1> QED BY <1>10, <1>11, <1>12

\* What a page leaves as it is.
PageLeaves ==
  /\ sweep'.op = sweep.op /\ sweep'.asked = sweep.asked /\ sweep'.mentions = sweep.mentions
  /\ sweep'.limit = sweep.limit /\ sweep'.order = sweep.order /\ sweep'.steady = sweep.steady
  /\ sweep'.ids = sweep.ids /\ sweep'.next = sweep.next /\ sweep'.unreachable = sweep.unreachable
  /\ sweep'.subject = sweep.subject /\ sweep'.comments = sweep.comments
  /\ sweep'.rows = sweep.rows /\ sweep'.caveats = sweep.caveats /\ sweep'.parents = sweep.parents
  /\ DOMAIN sweep' = SweepFields

\* The last page: a search that is short of its limit has come past every file.
LEMMA LastPageKeeps ==
  ASSUME FilesInv, sweep.at = "page", NEW page \in Nexts, NEW kept \in InOrder(page \cap Listed),
         Cardinality(page) <= sweep.limit - Len(sweep.found), UNCHANGED <<drive_files, touches, moves>>,
         NEW found, found = sweep.found \o kept, page = Left \/ Len(found) >= sweep.limit,
         PageLeaves, sweep'.found = found,
         sweep'.at = IF sweep.op = "search" THEN "answered" ELSE "read"
  PROVE  FilesInv'
<1>1. DriveShape' BY DEF FilesInv, DriveShape
<1>2. /\ found \in Seq(Files) /\ Len(found) <= sweep.limit
      /\ \A f : Contains(sweep.found, f) => Contains(found, f)
      /\ \A f \in page \cap Listed : Contains(found, f)
  BY FoundOnPage
<1>3. /\ sweep.op \in {"search", "inventory of query"} /\ sweep.limit \in Nat /\ sweep.rows = <<>>
      /\ sweep.parents = NotAsked \/ (sweep.op \in AsksForParents /\ sweep.parents \subseteq Folders)
      /\ sweep.next \in Nat \ {0}
  BY DEF FilesInv, SweepShape
<1>4. sweep'.at # "page" /\ sweep'.at # "get" /\ (sweep'.at = "read" => sweep.op = "inventory of query")
  BY <1>3
<1>5. SweepShape' BY <1>2, <1>3, <1>4 DEF SweepShape, PageLeaves
<1>6. ASSUME sweep.op = "search" PROVE SearchFits'
  <2>1. sweep'.at = "answered" BY <1>6
  <2>2. /\ sweep.asked = [key |-> "recency", dir |-> "bare"] => sweep.order = "desc"
        /\ ComesYet
    BY <1>6 DEF FilesInv, SearchFits
  <2>3. sweep.order = "desc" => Falling'
    <3> SUFFICES ASSUME sweep.order = "desc" PROVE Falling' OBVIOUS
    <3>1. \A i, j \in DOMAIN found : i < j /\ {found[i], found[j]} \subseteq sweep.steady =>
            drive_files[found[i]].touched > drive_files[found[j]].touched
      BY <1>6, PageFalls
    <3> QED BY <3>1 DEF Falling, PageLeaves
  <2>4. ASSUME Len(found) < sweep.limit, NEW f \in sweep.steady \cap Listed, _compose(f, sweep.mentions)
        PROVE  Contains(found, f)
    <3>1. page = Left
      <4>0. Len(found) \in Nat BY <1>2
      <4>4. sweep.limit \in Nat BY <1>3
      <4>1. PICK n \in Nat, l \in Nat : n = Len(found) /\ l = sweep.limit BY <4>0, <4>4
      <4>2. n < l BY <2>4, <4>1
      <4>3. ~(n >= l) BY <4>2
      <4> QED BY <4>1, <4>3
    <3>2. f \in Files BY FilesAssumption
    <3>3. CASE Contains(sweep.found, f) BY <3>3, <1>2
    <3>4. CASE Past(f)
      <4>1. f \in page \cap Listed BY <3>1, <3>2, <3>4, <2>4 DEF Left
      <4> QED BY <4>1, <1>2
    <3> QED BY <2>2, <2>4, <3>3, <3>4 DEF ComesYet
  <2>5. \A f : _compose(f, sweep.mentions)' <=> _compose(f, sweep.mentions)
    BY DEF _compose, PageLeaves
  <2>6. \A f : Contains(found, f) => Contains(sweep.found, f)' BY DEF Contains
  <2>7. SearchIsComplete' BY <1>2, <2>4, <2>5, <2>6 DEF SearchIsComplete, PageLeaves
  <2> QED BY <2>1, <2>2, <2>3, <2>7 DEF SearchFits, PageLeaves
<1>7. SearchFits' BY <1>6 DEF SearchFits, PageLeaves
<1>8. InventoryFits' BY <1>3 DEF InventoryFits, PageLeaves
<1>10. DOMAIN sweep'.rows = {}
  <2>1. sweep'.rows = <<>> BY <1>3 DEF PageLeaves
  <2>2. DOMAIN <<>> = {} OBVIOUS
  <2> QED BY <2>1, <2>2
<1>11. NamesakesAreFlagged' BY <1>10 DEF NamesakesAreFlagged
<1>9. SubjectFits' BY <1>11 DEF FilesInv, SubjectFits, PageLeaves
<1> QED BY <1>1, <1>5, <1>7, <1>8, <1>9 DEF FilesInv

\* Another page is to come, of what is past the last file of this one.
LEMMA NextPageKeeps ==
  ASSUME FilesInv, sweep.at = "page", NEW page \in Nexts, NEW kept \in InOrder(page \cap Listed),
         Cardinality(page) <= sweep.limit - Len(sweep.found), UNCHANGED <<drive_files, touches, moves>>,
         NEW found, found = sweep.found \o kept, ~(Len(found) >= sweep.limit),
         NEW last \in page, \A f \in page \ {last} : Before(f, last),
         PageLeaves, sweep'.found = found, sweep'.at = "page",
         sweep'.cursor = drive_files[last].touched
  PROVE  FilesInv'
<1>1. DriveShape' BY DEF FilesInv, DriveShape
<1>2. /\ found \in Seq(Files) /\ FoundOrKept(found, kept, page)
      /\ \A f : Contains(sweep.found, f) => Contains(found, f)
      /\ \A f \in page \cap Listed : Contains(found, f)
  BY FoundOnPage
<1>3. /\ sweep.op \in {"search", "inventory of query"} /\ sweep.limit \in Nat /\ sweep.rows = <<>>
      /\ sweep.parents = NotAsked \/ (sweep.op \in AsksForParents /\ sweep.parents \subseteq Folders)
      /\ sweep.next \in Nat \ {0}
  BY DEF FilesInv, SweepShape
<1>4. SweepShape' BY <1>2, <1>3 DEF SweepShape, PageLeaves
<1>5. page \subseteq Left /\ Left \subseteq Files BY DEF Nexts, Left
<1>6. \A f \in Files : drive_files[f].touched \in Int BY TouchesAreNumbers DEF FilesInv
<1>7. ASSUME sweep.op = "search" PROVE SearchFits'
  <2>1. /\ sweep.asked = [key |-> "recency", dir |-> "bare"] => sweep.order = "desc"
        /\ ComesYet /\ sweep.cursor \in Int /\ (sweep.order = "desc" => NoneBelow)
    BY <1>7 DEF FilesInv, SearchFits
  <2>2. sweep.order = "desc" => Falling'
    <3> SUFFICES ASSUME sweep.order = "desc" PROVE Falling' OBVIOUS
    <3>1. \A i, j \in DOMAIN found : i < j /\ {found[i], found[j]} \subseteq sweep.steady =>
            drive_files[found[i]].touched > drive_files[found[j]].touched
      BY <1>7, PageFalls
    <3> QED BY <3>1 DEF Falling, PageLeaves
  <2>3. sweep'.cursor \in Int BY <1>5, <1>6
  <2>4. Len(found) < sweep.limit
    <3>0. Len(found) \in Nat BY <1>2
    <3>4. sweep.limit \in Nat BY <1>3
    <3>1. PICK n \in Nat, l \in Nat : n = Len(found) /\ l = sweep.limit BY <3>0, <3>4
    <3>2. ~(n >= l) BY <3>1
    <3>3. n < l BY <3>2
    <3> QED BY <3>1, <3>3
  <2>5. sweep.order = "desc" => NoneBelow'
    <3> SUFFICES ASSUME sweep.order = "desc", NEW i \in DOMAIN found, found[i] \in sweep.steady
                 PROVE  drive_files[found[i]].touched >= drive_files[last].touched
      BY DEF NoneBelow, PageLeaves
    <3>1. found[i] \in Files /\ last \in Files BY <1>2, <1>5
    <3>2. PICK a \in Int, b \in Int, c \in Int :
            a = drive_files[found[i]].touched /\ b = drive_files[last].touched /\ c = sweep.cursor
      BY <2>1, <3>1, <1>6
    <3>3. CASE i \in DOMAIN sweep.found /\ found[i] = sweep.found[i]
      <4>1. a >= c BY <3>2, <3>3, <2>1 DEF NoneBelow
      <4>2. Past(last) BY <1>5 DEF Left
      <4>3. b < c BY <4>2, <3>2 DEF Past
      <4>4. a >= b BY <4>1, <4>3
      <4> QED BY <4>4, <3>2
    <3>4. CASE found[i] \in page
      <4>1. CASE found[i] = last
        <5>1. a >= b BY <4>1, <3>2
        <5> QED BY <5>1, <3>2
      <4>2. CASE found[i] # last
        <5>1. Before(found[i], last) BY <3>4, <4>2
        <5>2. a > b BY <5>1, <3>2 DEF Before
        <5>3. a >= b BY <5>2
        <5> QED BY <5>3, <3>2
      <4> QED BY <4>1, <4>2
    <3> QED BY <1>2, <3>3, <3>4 DEF FoundOrKept
  <2>6. \A f : _compose(f, sweep.mentions)' <=> _compose(f, sweep.mentions)
    BY DEF _compose, PageLeaves
  <2>7. \A f : Contains(found, f) => Contains(sweep.found, f)' BY DEF Contains
  <2>8. ASSUME NEW f \in sweep.steady \cap Listed, _compose(f, sweep.mentions)
        PROVE  Contains(found, f) \/ Past(f)'
    <3>1. f \in Files BY FilesAssumption
    <3>2. CASE Contains(sweep.found, f) BY <3>2, <1>2
    <3>3. CASE f \in page BY <3>3, <1>2
    <3>4. CASE Past(f) /\ f \notin page
      <4>1. f \in Left \ page BY <3>1, <3>4, <2>8 DEF Left
      <4>2. Before(last, f) BY <4>1 DEF Nexts
      <4> QED BY <4>2 DEF Before, Past, PageLeaves
    <3> QED BY <2>1, <2>8, <3>2, <3>3, <3>4 DEF ComesYet
  <2>9. ComesYet' BY <2>6, <2>7, <2>8 DEF ComesYet, PageLeaves
  <2>10. SearchIsComplete' BY DEF SearchIsComplete
  <2> QED BY <1>7, <2>1, <2>2, <2>3, <2>4, <2>5, <2>9, <2>10 DEF SearchFits, PageLeaves
<1>8. SearchFits' BY <1>7 DEF SearchFits, PageLeaves
<1>9. InventoryFits' BY <1>3 DEF InventoryFits, PageLeaves
<1>10. SubjectFits' BY <1>3 DEF FilesInv, SubjectFits, NamesakesAreFlagged, PageLeaves
<1> QED BY <1>1, <1>4, <1>8, <1>9, <1>10 DEF FilesInv

\* Where nothing changes the invariant stays.
LEMMA NothingChanges ==
  ASSUME FilesInv, UNCHANGED fileVars
  PROVE  FilesInv'
BY DEF fileVars, FilesInv, DriveShape, SweepShape, SearchFits, Falling, NoneBelow, ComesYet, Past,
       _compose, SearchIsComplete, InventoryFits, AccountedTo, Accounted, EveryIdIsAccountedFor,
       SubjectFits, NamesakesAreFlagged

LEMMA PageKeeps ==
  ASSUME FilesInv, NEW page \in Nexts, NEW kept \in InOrder(page \cap Listed), _page(page, kept)
  PROVE  FilesInv'
<1>1. PICK found : found = sweep.found \o kept OBVIOUS
<1>2. /\ sweep.at = "page" /\ UNCHANGED <<drive_files, touches, moves>>
      /\ Cardinality(page) <= sweep.limit - Len(sweep.found) /\ DOMAIN sweep = SweepFields
  BY DEF _page, FilesInv, SweepShape
<1>3. CASE page = Left \/ Len(found) >= sweep.limit
  <2>1. PICK fields : fields = [at |-> IF sweep.op = "search" THEN "answered" ELSE "read", found |-> found]
    OBVIOUS
  <2>2. Continues(fields) BY <1>1, <1>3, <2>1 DEF _page, ends_at
  <2>3. DOMAIN fields = {"at", "found"} /\ fields.found = found
        /\ fields.at = IF sweep.op = "search" THEN "answered" ELSE "read"
    BY <2>1
  <2>4. /\ DOMAIN sweep' = SweepFields
        /\ \A x \in SweepFields : sweep'[x] = IF x \in DOMAIN fields THEN fields[x] ELSE sweep[x]
    BY <1>2, <2>2, Continued
  <2>5. PageLeaves BY <2>3, <2>4 DEF PageLeaves, SweepFields
  <2>6. sweep'.found = found /\ sweep'.at = IF sweep.op = "search" THEN "answered" ELSE "read"
    BY <2>3, <2>4 DEF SweepFields
  <2> QED BY <1>1, <1>2, <1>3, <2>5, <2>6, LastPageKeeps
<1>5. CASE page = {} /\ UNCHANGED sweep
  <2>1. UNCHANGED fileVars BY <1>2, <1>5 DEF fileVars
  <2> QED BY <2>1, NothingChanges
<1>4. CASE /\ ~(page = Left \/ Len(found) >= sweep.limit)
           /\ ~(page = {} /\ UNCHANGED sweep)
  <2>1. PICK last \in page :
          /\ \A f \in page \ {last} : Before(f, last)
          /\ Continues([found |-> found, cursor |-> drive_files[last].touched])
    BY <1>1, <1>4 DEF _page, ends_at
  <2>2. PICK fields : fields = [found |-> found, cursor |-> drive_files[last].touched] OBVIOUS
  <2>3. DOMAIN fields = {"found", "cursor"} /\ fields.found = found
        /\ fields.cursor = drive_files[last].touched
    BY <2>2
  <2>4. /\ DOMAIN sweep' = SweepFields
        /\ \A x \in SweepFields : sweep'[x] = IF x \in DOMAIN fields THEN fields[x] ELSE sweep[x]
    BY <1>2, <2>1, <2>2, Continued
  <2>5. PageLeaves BY <2>3, <2>4 DEF PageLeaves, SweepFields
  <2>6. sweep'.found = found /\ sweep'.at = "page" /\ sweep'.cursor = drive_files[last].touched
    BY <1>2, <2>3, <2>4 DEF SweepFields
  <2> QED BY <1>1, <1>2, <1>4, <2>1, <2>5, <2>6, NextPageKeeps
<1> QED BY <1>3, <1>4, <1>5

-----------------------------------------------------------------------------
(* The inventory. *)

\* What a step of an inventory leaves as it is.
SweepLeaves ==
  /\ DOMAIN sweep' = SweepFields /\ sweep'.op = sweep.op /\ sweep'.ids = sweep.ids
  /\ sweep'.limit = sweep.limit /\ sweep'.parents = sweep.parents /\ sweep'.subject = sweep.subject

LEMMA InventoryStepLeaves ==
  ASSUME FilesInv, NEW fields, Continues(fields),
         DOMAIN fields \cap {"op", "ids", "limit", "parents", "subject"} = {}
  PROVE  /\ SweepLeaves
         /\ \A x \in SweepFields : sweep'[x] = IF x \in DOMAIN fields THEN fields[x] ELSE sweep[x]
<1>1. /\ DOMAIN sweep' = SweepFields
      /\ \A x \in SweepFields : sweep'[x] = IF x \in DOMAIN fields THEN fields[x] ELSE sweep[x]
  BY Continued DEF FilesInv, SweepShape
<1> QED BY <1>1 DEF SweepLeaves, SweepFields

LEMMA ReachedKeeps ==
  ASSUME FilesInv, sweep.at = "get", sweep.next <= Len(sweep.ids), UNCHANGED <<drive_files, touches, moves>>,
         Continues([next |-> sweep.next + 1, found |-> Append(sweep.found, sweep.ids[sweep.next])])
  PROVE  FilesInv'
<1>1. /\ sweep.op = "inventory" /\ sweep.rows = <<>> /\ sweep.limit \in Nat
      /\ sweep.parents = NotAsked \/ (sweep.op \in AsksForParents /\ sweep.parents \subseteq Folders)
  BY DEF FilesInv, SweepShape
<1>2. AccountedTo(sweep.next - 1) /\ sweep.unreachable \in Seq(Unreached)
  BY <1>1 DEF FilesInv, InventoryFits
<1>3. PICK ids \in Seq(Files), old \in Seq(Files) : ids = sweep.ids /\ old = sweep.found
  BY <1>1 DEF FilesInv, InventoryFits, SweepShape
<1>4. PICK k \in Nat \ {0} : k = sweep.next BY DEF FilesInv, SweepShape
<1>5. k \in 1 .. Len(ids) /\ ids[k] \in Files BY <1>3, <1>4
<1>6. PICK found : found = Append(old, ids[k]) OBVIOUS
<1>7. /\ found \in Seq(Files) /\ Len(found) = Len(old) + 1 /\ found[Len(found)] = ids[k]
      /\ \A j \in DOMAIN old : j \in DOMAIN found /\ found[j] = old[j]
      /\ Len(found) \in DOMAIN found /\ Len(old) \in Nat
  BY <1>3, <1>5, <1>6
<1>8. PICK fields : fields = [next |-> k + 1, found |-> found] OBVIOUS
<1>9. Continues(fields) BY <1>3, <1>4, <1>6, <1>8
<1>10. DOMAIN fields = {"next", "found"} /\ fields.next = k + 1 /\ fields.found = found BY <1>8
<1>11. /\ SweepLeaves
       /\ \A x \in SweepFields : sweep'[x] = IF x \in DOMAIN fields THEN fields[x] ELSE sweep[x]
  BY <1>9, <1>10, InventoryStepLeaves
<1>12. /\ sweep'.next = k + 1 /\ sweep'.found = found /\ sweep'.at = "get" /\ sweep'.rows = <<>>
       /\ sweep'.unreachable = sweep.unreachable /\ sweep'.comments = sweep.comments
  BY <1>1, <1>10, <1>11 DEF SweepFields
<1>13. SweepShape' BY <1>1, <1>7, <1>11, <1>12 DEF SweepShape, SweepLeaves
<1>14. Len(sweep'.found) + Len(sweep'.unreachable) = k
  <2>1. PICK a \in Nat, b \in Nat : a = Len(old) /\ b = Len(sweep.unreachable) BY <1>2, <1>7
  <2>2. a + b = k - 1 BY <2>1, <1>2, <1>3, <1>4 DEF AccountedTo
  <2>3. (a + 1) + b = k BY <2>2
  <2> QED BY <2>1, <2>3, <1>7, <1>12
<1>15. \A id : Accounted(id) => Accounted(id)' BY <1>3, <1>7, <1>12 DEF Accounted
<1>16. Accounted(ids[k])' BY <1>7, <1>12 DEF Accounted
<1>17. \A i \in 1 .. k : Accounted(ids[i])'
  <2> SUFFICES ASSUME NEW i \in 1 .. k PROVE Accounted(ids[i])' OBVIOUS
  <2>1. CASE i = k BY <2>1, <1>16
  <2>2. CASE i # k
    <3>1. i \in 1 .. k - 1 BY <2>2
    <3> QED BY <3>1, <1>2, <1>3, <1>4, <1>15 DEF AccountedTo
  <2> QED BY <2>1, <2>2
<1>18. AccountedTo(k)' BY <1>3, <1>11, <1>14, <1>17 DEF AccountedTo, SweepLeaves
<1>19. InventoryFits'
  <2>1. sweep'.next \in 1 .. Len(sweep'.ids) + 1 /\ sweep'.next - 1 = k
    <3>1. k + 1 \in 1 .. Len(ids) + 1 /\ (k + 1) - 1 = k
      <4>1. PICK n \in Nat : n = Len(ids) BY <1>3
      <4>2. k \in 1 .. n BY <4>1, <1>5
      <4>3. k + 1 \in 1 .. n + 1 BY <4>2
      <4> QED BY <4>1, <4>3
    <3> QED BY <3>1, <1>3, <1>11, <1>12 DEF SweepLeaves
  <2> QED BY <2>1, <1>2, <1>3, <1>11, <1>12, <1>18
          DEF InventoryFits, EveryIdIsAccountedFor, SweepLeaves
<1>20. SearchFits' BY <1>1, <1>11 DEF SearchFits, SweepLeaves
<1>21. SubjectFits' BY <1>11, <1>12 DEF FilesInv, SubjectFits, NamesakesAreFlagged, SweepLeaves
<1> QED BY <1>13, <1>19, <1>20, <1>21 DEF FilesInv, DriveShape

LEMMA UnreachableKeeps ==
  ASSUME FilesInv, sweep.at = "get", sweep.next <= Len(sweep.ids), UNCHANGED <<drive_files, touches, moves>>,
         NEW reason \in {"not_found", "no_access", "failed"},
         Continues([next |-> sweep.next + 1,
                    unreachable |-> sweep.unreachable \o reported(sweep.ids[sweep.next], reason)])
  PROVE  FilesInv'
<1>1. /\ sweep.op = "inventory" /\ sweep.rows = <<>> /\ sweep.limit \in Nat
      /\ sweep.parents = NotAsked \/ (sweep.op \in AsksForParents /\ sweep.parents \subseteq Folders)
      /\ sweep.found \in Seq(Files)
  BY DEF FilesInv, SweepShape
<1>2. AccountedTo(sweep.next - 1) BY <1>1 DEF FilesInv, InventoryFits
<1>3. PICK ids \in Seq(Files), old \in Seq(Unreached) : ids = sweep.ids /\ old = sweep.unreachable
  BY <1>1 DEF FilesInv, InventoryFits
<1>4. PICK k \in Nat \ {0} : k = sweep.next BY DEF FilesInv, SweepShape
<1>5. k \in 1 .. Len(ids) /\ ids[k] \in Files BY <1>3, <1>4
<1>6. PICK one : one = [id |-> ids[k], reason |-> reason] OBVIOUS
<1>7. one \in Unreached /\ one.id = ids[k] BY <1>5, <1>6 DEF Unreached
<1>8. PICK now : now = old \o <<one>> OBVIOUS
<1>9. /\ now \in Seq(Unreached) /\ Len(now) = Len(old) + 1 /\ now[Len(now)] = one
      /\ \A j \in DOMAIN old : j \in DOMAIN now /\ now[j] = old[j]
      /\ Len(now) \in DOMAIN now /\ Len(old) \in Nat
  <2>1. now = Append(old, one) BY <1>7, <1>8
  <2> QED BY <2>1, <1>7
<1>10. PICK fields : fields = [next |-> k + 1, unreachable |-> now] OBVIOUS
<1>11. Continues(fields) BY <1>3, <1>4, <1>6, <1>8, <1>10 DEF reported
<1>12. DOMAIN fields = {"next", "unreachable"} /\ fields.next = k + 1 /\ fields.unreachable = now
  BY <1>10
<1>13. /\ SweepLeaves
       /\ \A x \in SweepFields : sweep'[x] = IF x \in DOMAIN fields THEN fields[x] ELSE sweep[x]
  BY <1>11, <1>12, InventoryStepLeaves
<1>14. /\ sweep'.next = k + 1 /\ sweep'.unreachable = now /\ sweep'.at = "get" /\ sweep'.rows = <<>>
       /\ sweep'.found = sweep.found /\ sweep'.comments = sweep.comments
  BY <1>1, <1>12, <1>13 DEF SweepFields
<1>15. SweepShape' BY <1>1, <1>13, <1>14 DEF SweepShape, SweepLeaves
<1>16. Len(sweep'.found) + Len(sweep'.unreachable) = k
  <2>0. Len(sweep.found) \in Nat BY <1>1
  <2>1. PICK a \in Nat, b \in Nat : a = Len(sweep.found) /\ b = Len(old) BY <2>0, <1>9
  <2>2. a + b = k - 1 BY <2>1, <1>2, <1>3, <1>4 DEF AccountedTo
  <2>3. a + (b + 1) = k BY <2>2
  <2> QED BY <2>1, <2>3, <1>9, <1>14
<1>17. \A id : Accounted(id) => Accounted(id)' BY <1>3, <1>9, <1>14 DEF Accounted
<1>18. Accounted(ids[k])' BY <1>7, <1>9, <1>14 DEF Accounted
<1>19. \A i \in 1 .. k : Accounted(ids[i])'
  <2> SUFFICES ASSUME NEW i \in 1 .. k PROVE Accounted(ids[i])' OBVIOUS
  <2>1. CASE i = k BY <2>1, <1>18
  <2>2. CASE i # k
    <3>1. i \in 1 .. k - 1 BY <2>2
    <3> QED BY <3>1, <1>2, <1>3, <1>4, <1>17 DEF AccountedTo
  <2> QED BY <2>1, <2>2
<1>20. AccountedTo(k)' BY <1>3, <1>13, <1>16, <1>19 DEF AccountedTo, SweepLeaves
<1>21. InventoryFits'
  <2>1. sweep'.next \in 1 .. Len(sweep'.ids) + 1 /\ sweep'.next - 1 = k
    <3>1. k + 1 \in 1 .. Len(ids) + 1 /\ (k + 1) - 1 = k
      <4>1. PICK n \in Nat : n = Len(ids) BY <1>3
      <4>2. k \in 1 .. n BY <4>1, <1>5
      <4>3. k + 1 \in 1 .. n + 1 BY <4>2
      <4> QED BY <4>1, <4>3
    <3> QED BY <3>1, <1>3, <1>13, <1>14 DEF SweepLeaves
  <2> QED BY <2>1, <1>3, <1>9, <1>13, <1>14, <1>20
          DEF InventoryFits, EveryIdIsAccountedFor, SweepLeaves
<1>22. SearchFits' BY <1>1, <1>13 DEF SearchFits, SweepLeaves
<1>23. SubjectFits' BY <1>13, <1>14 DEF FilesInv, SubjectFits, NamesakesAreFlagged, SweepLeaves
<1> QED BY <1>15, <1>21, <1>22, <1>23 DEF FilesInv, DriveShape

LEMMA GetNextKeeps ==
  ASSUME FilesInv, NEW outcome \in {"ok", "404", "403", "5xx", "other"}, GetNext(outcome)
  PROVE  FilesInv'
<1>1. sweep.at = "get" /\ sweep.next <= Len(sweep.ids) /\ UNCHANGED <<drive_files, touches, moves>>
  BY DEF GetNext
<1>2. CASE outcome = "other" BY <1>1, <1>2, CaughtFits DEF GetNext
<1>3. CASE outcome = "ok" BY <1>1, <1>3, ReachedKeeps DEF GetNext
<1>4. CASE outcome \notin {"other", "ok"}
  <2>1. PICK reason \in {"not_found", "no_access", "failed"} :
          Continues([next |-> sweep.next + 1,
                     unreachable |-> sweep.unreachable \o reported(sweep.ids[sweep.next], reason)])
    BY <1>4 DEF GetNext
  <2> QED BY <1>1, <2>1, UnreachableKeeps
<1> QED BY <1>2, <1>3, <1>4

LEMMA GotAllKeeps ==
  ASSUME FilesInv, GotAll
  PROVE  FilesInv'
<1>1. /\ sweep.op = "inventory" /\ sweep.rows = <<>> /\ sweep.limit \in Nat
      /\ sweep.parents = NotAsked \/ (sweep.op \in AsksForParents /\ sweep.parents \subseteq Folders)
      /\ sweep.found \in Seq(Files)
  BY DEF FilesInv, SweepShape, GotAll
<1>2. /\ AccountedTo(sweep.next - 1) /\ sweep.next \in 1 .. Len(sweep.ids) + 1
      /\ sweep.ids \in Seq(Files) /\ sweep.unreachable \in Seq(Unreached)
  BY <1>1 DEF FilesInv, InventoryFits, GotAll
<1>3. sweep.next - 1 = Len(sweep.ids)
  <2>1. PICK n \in Nat, k \in Nat : n = Len(sweep.ids) /\ k = sweep.next
    <3>1. Len(sweep.ids) \in Nat BY <1>2
    <3>2. sweep.next \in Nat BY DEF FilesInv, SweepShape
    <3> QED BY <3>1, <3>2
  <2>2. k \in 1 .. n + 1 /\ k > n BY <2>1, <1>2 DEF GotAll
  <2>3. k - 1 = n BY <2>2
  <2> QED BY <2>1, <2>3
<1>4. AccountedTo(Len(sweep.ids)) BY <1>2, <1>3
<1>5. PICK fields : fields = [at |-> "read", next |-> 1] OBVIOUS
<1>6. Continues(fields) BY <1>5 DEF GotAll
<1>7. DOMAIN fields = {"at", "next"} /\ fields.at = "read" /\ fields.next = 1 BY <1>5
<1>8. /\ SweepLeaves
      /\ \A x \in SweepFields : sweep'[x] = IF x \in DOMAIN fields THEN fields[x] ELSE sweep[x]
  BY <1>6, <1>7, InventoryStepLeaves
<1>9. /\ sweep'.next = 1 /\ sweep'.at = "read" /\ sweep'.found = sweep.found /\ sweep'.rows = <<>>
      /\ sweep'.unreachable = sweep.unreachable /\ sweep'.comments = sweep.comments
  BY <1>1, <1>7, <1>8 DEF SweepFields
<1>10. 1 \in Nat \ {0} OBVIOUS
<1>11. SweepShape' BY <1>1, <1>8, <1>9, <1>10 DEF SweepShape, SweepLeaves
<1>12. AccountedTo(Len(sweep.ids))' BY <1>4, <1>8, <1>9 DEF AccountedTo, Accounted, SweepLeaves
<1>13. InventoryFits'
  BY <1>2, <1>8, <1>9, <1>12 DEF InventoryFits, EveryIdIsAccountedFor, SweepLeaves
<1>14. SearchFits' BY <1>1, <1>8 DEF SearchFits, SweepLeaves
<1>15. SubjectFits' BY <1>8, <1>9 DEF FilesInv, SubjectFits, NamesakesAreFlagged, SweepLeaves
<1> QED BY <1>11, <1>13, <1>14, <1>15 DEF FilesInv, DriveShape, GotAll

LEMMA ReadNextKeeps ==
  ASSUME FilesInv, NEW outcome \in {"ok", "404", "403", "5xx", "other"}, ReadNext(outcome)
  PROVE  FilesInv'
<1>1. /\ sweep.at = "read" /\ sweep.subject # NoSubject /\ sweep.next <= Len(sweep.found)
      /\ UNCHANGED <<drive_files, touches, moves>>
  BY DEF ReadNext
<1>2. CASE outcome = "other" BY <1>1, <1>2, CaughtFits DEF ReadNext
<1>3. CASE outcome # "other"
  <2>1. /\ sweep.op \in {"inventory", "inventory of query"} /\ sweep.rows = <<>> /\ sweep.limit \in Nat
        /\ sweep.parents = NotAsked \/ (sweep.op \in AsksForParents /\ sweep.parents \subseteq Folders)
        /\ sweep.found \in Seq(Files)
    BY <1>1 DEF FilesInv, SweepShape
  <2>2. PICK k \in Nat \ {0} : k = sweep.next BY DEF FilesInv, SweepShape
  <2>3. PICK f : f = sweep.found[sweep.next] OBVIOUS
  <2>4. f \in Files
    <3>1. PICK old \in Seq(Files) : old = sweep.found BY <2>1
    <3>2. k \in 1 .. Len(old) BY <1>1, <2>2, <3>1
    <3>3. old[k] \in Files BY <3>1, <3>2
    <3> QED BY <2>2, <2>3, <3>1, <3>3
  <2>5. PICK comments :
          comments = IF outcome # "ok" THEN sweep.comments
                     ELSE [x \in DOMAIN sweep.comments \cup {f} |->
                             IF x = f THEN drive_files[f].commented ELSE sweep.comments[x]]
    OBVIOUS
  <2>6. \A g \in DOMAIN comments : comments[g] \subseteq People
    <3>1. drive_files[f].commented \subseteq People BY <2>4 DEF FilesInv, DriveShape, DriveFile
    <3> QED BY <2>5, <3>1 DEF FilesInv, SubjectFits
  <2>7. PICK fields : fields = [next |-> k + 1, comments |-> comments] OBVIOUS
  <2>8. Continues(fields) BY <1>3, <2>2, <2>3, <2>5, <2>7 DEF ReadNext
  <2>9. DOMAIN fields = {"next", "comments"} /\ fields.next = k + 1 /\ fields.comments = comments
    BY <2>7
  <2>10. /\ SweepLeaves
         /\ \A x \in SweepFields : sweep'[x] = IF x \in DOMAIN fields THEN fields[x] ELSE sweep[x]
    BY <2>8, <2>9, InventoryStepLeaves
  <2>11. /\ sweep'.next = k + 1 /\ sweep'.at = "read" /\ sweep'.found = sweep.found
         /\ sweep'.rows = <<>> /\ sweep'.unreachable = sweep.unreachable /\ sweep'.comments = comments
    BY <1>1, <2>1, <2>9, <2>10 DEF SweepFields
  <2>12. k + 1 \in Nat \ {0} OBVIOUS
  <2>13. SweepShape' BY <2>1, <2>10, <2>11, <2>12 DEF SweepShape, SweepLeaves
  <2>14. \A n : AccountedTo(n) => AccountedTo(n)'
    BY <2>10, <2>11 DEF AccountedTo, Accounted, SweepLeaves
  <2>15. InventoryFits'
    BY <1>1, <2>10, <2>11, <2>14 DEF FilesInv, InventoryFits, EveryIdIsAccountedFor, SweepLeaves
  <2>16. SearchFits' BY <2>1, <2>10 DEF SearchFits, SweepLeaves
  <2>17. SubjectFits' BY <1>1, <2>6, <2>10, <2>11 DEF SubjectFits, NamesakesAreFlagged, SweepLeaves
  <2> QED BY <1>1, <2>13, <2>15, <2>16, <2>17 DEF FilesInv, DriveShape
<1> QED BY <1>2, <1>3

-----------------------------------------------------------------------------
(* The table of an inventory. *)

RowsOf(found) == [i \in DOMAIN found |-> inventory_row(found[i])]

\* Whoever is counted and is not of the subject's address is so by name.
LEMMA OtherwiseByName ==
  ASSUME NEW p, NEW subject, Mail[p] # subject, _matches(p, subject) # "none"
  PROVE  _matches(p, subject) = "display_name"
  BY DEF _matches, by_name_alone

LEMMA OneOfThem ==
  ASSUME NEW S, IsFiniteSet(S), NEW T \in SUBSET S, NEW x \in T
  PROVE  Cardinality(T) \in Nat \ {0}
<1>1. IsFiniteSet(T) BY FS_Subset
<1>2. Cardinality(T) \in Nat BY <1>1, FS_CardinalityType
<1>3. Cardinality(T) # 0 BY <1>1, FS_EmptySet
<1> QED BY <1>2, <1>3

LEMMA NoneOrMore ==
  ASSUME NEW S, IsFiniteSet(S), NEW T \in SUBSET S
  PROVE  Cardinality(T) \in Nat
  BY FS_Subset, FS_CardinalityType

LEMMA NamesakesCounted ==
  ASSUME FilesInv, NEW rows, rows = RowsOf(sweep.found), NEW i \in DOMAIN rows,
         NEW p \in rows[i].authors \cup IF rows[i].edited THEN {rows[i].editor} ELSE {},
         Mail[p] # sweep.subject
  PROVE  sweep.subject # NoSubject /\ name_only_matches(rows) > 0
<1>1. PICK n \in Nat : DOMAIN rows = 1 .. n
  <2>1. sweep.found \in Seq(Files) BY DEF FilesInv, SweepShape
  <2>2. Len(sweep.found) \in Nat /\ DOMAIN sweep.found = 1 .. Len(sweep.found) BY <2>1
  <2>3. DOMAIN rows = DOMAIN sweep.found BY DEF RowsOf
  <2> QED BY <2>2, <2>3
<1>2. IsFiniteSet(DOMAIN rows) BY <1>1, FS_Interval
<1>3. IsFiniteSet((DOMAIN rows) \X People) BY <1>2, FilesAssumption, FS_Product
<1>4. PICK f : rows[i] = inventory_row(f) BY DEF RowsOf
<1>5. /\ rows[i].authors = authored(f) /\ rows[i].editor = drive_files[f].editor
      /\ rows[i].edited = (sweep.subject # NoSubject /\ _matches(drive_files[f].editor, sweep.subject) # "none")
  BY <1>4 DEF inventory_row
<1> DEFINE E == {j \in DOMAIN rows : rows[j].edited /\ _matches(rows[j].editor, sweep.subject) = "display_name"}
           A == {by \in (DOMAIN rows) \X People :
                   by[2] \in rows[by[1]].authors /\ _matches(by[2], sweep.subject) = "display_name"}
<1>6. Cardinality(E) \in Nat /\ Cardinality(A) \in Nat BY <1>2, <1>3, NoneOrMore
<1>7. name_only_matches(rows) = Cardinality(E) + Cardinality(A) BY DEF name_only_matches, of_editors
<1>8. CASE p \in rows[i].authors
  <2>1. /\ f \in DOMAIN sweep.comments /\ p \in sweep.comments[f] /\ _matches(p, sweep.subject) # "none"
    BY <1>5, <1>8 DEF authored
  <2>2. p \in People /\ sweep.subject # NoSubject BY <2>1 DEF FilesInv, SubjectFits
  <2>3. _matches(p, sweep.subject) = "display_name" BY <2>1, OtherwiseByName
  <2>4. <<i, p>> \in A BY <1>8, <2>2, <2>3
  <2>5. Cardinality(A) \in Nat \ {0} BY <1>3, <2>4, OneOfThem
  <2> QED BY <1>6, <1>7, <2>2, <2>5
<1>9. CASE rows[i].edited /\ p = rows[i].editor
  <2>1. sweep.subject # NoSubject /\ _matches(p, sweep.subject) # "none" BY <1>5, <1>9
  <2>2. _matches(p, sweep.subject) = "display_name" BY <2>1, OtherwiseByName
  <2>3. i \in E BY <1>9, <2>2
  <2>4. Cardinality(E) \in Nat \ {0} BY <1>2, <2>3, OneOfThem
  <2> QED BY <1>6, <1>7, <2>1, <2>4
<1> QED BY <1>8, <1>9

LEMMA BuildKeeps ==
  ASSUME FilesInv, build_inventory
  PROVE  FilesInv'
<1>1. /\ sweep.at = "read" /\ sweep.op \in {"inventory", "inventory of query"} /\ sweep.limit \in Nat
      /\ sweep.parents = NotAsked \/ (sweep.op \in AsksForParents /\ sweep.parents \subseteq Folders)
      /\ sweep.found \in Seq(Files) /\ sweep.next \in Nat \ {0}
  BY DEF FilesInv, SweepShape, build_inventory
<1>2. PICK rows : rows = RowsOf(sweep.found) OBVIOUS
<1>3. PICK caveats : caveats = _caveats(rows) OBVIOUS
<1>4. PICK fields : fields = [at |-> "answered", rows |-> rows, caveats |-> caveats] OBVIOUS
<1>5. Continues(fields) BY <1>2, <1>3, <1>4 DEF build_inventory, RowsOf
<1>6. /\ DOMAIN fields = {"at", "rows", "caveats"} /\ fields.at = "answered" /\ fields.rows = rows
      /\ fields.caveats = caveats
  BY <1>4
<1>7. /\ SweepLeaves
      /\ \A x \in SweepFields : sweep'[x] = IF x \in DOMAIN fields THEN fields[x] ELSE sweep[x]
  BY <1>5, <1>6, InventoryStepLeaves
<1>8. /\ sweep'.at = "answered" /\ sweep'.rows = rows /\ sweep'.caveats = caveats
      /\ sweep'.found = sweep.found /\ sweep'.next = sweep.next
      /\ sweep'.unreachable = sweep.unreachable /\ sweep'.comments = sweep.comments
  BY <1>6, <1>7 DEF SweepFields
<1>9. SweepShape' BY <1>1, <1>7, <1>8 DEF SweepShape, SweepLeaves
<1>10. SearchFits' BY <1>1, <1>7 DEF SearchFits, SweepLeaves
<1>11. ASSUME sweep.op = "inventory" PROVE EveryIdIsAccountedFor' /\ InventoryFits'
  <2>1. PICK ids \in Seq(Files), lost \in Seq(Unreached), found \in Seq(Files) :
          ids = sweep.ids /\ lost = sweep.unreachable /\ found = sweep.found
    BY <1>1, <1>11 DEF FilesInv, InventoryFits
  <2>2. AccountedTo(Len(ids)) BY <1>1, <1>11, <2>1 DEF FilesInv, InventoryFits
  <2>3. Len(found) \in Nat /\ DOMAIN found = 1 .. Len(found) /\ DOMAIN ids = 1 .. Len(ids)
    BY <2>1
  <2>4. rows = [i \in 1 .. Len(found) |-> inventory_row(found[i])] BY <1>2, <2>1, <2>3 DEF RowsOf
  <2>5. Len(rows) = Len(found) /\ DOMAIN rows = 1 .. Len(found) BY <2>3, <2>4
  <2>6. \A i \in DOMAIN found : rows[i].id = found[i] BY <2>3, <2>4 DEF inventory_row
  <2>7. Len(rows) + Len(lost) = Len(ids) BY <2>1, <2>2, <2>5 DEF AccountedTo
  <2>8. ASSUME NEW i \in DOMAIN ids
        PROVE  \/ \E j \in DOMAIN rows : rows[j].id = ids[i]
               \/ \E j \in DOMAIN lost : lost[j].id = ids[i]
    <3>1. Accounted(ids[i]) BY <2>1, <2>2, <2>3 DEF AccountedTo
    <3> QED BY <2>1, <2>3, <2>5, <2>6, <3>1 DEF Accounted
  <2>9. lost # <<>> => "unreachable" \in caveats BY <1>3, <2>1 DEF _caveats
  <2>10. EveryIdIsAccountedFor'
    BY <1>7, <1>8, <2>1, <2>7, <2>8, <2>9 DEF EveryIdIsAccountedFor, SweepLeaves
  <2> QED BY <1>7, <1>8, <2>1, <2>10 DEF InventoryFits, SweepLeaves
<1>12. InventoryFits' BY <1>7, <1>11 DEF InventoryFits, SweepLeaves
<1>13. NamesakesAreFlagged'
  <2> SUFFICES ASSUME NEW i \in DOMAIN rows,
                      NEW p \in rows[i].authors \cup IF rows[i].edited THEN {rows[i].editor} ELSE {},
                      Mail[p] # sweep.subject
               PROVE  "by name" \in caveats
    BY <1>7, <1>8 DEF NamesakesAreFlagged, SweepLeaves
  <2>1. sweep.subject # NoSubject /\ name_only_matches(rows) > 0 BY <1>2, NamesakesCounted
  <2> QED BY <1>3, <2>1 DEF _caveats
<1>14. SubjectFits' BY <1>7, <1>8, <1>13 DEF FilesInv, SubjectFits, SweepLeaves
<1> QED BY <1>9, <1>10, <1>12, <1>14 DEF FilesInv, DriveShape, build_inventory

-----------------------------------------------------------------------------
(* The theorems of the account axis. *)

LEMMA FilesStart ==
  ASSUME FilesInit
  PROVE  FilesInv
<1>1. touches \in 0 .. Latest
  <2>1. PICK m \in Nat, k \in Nat : m = Max(Files) /\ k = MaxTouch BY LatestIsLast, FilesAssumption
  <2>2. m \in 0 .. m + k BY <2>1
  <2> QED BY <2>1, <2>2 DEF FilesInit, Latest
<1>2. \A f \in Files : f \in 0 .. Latest
  <2>1. PICK m \in Nat, k \in Nat : m = Max(Files) /\ k = MaxTouch BY LatestIsLast, FilesAssumption
  <2>2. \A f \in 0 .. m : f \in 0 .. m + k BY <2>1
  <2> QED BY <2>1, <2>2, LatestIsLast DEF Latest
<1>3. drive_files \in [Files -> DriveFile]
  BY <1>2, FilesAssumption DEF FilesInit, DriveFile
<1>4. DriveShape BY <1>1, <1>3, FilesAssumption DEF FilesInit, DriveShape
<1>5. sweep = AtRest BY DEF FilesInit
<1>6. /\ AtRest.at = "rest" /\ AtRest.op = "none" /\ AtRest.limit = 0 /\ AtRest.parents = NotAsked
      /\ AtRest.rows = <<>> /\ AtRest.comments = <<>> /\ AtRest.found = <<>> /\ AtRest.next = 1
  BY DEF AtRest
<1>7. <<>> \in Seq(Files) /\ DOMAIN <<>> = {} /\ 1 \in Nat \ {0} OBVIOUS
<1>8. SweepShape BY <1>5, <1>6, <1>7, FieldsOfRest DEF SweepShape
<1>9. SearchFits /\ InventoryFits BY <1>5, <1>6 DEF SearchFits, InventoryFits
<1>10. SubjectFits BY <1>5, <1>6, <1>7 DEF SubjectFits, NamesakesAreFlagged
<1> QED BY <1>4, <1>8, <1>9, <1>10 DEF FilesInv

LEMMA FilesStep ==
  ASSUME FilesInv, [FilesNext]_fileVars
  PROVE  FilesInv'
<1>1. CASE UNCHANGED fileVars BY <1>1, NothingChanges
<1>2. CASE Free /\ Begins BY <1>2, BeginsKeep
<1>3. CASE \E page \in Nexts : \E kept \in InOrder(page \cap Listed) : _page(page, kept)
  BY <1>3, PageKeeps
<1>4. ASSUME NEW outcome \in {"ok", "404", "403", "5xx", "other"}, GetNext(outcome) \/ ReadNext(outcome)
      PROVE  FilesInv'
  BY <1>4, GetNextKeeps, ReadNextKeeps
<1>5. CASE GotAll \/ build_inventory BY <1>5, GotAllKeeps, BuildKeeps
<1>6. ASSUME NEW f \in Files, NEW p \in People, Meanwhile(f, p) PROVE FilesInv'
  BY <1>6, MeanwhileKeeps
<1> QED BY <1>1, <1>2, <1>3, <1>4, <1>5, <1>6 DEF FilesNext

LEMMA FilesInvariant == FilesSpec => []FilesInv
<1>1. FilesInit => FilesInv BY FilesStart
<1>2. FilesInv /\ [FilesNext]_fileVars => FilesInv' BY FilesStep
<1> QED BY <1>1, <1>2, PTL DEF FilesSpec

\* The types of the account axis; nothing is said of the parents of a file that Drive was
\* not asked about.
THEOREM FilesTypes == FilesSpec => []FilesTypeOK
<1>1. FilesInv => FilesTypeOK
  BY DEF FilesInv, DriveShape, SweepShape, DriveFile, FilesTypeOK
<1> QED BY <1>1, FilesInvariant, PTL

\* A search that stops short of its limit has found every listed file that matches and
\* stayed as it was, however many pages the policy emptied; and `recency` is newest first
\* (files.py:224-242, 476-530, policy.py:604-624).
THEOREM SearchesAreSound == FilesSpec => []SearchIsSound
<1>1. FilesInv => SearchIsSound
  <2> SUFFICES ASSUME FilesInv PROVE SearchIsSound OBVIOUS
  <2>1. SearchIsComplete BY DEF FilesInv, SearchFits, SearchIsComplete
  <2>2. RecencyIsNewestFirst BY DEF FilesInv, SearchFits, Falling, RecencyIsNewestFirst
  <2> QED BY <2>1, <2>2 DEF SearchIsSound
<1> QED BY <1>1, FilesInvariant, PTL

\* An inventory that is answered has a row or a reason for each of the first `limit` ids it
\* was handed and for nothing else, and a table that counts a namesake says so, whoever
\* uses the Drive meanwhile.  Of the ids beyond the limit, and of an inventory that ends in
\* an error, it says nothing (files.py:243-315, _inventory.py:92-257).
THEOREM InventoriesAreSound == FilesSpec => []InventoryIsSound
<1>1. FilesInv => InventoryIsSound
  BY DEF FilesInv, InventoryFits, SubjectFits, EveryIdIsAccountedFor, InventoryIsSound
<1> QED BY <1>1, FilesInvariant, PTL
=============================================================================
