------------------------- MODULE CredentialsProofs -------------------------
(***************************************************************************)
(* For any number of threads, commands and servers, any old token files    *)
(* and every interleaving of them: what a process works with suits its     *)
(* posture, no token is lost to a consent that came to nothing or to a     *)
(* login of the other posture, what auth_status says is so, and a consent  *)
(* is lost to nothing but a race.                                          *)
(***************************************************************************)
EXTENDS CredentialsProperties, TLAPS

Activity == [at : Places, force : BOOLEAN, answer : Answers, hand : Text,
             consented : BOOLEAN, asked : BOOLEAN, cached : BOOLEAN]

\* A credential somebody of this posture may work with.
Suits(a, hand) ==
  /\ scopes_for(readonly(a)) \subseteq hand.scopes
  /\ readonly(a) => hand.scopes \subseteq {"read", "labels"}

\* What is in hand has passed _read_cached or comes from a consent, whoever waits at
\* a file to write it has just had it refreshed or issued, and nobody but auth_status
\* answers before it is done.
Fit(a, r) ==
  /\ r.at \in {"refresh", "open", "write", "call"} => Suits(a, r.hand)
  /\ r.cached => Suits(a, r.hand)
  /\ r.at \in {"open", "write"} => r.hand.fresh
  /\ a \notin Statuses /\ r.at # "idle" => r.answer = "none"

CredInv ==
  /\ TypeOK
  /\ \A a \in Actors : Fit(a, actor[a])

-----------------------------------------------------------------------------
(* What a step of one actor leaves of the activities. *)

Only(a) ==
  /\ actor' \in [Actors -> Activity]
  /\ \A b \in Actors \ {a} : actor'[b] = actor[b]

\* The record of a differs from r in at most its place and its answer.
Moved(a, place, answer) ==
  /\ Only(a)
  /\ actor'[a].at = place /\ actor'[a].answer = answer
  /\ actor'[a].hand = actor[a].hand /\ actor'[a].cached = actor[a].cached
  /\ actor'[a].consented = actor[a].consented

LEMMA OneKindEach ==
  ASSUME NEW a \in Actors
  PROVE  /\ a \in Tools => a \notin Authenticators /\ a \notin Statuses /\ a \notin Logins
         /\ a \in Authenticators => a \notin Statuses /\ a \notin Logins
         /\ a \in Statuses => a \notin Logins
         /\ a \in Tools \/ a \in Authenticators \/ a \in Statuses \/ a \in Logins
  BY CredentialsAssumption DEF Actors

LEMMA TypesOfText ==
  /\ None \in Text /\ \A what \in {"absent", "empty", "garbled"} : No(what) \in Text
  /\ \A t \in Text : /\ t.is \in {"token", "absent", "empty", "garbled"}
                     /\ t.grant \in 0 .. MaxConsents
                     /\ t.scopes \in SUBSET Scope /\ t.fresh \in BOOLEAN
                     /\ [t EXCEPT !.fresh = FALSE] \in Text
                     /\ [t EXCEPT !.fresh = TRUE] \in Text
<1>1. 0 \in 0 .. MaxConsents BY CredentialsAssumption
<1>2. \A what \in {"absent", "empty", "garbled"} : No(what) \in Text
  BY <1>1 DEF Text, No
<1>3. None \in Text BY <1>2 DEF None
<1> QED BY <1>2, <1>3 DEF Text

LEMMA Refreshed ==
  ASSUME NEW t \in Text, NEW b \in BOOLEAN, NEW u, u = [t EXCEPT !.fresh = b]
  PROVE  u.fresh = b /\ u.scopes = t.scopes /\ u.grant = t.grant /\ u.is = t.is
  BY DEF Text

LEMMA IdleActivity ==
  /\ Idle \in Activity
  /\ Idle.at = "idle" /\ Idle.answer = "none" /\ ~Idle.cached /\ ~Idle.consented
  /\ ~Idle.force /\ ~Idle.asked
  BY TypesOfText DEF Idle, Activity, Places, Answers

LEMMA GoesMoves ==
  ASSUME actor \in [Actors -> Activity], NEW a \in Actors, NEW place \in Places,
         Goes(a, place)
  PROVE  Moved(a, place, actor[a].answer)
  BY DEF Goes, Moved, Only, Activity

LEMMA AnsweredMoves ==
  ASSUME actor \in [Actors -> Activity], NEW a \in Actors, NEW what \in Answers,
         Answered(a, what)
  PROVE  Moved(a, "idle", what)
  BY DEF Answered, Moved, Only, Activity, Places

LEMMA ConcludesMoves ==
  ASSUME actor \in [Actors -> Activity], NEW a \in Actors, NEW what \in Answers,
         Concludes(a, what)
  PROVE  \E answer \in {actor[a].answer, what} : 
            /\ Moved(a, "idle", answer)
            /\ actor[a].answer = "none" => answer = what
<1>1. CASE a \in Statuses /\ actor[a].answer # "none"
  <2>1. Goes(a, "idle") BY <1>1 DEF Concludes
  <2> QED BY <1>1, <2>1, GoesMoves DEF Places
<1>2. CASE ~(a \in Statuses /\ actor[a].answer # "none")
  <2>1. Answered(a, what) BY <1>2 DEF Concludes
  <2> QED BY <1>2, <2>1, AnsweredMoves
<1> QED BY <1>1, <1>2

\* A credential that cannot be had sends a caller away, on to the consent, or
\* to the second look at the cache.
LEMMA NotAuthorizedMoves ==
  ASSUME actor \in [Actors -> Activity], NEW a \in Actors, NotAuthorized(a)
  PROVE  \E place \in {"idle", "elicit", "reload"}, answer \in Answers :
           /\ Moved(a, place, answer)
           /\ place # "idle" => answer = actor[a].answer
           /\ a \in Statuses => answer \in {actor[a].answer, "credential_rejected"}
           /\ a \in Authenticators => answer = actor[a].answer
<1> USE OneKindEach
<1>0. actor[a].answer \in Answers BY DEF Activity
<1>1. CASE a \in Tools
  <2>1. Answered(a, "unauthorized") BY <1>1 DEF NotAuthorized
  <2>2. Moved(a, "idle", "unauthorized") BY <2>1, AnsweredMoves DEF Answers
  <2> QED BY <1>1, <2>2 DEF Answers
<1>2. CASE a \in Authenticators
  <2>1. Goes(a, "elicit") BY <1>2 DEF NotAuthorized
  <2>2. Moved(a, "elicit", actor[a].answer) BY <2>1, GoesMoves DEF Places
  <2> QED BY <1>0, <1>2, <2>2
<1>3. CASE a \in Statuses
  <2>1. Concludes(a, "credential_rejected") BY <1>3 DEF NotAuthorized
  <2>2. PICK answer \in {actor[a].answer, "credential_rejected"} : Moved(a, "idle", answer)
    BY <2>1, ConcludesMoves DEF Answers
  <2> QED BY <1>0, <1>3, <2>2 DEF Answers
<1>4. CASE a \in Logins
  <2>1. actor' = [actor EXCEPT ![a].at = "reload", ![a].asked = TRUE]
    BY <1>4 DEF NotAuthorized
  <2>2. Moved(a, "reload", actor[a].answer) BY <2>1 DEF Moved, Only, Activity, Places
  <2> QED BY <1>0, <1>4, <2>2
<1> QED BY <1>1, <1>2, <1>3, <1>4

\* A credential takes a caller on to its call, or ends a consent before it began.
LEMMA HasCredentialMoves ==
  ASSUME actor \in [Actors -> Activity], NEW a \in Actors, NEW hand \in Text,
         HasCredential(a, hand)
  PROVE  /\ Only(a)
         /\ actor'[a].at \in {"idle", "call"} /\ actor'[a].hand = hand
         /\ actor'[a].consented = actor[a].consented
         /\ actor'[a].at = "call" => actor'[a].answer = actor[a].answer
         /\ a \in Statuses => actor'[a].answer = actor[a].answer
         /\ a \in Authenticators => actor'[a].answer = "already_authorized"
<1> USE OneKindEach
<1>1. CASE a \in Tools
  <2>1. PICK r : r = [actor[a] EXCEPT !.at = "call", !.hand = hand, !.cached = TRUE] OBVIOUS
  <2>2. actor' = [actor EXCEPT ![a] = r] BY <1>1, <2>1 DEF HasCredential
  <2>3. /\ r \in Activity /\ r.at = "call" /\ r.hand = hand
        /\ r.consented = actor[a].consented /\ r.answer = actor[a].answer
    BY <2>1 DEF Activity, Places
  <2>4. Only(a) /\ actor'[a] = r BY <2>2, <2>3 DEF Only
  <2> QED BY <1>1, <2>3, <2>4
<1>2. CASE a \in Statuses
  <2>1. GoesWith(a, "call", hand) BY <1>2 DEF HasCredential
  <2> QED BY <1>2, <2>1 DEF GoesWith, Only, Activity, Places
<1>3. CASE a \notin Tools /\ a \notin Statuses
  <2>1. actor' = [actor EXCEPT ![a].at = "idle", ![a].hand = hand,
                                ![a].answer = "already_authorized"]
    BY <1>3 DEF HasCredential
  <2>2. PICK r : r = [actor[a] EXCEPT !.at = "idle", !.hand = hand,
                                      !.answer = "already_authorized"] OBVIOUS
  <2>3. r \in Activity /\ r.at = "idle" /\ r.hand = hand /\ r.answer = "already_authorized"
        /\ r.consented = actor[a].consented
    BY <2>2 DEF Activity, Places, Answers
  <2>4. actor' = [actor EXCEPT ![a] = r] BY <2>1, <2>2
  <2>5. Only(a) /\ actor'[a] = r BY <2>3, <2>4 DEF Only
  <2> QED BY <1>3, <2>3, <2>5
<1> QED BY <1>1, <1>2, <1>3

LEMMA GoesWithMoves ==
  ASSUME actor \in [Actors -> Activity], NEW a \in Actors, NEW place \in Places,
         NEW hand \in Text, GoesWith(a, place, hand)
  PROVE  /\ Only(a)
         /\ actor'[a].at = place /\ actor'[a].hand = hand
         /\ actor'[a].cached = actor[a].cached /\ actor'[a].consented = actor[a].consented
         /\ actor'[a].answer = actor[a].answer
  BY DEF GoesWith, Only, Activity

-----------------------------------------------------------------------------
(* The invariant, action by action. *)

\* The parts of the invariant a step of one actor has to account for.
LEMMA OnlyOneMoves ==
  ASSUME CredInv, NEW a \in Actors, Only(a), Fit(a, actor'[a]),
         disk' \in [Files -> Text], redirect' \in Redirects,
         revoked' \subseteq 0 .. MaxConsents, kept' \in Kept,
         spent' \in [{"consents", "expiries", "revocations", "faults", "calls"} -> Nat],
         spent'.consents <= MaxConsents
  PROVE  CredInv'
<1>1. TypeOK' BY DEF TypeOK, Only, Activity
<1>2. ASSUME NEW b \in Actors PROVE Fit(b, actor'[b])
  <2>1. CASE b = a BY <2>1
  <2>2. CASE b # a BY <2>2 DEF Only, CredInv
  <2> QED BY <2>1, <2>2
<1> QED BY <1>1, <1>2 DEF CredInv, Fit, Suits, readonly

\* What every action that touches only activities leaves alone.
OnlyActs(a) == Only(a) /\ UNCHANGED <<disk, redirect, revoked, kept, spent>>

LEMMA OnlyActsKeeps ==
  ASSUME CredInv, NEW a \in Actors, OnlyActs(a), Fit(a, actor'[a])
  PROVE  CredInv'
<1>1. disk' = disk /\ redirect' = redirect /\ revoked' = revoked /\ kept' = kept /\ spent' = spent
  BY DEF OnlyActs
<1>2. Only(a) BY DEF OnlyActs
<1>3. TypeOK BY DEF CredInv
<1> QED BY <1>1, <1>2, <1>3, OnlyOneMoves DEF TypeOK

LEMMA Spent ==
  ASSUME TypeOK, NEW what \in {"expiries", "revocations", "faults", "calls"}, Spend(what)
  PROVE  /\ spent' \in [{"consents", "expiries", "revocations", "faults", "calls"} -> Nat]
         /\ spent'.consents <= MaxConsents
         /\ spent'.consents = spent.consents
         /\ spent'.expiries = 0 => spent.expiries = 0 /\ what # "expiries"
  BY DEF TypeOK, Spend

\* A cache file that _read_cached lets through suits the posture it was read for.
LEMMA UsableSuits ==
  ASSUME NEW a \in Actors, TypeOK,
         read_cached(Cache(a), readonly(a)) = "usable"
  PROVE  Suits(a, disk[Cache(a)]) /\ HasToken(Cache(a)) /\ disk[Cache(a)] \in Text
<1> DEFINE f == Cache(a)
<1>1. f \in Files BY DEF Cache, expanduser, token_path_for, Files
<1>2. disk[f] \in Text BY <1>1 DEF TypeOK
<1>3. /\ disk[f].is \notin {"absent", "empty", "garbled"}
      /\ ~(readonly(a) /\ has_write_scope(disk[f].scopes))
      /\ scopes_for(readonly(a)) \subseteq disk[f].scopes
  BY DEF read_cached
<1>4. readonly(a) => disk[f].scopes \subseteq {"read", "labels"}
  BY <1>3 DEF has_write_scope, scopes_for
<1> QED BY <1>2, <1>3, <1>4, TypesOfText DEF Suits, HasToken

LEMMA CallToolKeeps ==
  ASSUME CredInv, NEW a \in Actors, CallTool(a)
  PROVE  CredInv'
<1>1. TypeOK /\ Fit(a, actor[a]) BY DEF CredInv
<1>2. actor \in [Actors -> Activity] BY <1>1 DEF TypeOK, Activity
<1>3. PICK place \in {"call", "load"} : /\ place = "call" => actor[a].cached
                                        /\ actor' = [actor EXCEPT ![a].at = place,
                                                                  ![a].answer = "none"]
  BY DEF CallTool
<1>4. Moved(a, place, "none")
  <2>1. PICK r : r = [actor[a] EXCEPT !.at = place, !.answer = "none"] OBVIOUS
  <2>2. /\ r \in Activity /\ r.at = place /\ r.answer = "none" /\ r.hand = actor[a].hand
        /\ r.cached = actor[a].cached /\ r.consented = actor[a].consented
    BY <1>2, <2>1 DEF Activity, Places, Answers
  <2>3. actor' = [actor EXCEPT ![a] = r] BY <1>3, <2>1
  <2>4. Only(a) /\ actor'[a] = r BY <1>2, <2>2, <2>3 DEF Only
  <2> QED BY <2>2, <2>4 DEF Moved
<1>5. Fit(a, actor'[a]) BY <1>1, <1>3, <1>4 DEF Fit, Moved
<1>6. /\ spent' \in [{"consents", "expiries", "revocations", "faults", "calls"} -> Nat]
      /\ spent'.consents <= MaxConsents
  BY <1>1, Spent DEF CallTool
<1>7. disk' = disk /\ redirect' = redirect /\ revoked' = revoked /\ kept' = kept
  BY DEF CallTool
<1> QED BY <1>1, <1>4, <1>5, <1>6, <1>7, OnlyOneMoves DEF Moved, TypeOK

LEMMA BeginConsentKeeps ==
  ASSUME CredInv, NEW a \in Actors, NEW force \in BOOLEAN, BeginConsent(a, force)
  PROVE  CredInv'
<1>1. TypeOK BY DEF CredInv
<1>2. actor \in [Actors -> Activity] BY <1>1 DEF TypeOK, Activity
<1>3. PICK place \in {"load", "reload", "elicit"} :
        actor' = [actor EXCEPT ![a] = [Idle EXCEPT !.force = force, !.at = place]]
  <2>1. PICK place : place = CASE ~force -> "load"
                               [] a \in Logins -> "reload"
                               [] OTHER -> "elicit"
    OBVIOUS
  <2>2. place \in {"load", "reload", "elicit"} BY <2>1
  <2>3. actor' = [actor EXCEPT ![a] = [Idle EXCEPT !.force = force, !.at = place]]
    BY <2>1 DEF BeginConsent
  <2> QED BY <2>2, <2>3
<1>4. PICK r : r = [Idle EXCEPT !.force = force, !.at = place] OBVIOUS
<1>5. r \in Activity /\ r.at = place /\ r.answer = "none" /\ ~r.cached
  BY <1>4, TypesOfText DEF Idle, Activity, Places, Answers
<1>6. actor' = [actor EXCEPT ![a] = r] BY <1>3, <1>4
<1>7. Only(a) /\ actor'[a] = r BY <1>2, <1>5, <1>6 DEF Only
<1>8. Fit(a, r) BY <1>5 DEF Fit
<1>9. /\ spent' \in [{"consents", "expiries", "revocations", "faults", "calls"} -> Nat]
      /\ spent'.consents <= MaxConsents
  BY <1>1, Spent DEF BeginConsent
<1>10. disk' = disk /\ redirect' = redirect /\ revoked' = revoked /\ kept' = kept
  BY DEF BeginConsent
<1> QED BY <1>1, <1>7, <1>8, <1>9, <1>10, OnlyOneMoves DEF TypeOK

\* auth_status starts a thread or has its answer.
LEMMA AskStatusMoves ==
  ASSUME TypeOK, NEW a \in Actors, NEW retired \in BOOLEAN, AskStatus(a, retired)
  PROVE  /\ a \in Statuses
         /\ Only(a) /\ ~actor'[a].cached /\ actor'[a].at \in {"idle", "load"}
         /\ actor'[a].answer \in {"none", "client_retired", "scope_short", "no_credential"}
         /\ actor'[a].answer # "none" => actor'[a].answer = LocalVerdict(a, retired)
<1>1. actor \in [Actors -> Activity] BY DEF TypeOK, Activity
<1>2. PICK r : r = IF LocalVerdict(a, retired) = "usable"
                    THEN [Idle EXCEPT !.at = "load"]
                    ELSE [Idle EXCEPT !.answer = LocalVerdict(a, retired)]
  OBVIOUS
<1>3. LocalVerdict(a, retired) \in {"client_retired", "usable", "scope_short", "no_credential"}
  BY DEF LocalVerdict
<1>4. /\ r \in Activity /\ ~r.cached /\ r.at \in {"idle", "load"}
      /\ r.answer \in {"none", "client_retired", "scope_short", "no_credential"}
      /\ r.answer # "none" => r.answer = LocalVerdict(a, retired)
  <2>1. CASE LocalVerdict(a, retired) = "usable"
    <3>1. r = [Idle EXCEPT !.at = "load"] BY <1>2, <2>1
    <3> QED BY <3>1, TypesOfText DEF Idle, Activity, Places, Answers
  <2>2. CASE LocalVerdict(a, retired) # "usable"
    <3>1. PICK v \in {"client_retired", "scope_short", "no_credential"} :
            v = LocalVerdict(a, retired) BY <1>3, <2>2
    <3>2. r = [Idle EXCEPT !.answer = v] BY <1>2, <2>2, <3>1
    <3> QED BY <3>1, <3>2, TypesOfText DEF Idle, Activity, Places, Answers
  <2> QED BY <2>1, <2>2
<1>5. actor' = [actor EXCEPT ![a] = r] BY <1>2 DEF AskStatus
<1>6. Only(a) /\ actor'[a] = r BY <1>1, <1>4, <1>5 DEF Only
<1>7. a \in Statuses BY DEF AskStatus
<1> QED BY <1>4, <1>6, <1>7

LEMMA AskStatusKeeps ==
  ASSUME CredInv, NEW a \in Actors, NEW retired \in BOOLEAN, AskStatus(a, retired)
  PROVE  CredInv'
<1>1. TypeOK BY DEF CredInv
<1>2. /\ Only(a) /\ ~actor'[a].cached /\ actor'[a].at \in {"idle", "load"}
      /\ a \in Statuses
  BY <1>1, AskStatusMoves
<1>3. Fit(a, actor'[a]) BY <1>2 DEF Fit
<1>4. /\ spent' \in [{"consents", "expiries", "revocations", "faults", "calls"} -> Nat]
      /\ spent'.consents <= MaxConsents
  BY <1>1, Spent DEF AskStatus
<1>5. disk' = disk /\ redirect' = redirect /\ revoked' = revoked /\ kept' = kept
  BY DEF AskStatus
<1> QED BY <1>1, <1>2, <1>3, <1>4, <1>5, OnlyOneMoves DEF TypeOK

LEMMA StatusTimeoutKeeps ==
  ASSUME CredInv, NEW a \in Actors, StatusTimeout(a)
  PROVE  CredInv'
<1>1. TypeOK /\ Fit(a, actor[a]) BY DEF CredInv
<1>2. actor \in [Actors -> Activity] BY <1>1 DEF TypeOK, Activity
<1>3. Moved(a, actor[a].at, "cached")
  BY <1>2 DEF StatusTimeout, Moved, Only, Activity, Answers
<1>4. Fit(a, actor'[a]) BY <1>1, <1>3 DEF Fit, Moved, StatusTimeout
<1>5. OnlyActs(a) BY <1>3 DEF StatusTimeout, OnlyActs, Moved
<1> QED BY <1>4, <1>5, OnlyActsKeeps

\* A step that changes no more than its actor's place and answer, and takes it no
\* nearer to its credential.
LEMMA MovedFits ==
  ASSUME CredInv, NEW a \in Actors, NEW place, NEW answer, Moved(a, place, answer),
         place \in {"refresh", "open", "write", "call"} =>
            /\ actor[a].at \in {"refresh", "open", "write", "call"}
            /\ place \in {"open", "write"} => actor[a].at \in {"open", "write"},
         a \notin Statuses /\ place # "idle" => answer = "none"
  PROVE  Fit(a, actor'[a])
  BY DEF CredInv, Fit, Moved

LEMMA NotAuthorizedFits ==
  ASSUME CredInv, NEW a \in Actors, NotAuthorized(a), actor[a].at # "idle"
  PROVE  Only(a) /\ Fit(a, actor'[a])
<1>1. actor \in [Actors -> Activity] BY DEF CredInv, TypeOK, Activity
<1>2. PICK place \in {"idle", "elicit", "reload"}, answer \in Answers :
        Moved(a, place, answer) /\ (place # "idle" => answer = actor[a].answer)
  BY <1>1, NotAuthorizedMoves
<1>3. a \notin Statuses => actor[a].answer = "none" BY DEF CredInv, Fit
<1> QED BY <1>2, <1>3, MovedFits DEF Moved

LEMMA HasCredentialFits ==
  ASSUME CredInv, NEW a \in Actors, NEW hand \in Text, HasCredential(a, hand),
         Suits(a, hand), actor[a].at # "idle"
  PROVE  Only(a) /\ Fit(a, actor'[a])
<1>1. actor \in [Actors -> Activity] BY DEF CredInv, TypeOK, Activity
<1>2. /\ Only(a)
      /\ actor'[a].at \in {"idle", "call"} /\ actor'[a].hand = hand
      /\ actor'[a].at = "call" => actor'[a].answer = actor[a].answer
  BY <1>1, HasCredentialMoves
<1>3. a \notin Statuses => actor[a].answer = "none" BY DEF CredInv, Fit
<1> QED BY <1>2, <1>3 DEF Fit

LEMMA GoesWithFits ==
  ASSUME CredInv, NEW a \in Actors, NEW place \in Places, NEW hand \in Text,
         GoesWith(a, place, hand), Suits(a, hand), actor[a].at # "idle",
         place \in {"open", "write"} => hand.fresh
  PROVE  Only(a) /\ Fit(a, actor'[a])
<1>1. actor \in [Actors -> Activity] BY DEF CredInv, TypeOK, Activity
<1>2. /\ Only(a) /\ actor'[a].at = place /\ actor'[a].hand = hand
      /\ actor'[a].answer = actor[a].answer
  BY <1>1, GoesWithMoves
<1>3. a \notin Statuses => actor[a].answer = "none" BY DEF CredInv, Fit
<1> QED BY <1>2, <1>3 DEF Fit

LEMMA LoadCachedKeeps ==
  ASSUME CredInv, NEW a \in Actors, LoadCached(a)
  PROVE  CredInv'
<1>1. TypeOK /\ actor[a].at = "load" BY DEF CredInv, LoadCached
<1>2. Only(a) /\ Fit(a, actor'[a])
  <2>1. CASE read_cached(Cache(a), readonly(a)) # "usable"
    <3>1. NotAuthorized(a) BY <2>1 DEF LoadCached
    <3> QED BY <1>1, <3>1, NotAuthorizedFits
  <2>2. CASE read_cached(Cache(a), readonly(a)) = "usable"
    <3>1. PICK hand \in Text : hand = disk[Cache(a)] /\ Suits(a, hand)
      BY <1>1, <2>2, UsableSuits
    <3>2. HasCredential(a, hand) \/ GoesWith(a, "refresh", hand)
      BY <2>2, <3>1 DEF LoadCached
    <3> QED BY <1>1, <3>1, <3>2, HasCredentialFits, GoesWithFits DEF Places
  <2> QED BY <2>1, <2>2
<1>3. OnlyActs(a) BY <1>2 DEF OnlyActs, LoadCached
<1> QED BY <1>2, <1>3, OnlyActsKeeps

LEMMA ReloadKeeps ==
  ASSUME CredInv, NEW a \in Actors, Reload(a)
  PROVE  CredInv'
<1>1. TypeOK /\ actor[a].at = "reload" BY DEF CredInv, Reload
<1>2. actor \in [Actors -> Activity] BY <1>1 DEF TypeOK, Activity
<1>3. Only(a) /\ Fit(a, actor'[a])
  <2>1. CASE actor[a].force \/ read_cached(Cache(a), readonly(a)) \in {"none", "scope_short"}
    <3>1. Goes(a, "elicit") BY <2>1 DEF Reload
    <3>2. Moved(a, "elicit", actor[a].answer) BY <1>2, <3>1, GoesMoves DEF Places
    <3> QED BY <1>1, <3>2, MovedFits DEF Moved, CredInv, Fit
  <2>2. CASE /\ ~actor[a].force
             /\ read_cached(Cache(a), readonly(a)) \in {"unreadable", "write_refused"}
    <3>1. Answered(a, "error") BY <2>2 DEF Reload
    <3>2. Moved(a, "idle", "error") BY <1>2, <3>1, AnsweredMoves DEF Answers
    <3> QED BY <3>2, MovedFits DEF Moved
  <2>3. CASE ~actor[a].force /\ read_cached(Cache(a), readonly(a)) = "usable"
    <3>1. PICK hand \in Text : hand = disk[Cache(a)] /\ Suits(a, hand)
      BY <1>1, <2>3, UsableSuits
    <3>2. Answered(a, "authorized") \/ GoesWith(a, "refresh", hand)
      BY <2>3, <3>1 DEF Reload
    <3>3. CASE Answered(a, "authorized")
      <4>1. Moved(a, "idle", "authorized") BY <1>2, <3>3, AnsweredMoves DEF Answers
      <4> QED BY <4>1, MovedFits DEF Moved
    <3>4. CASE GoesWith(a, "refresh", hand)
      BY <1>1, <3>1, <3>4, GoesWithFits DEF Places
    <3> QED BY <3>2, <3>3, <3>4
  <2>4. read_cached(Cache(a), readonly(a)) \in
          {"none", "unreadable", "write_refused", "scope_short", "usable"}
    BY DEF read_cached
  <2> QED BY <1>2, <2>1, <2>2, <2>3, <2>4 DEF Activity
<1>4. OnlyActs(a) BY <1>3 DEF OnlyActs, Reload
<1> QED BY <1>3, <1>4, OnlyActsKeeps

LEMMA RefreshKeeps ==
  ASSUME CredInv, NEW a \in Actors, Refresh(a)
  PROVE  CredInv'
<1>1. TypeOK /\ actor[a].at = "refresh" BY DEF CredInv, Refresh
<1>2. actor \in [Actors -> Activity] BY <1>1 DEF TypeOK, Activity
<1>3. Only(a) /\ Fit(a, actor'[a])
  <2>1. CASE GoesWith(a, "open", [actor[a].hand EXCEPT !.fresh = TRUE])
    <3>1. Suits(a, actor[a].hand) /\ actor[a].hand \in Text
      BY <1>1, <1>2 DEF CredInv, Fit, Activity
    <3>2. PICK hand : hand = [actor[a].hand EXCEPT !.fresh = TRUE] OBVIOUS
    <3>3. hand.fresh /\ hand.scopes = actor[a].hand.scopes BY <3>1, <3>2, Refreshed
    <3>4. hand \in Text /\ Suits(a, hand) BY <3>1, <3>2, <3>3, TypesOfText DEF Suits
    <3> QED BY <1>1, <2>1, <3>2, <3>3, <3>4, GoesWithFits DEF Places
  <2>2. CASE Answered(a, "error")
    <3>1. Moved(a, "idle", "error") BY <1>2, <2>2, AnsweredMoves DEF Answers
    <3> QED BY <3>1, MovedFits DEF Moved
  <2>3. CASE NotAuthorized(a)
    BY <1>1, <2>3, NotAuthorizedFits
  <2> QED BY <2>1, <2>2, <2>3 DEF Refresh
<1>4. OnlyActs(a) BY <1>3 DEF OnlyActs, Refresh
<1> QED BY <1>3, <1>4, OnlyActsKeeps

\* What a listener may have kept once it has taken one more answer.
LEMMA RedirectsOf ==
  ASSUME redirect \in Redirects, NEW a \in Actors, NEW r \in {"none", "stray", "code", "cancel"},
         a \in Authenticators => r # "stray"
  PROVE  [redirect EXCEPT ![a] = r] \in Redirects
<1>1. /\ redirect \in [Actors -> {"none", "stray", "code", "cancel"}]
      /\ \A b \in Authenticators : redirect[b] # "stray"
  BY DEF Redirects
<1>2. PICK f : f = [redirect EXCEPT ![a] = r] OBVIOUS
<1>3. f \in [Actors -> {"none", "stray", "code", "cancel"}] BY <1>1, <1>2
<1>4. \A b \in Authenticators : f[b] # "stray" BY <1>1, <1>2 DEF Actors
<1> QED BY <1>2, <1>3, <1>4 DEF Redirects

LEMMA ElicitKeeps ==
  ASSUME CredInv, NEW a \in Actors, Elicit(a)
  PROVE  CredInv'
<1>1. TypeOK /\ actor[a].at = "elicit" BY DEF CredInv, Elicit
<1>2. actor \in [Actors -> Activity] BY <1>1 DEF TypeOK, Activity
<1>3. Only(a) /\ Fit(a, actor'[a])
  <2>1. CASE Goes(a, "wait")
    <3>1. Moved(a, "wait", actor[a].answer) BY <1>2, <2>1, GoesMoves DEF Places
    <3> QED BY <1>1, <3>1, MovedFits DEF Moved, CredInv, Fit
  <2>2. CASE \E what \in {"error", "declined"} : Answered(a, what)
    <3>1. PICK what \in {"error", "declined"} : Answered(a, what) BY <2>2
    <3>2. Moved(a, "idle", what) BY <1>2, <3>1, AnsweredMoves DEF Answers
    <3> QED BY <3>2, MovedFits DEF Moved
  <2> QED BY <2>1, <2>2 DEF Elicit
<1>4. redirect' \in Redirects
  <2>1. redirect' = redirect \/ redirect' = [redirect EXCEPT ![a] = "none"] BY DEF Elicit
  <2> QED BY <1>1, <2>1, RedirectsOf DEF TypeOK
<1>5. disk' = disk /\ revoked' = revoked /\ kept' = kept /\ spent' = spent BY DEF Elicit
<1> QED BY <1>1, <1>3, <1>4, <1>5, OnlyOneMoves DEF TypeOK

LEMMA HearKeeps ==
  ASSUME CredInv, NEW a \in Actors, NEW request \in {"stray", "code", "cancel"},
         Hear(a, request)
  PROVE  CredInv'
<1>1. TypeOK BY DEF CredInv
<1>2. redirect' \in Redirects
  <2>1. redirect \in Redirects /\ redirect[a] = "none" BY <1>1 DEF Hear, TypeOK
  <2>2. a \in Authenticators => a \notin Logins BY OneKindEach
  <2>3. PICK r \in {"none", "stray", "code", "cancel"} :
          redirect' = [redirect EXCEPT ![a] = r] /\ (r = "stray" => a \in Logins)
    BY <2>1 DEF Hear, wanted
  <2> QED BY <2>1, <2>2, <2>3, RedirectsOf
<1>3. disk' = disk /\ actor' = actor /\ revoked' = revoked /\ kept' = kept /\ spent' = spent
  BY DEF Hear
<1>4. TypeOK' BY <1>1, <1>2, <1>3 DEF TypeOK
<1> QED BY <1>3, <1>4 DEF CredInv, Fit, Suits, readonly

LEMMA WaitOverKeeps ==
  ASSUME CredInv, NEW a \in Actors, WaitOver(a)
  PROVE  CredInv'
<1>1. TypeOK /\ actor[a].at = "wait" BY DEF CredInv, WaitOver
<1>2. actor \in [Actors -> Activity] BY <1>1 DEF TypeOK, Activity
<1>3. Only(a) /\ Fit(a, actor'[a])
  <2>1. CASE Goes(a, "exchange")
    <3>1. Moved(a, "exchange", actor[a].answer) BY <1>2, <2>1, GoesMoves DEF Places
    <3> QED BY <1>1, <3>1, MovedFits DEF Moved, CredInv, Fit
  <2>2. CASE Answered(a, "timed_out")
    <3>1. Moved(a, "idle", "timed_out") BY <1>2, <2>2, AnsweredMoves DEF Answers
    <3> QED BY <3>1, MovedFits DEF Moved
  <2> QED BY <2>1, <2>2 DEF WaitOver
<1>4. OnlyActs(a) BY <1>3 DEF OnlyActs, WaitOver
<1> QED BY <1>3, <1>4, OnlyActsKeeps

\* The consent is exactly for the scopes of the posture.
LEMMA ConsentSuits ==
  ASSUME NEW a \in Actors, NEW hand, hand.scopes = scopes_for(readonly(a))
  PROVE  Suits(a, hand)
  BY DEF Suits, scopes_for

LEMMA ExchangeMoves ==
  ASSUME TypeOK, NEW a \in Actors, Exchange(a)
  PROVE  \/ /\ Only(a) /\ actor'[a].at = "open" /\ actor'[a].answer = actor[a].answer
            /\ actor'[a].consented /\ actor'[a].hand.fresh
            /\ actor'[a].hand.scopes = scopes_for(readonly(a))
            /\ spent' \in [{"consents", "expiries", "revocations", "faults", "calls"} -> Nat]
            /\ spent'.consents <= MaxConsents /\ spent'.expiries = spent.expiries
         \/ Moved(a, "idle", "error") /\ spent' = spent
<1>1. actor \in [Actors -> Activity] BY DEF TypeOK, Activity
<1>2. CASE Answered(a, "error") /\ UNCHANGED spent
  BY <1>1, <1>2, AnsweredMoves DEF Answers
<1>3. CASE /\ spent.consents < MaxConsents
           /\ actor' = [actor EXCEPT ![a].at = "open", ![a].consented = TRUE,
                          ![a].hand = [is |-> "token", grant |-> spent.consents + 1, fresh |-> TRUE,
                                       scopes |-> scopes_for(readonly(a))]]
           /\ Spend("consents")
  <2>1. PICK hand : hand = [is |-> "token", grant |-> spent.consents + 1, fresh |-> TRUE,
                            scopes |-> scopes_for(readonly(a))]
    OBVIOUS
  <2>2. spent.consents + 1 \in 0 .. MaxConsents
    BY <1>3, CredentialsAssumption DEF TypeOK
  <2>3. hand \in Text /\ hand.fresh /\ hand.scopes = scopes_for(readonly(a))
    BY <2>1, <2>2 DEF Text, Scope, scopes_for
  <2>4. PICK r : r = [actor[a] EXCEPT !.at = "open", !.consented = TRUE, !.hand = hand] OBVIOUS
  <2>5. r \in Activity /\ r.at = "open" /\ r.consented /\ r.hand = hand
        /\ r.answer = actor[a].answer
    BY <1>1, <2>3, <2>4 DEF Activity, Places
  <2>6. actor' = [actor EXCEPT ![a] = r] BY <1>3, <2>1, <2>4
  <2>7. Only(a) /\ actor'[a] = r BY <1>1, <2>5, <2>6 DEF Only
  <2>8. /\ spent' \in [{"consents", "expiries", "revocations", "faults", "calls"} -> Nat]
        /\ spent'.consents <= MaxConsents /\ spent'.expiries = spent.expiries
    BY <1>3, <2>2 DEF Spend, TypeOK
  <2> QED BY <2>3, <2>5, <2>7, <2>8
<1> QED BY <1>2, <1>3 DEF Exchange

LEMMA ExchangeKeeps ==
  ASSUME CredInv, NEW a \in Actors, Exchange(a)
  PROVE  CredInv'
<1>1. TypeOK /\ actor[a].at = "exchange" BY DEF CredInv, Exchange
<1>2. disk' = disk /\ redirect' = redirect /\ revoked' = revoked /\ kept' = kept
  BY DEF Exchange
<1>3. CASE /\ Only(a) /\ actor'[a].at = "open" /\ actor'[a].answer = actor[a].answer
           /\ actor'[a].hand.fresh /\ actor'[a].hand.scopes = scopes_for(readonly(a))
           /\ spent' \in [{"consents", "expiries", "revocations", "faults", "calls"} -> Nat]
           /\ spent'.consents <= MaxConsents
  <2>1. Suits(a, actor'[a].hand) BY <1>3 DEF Suits, scopes_for
  <2>2. a \notin Statuses => actor[a].answer = "none" BY <1>1 DEF CredInv, Fit
  <2>3. Fit(a, actor'[a]) BY <1>3, <2>1, <2>2 DEF Fit
  <2> QED BY <1>1, <1>2, <1>3, <2>3, OnlyOneMoves DEF TypeOK
<1>4. CASE Moved(a, "idle", "error") /\ spent' = spent
  <2>1. Only(a) /\ Fit(a, actor'[a]) BY <1>4, MovedFits DEF Moved
  <2>2. OnlyActs(a) BY <1>2, <1>4, <2>1 DEF OnlyActs
  <2> QED BY <2>1, <2>2, OnlyActsKeeps
<1> QED BY <1>1, <1>3, <1>4, ExchangeMoves

LEMMA TargetIsFile ==
  ASSUME NEW a \in Actors
  PROVE  Target(a) \in Files
  BY DEF Target, ConsentPath, Cache, expanduser, unexpanded, token_path_for, Files

LEMMA OpenTokenMoves ==
  ASSUME TypeOK, NEW a \in Actors, OpenToken(a)
  PROVE  Moved(a, "write", actor[a].answer)
<1>1. actor \in [Actors -> Activity] BY DEF TypeOK, Activity
<1> QED BY <1>1, GoesMoves DEF OpenToken, Places

LEMMA OpenTokenKeeps ==
  ASSUME CredInv, NEW a \in Actors, OpenToken(a)
  PROVE  CredInv'
<1>1. TypeOK /\ actor[a].at = "open" BY DEF CredInv, OpenToken
<1>2. Moved(a, "write", actor[a].answer) BY <1>1, OpenTokenMoves
<1>3. Only(a) /\ Fit(a, actor'[a]) BY <1>1, <1>2, MovedFits DEF Moved, CredInv, Fit
<1>4. disk' \in [Files -> Text]
  BY <1>1, TargetIsFile, TypesOfText DEF OpenToken, TypeOK
<1>5. redirect' = redirect /\ revoked' = revoked /\ kept' = kept /\ spent' = spent
  BY DEF OpenToken
<1> QED BY <1>1, <1>3, <1>4, <1>5, OnlyOneMoves DEF TypeOK

\* After the write an actor has a credential or an answer; only a consent, or a login
\* that looked twice, ends in "authorized".
LEMMA SettlesMoves ==
  ASSUME CredInv, NEW a \in Actors, Settles(a), actor[a].at = "write"
  PROVE  /\ Only(a) /\ Fit(a, actor'[a]) /\ actor'[a].at \in {"idle", "call"}
         /\ a \in Statuses => actor'[a].answer \in {actor[a].answer, "authorized"}
         /\ a \in Authenticators /\ ~actor[a].consented => actor'[a].answer = "already_authorized"
<1>1. actor \in [Actors -> Activity] BY DEF CredInv, TypeOK, Activity
<1>2. CASE actor[a].consented \/ (a \in Logins /\ actor[a].asked)
  <2>1. Answered(a, "authorized") BY <1>2 DEF Settles
  <2>2. Moved(a, "idle", "authorized") BY <1>1, <2>1, AnsweredMoves DEF Answers
  <2> QED BY <1>2, <2>2, MovedFits, OneKindEach DEF Moved
<1>3. CASE ~actor[a].consented /\ ~(a \in Logins /\ actor[a].asked)
  <2>1. HasCredential(a, actor[a].hand) BY <1>3 DEF Settles
  <2>2. PICK hand \in Text : hand = actor[a].hand BY <1>1 DEF Activity
  <2>3. Suits(a, hand) BY <2>2 DEF CredInv, Fit
  <2> QED BY <1>1, <2>1, <2>2, <2>3, HasCredentialFits, HasCredentialMoves
<1> QED BY <1>2, <1>3

LEMMA LandingIsText ==
  ASSUME TypeOK, NEW a \in Actors, NEW text \in Landing(a)
  PROVE  text \in Text /\ text \in {actor[a].hand, No("garbled")}
<1>1. actor[a].hand \in Text BY DEF TypeOK
<1> QED BY <1>1, TypesOfText DEF Landing

LEMMA WriteTokenKeeps ==
  ASSUME CredInv, NEW a \in Actors, WriteToken(a)
  PROVE  CredInv'
<1>1. TypeOK /\ actor[a].at = "write" BY DEF CredInv, WriteToken
<1>2. Only(a) /\ Fit(a, actor'[a]) BY <1>1, SettlesMoves DEF WriteToken
<1>3. disk' \in [Files -> Text]
  <2>1. PICK text \in Landing(a) : disk' = [disk EXCEPT ![Target(a)] = text]
    BY DEF WriteToken
  <2>2. text \in Text BY <1>1, LandingIsText
  <2> QED BY <1>1, <2>1, <2>2, TargetIsFile DEF TypeOK
<1>4. kept' \in Kept
  <2>1. actor[a].hand.grant \in 0 .. MaxConsents BY <1>1 DEF TypeOK, Text
  <2>2. token_path_for(readonly(a)) \in {"rw", "ro"} BY DEF token_path_for
  <2>3. {b \in Actors : Refreshing(b) /\ Cache(b) = Target(a)} \in SUBSET Actors OBVIOUS
  <2> QED BY <1>1, <2>1, <2>2, <2>3 DEF WriteToken, TypeOK, Kept
<1>5. redirect' = redirect /\ revoked' = revoked /\ spent' = spent
  BY DEF WriteToken
<1> QED BY <1>1, <1>2, <1>3, <1>4, <1>5, OnlyOneMoves DEF TypeOK

LEMMA CallGoogleMoves ==
  ASSUME TypeOK, NEW a \in Actors, CallGoogle(a)
  PROVE  \E answer \in {actor[a].answer, "rejected", "acted", "credential_rejected", "ready",
                        "cached"} :
           /\ Moved(a, "idle", answer)
           /\ answer = "ready" /\ answer # actor[a].answer =>
                actor[a].hand.grant \notin revoked
<1>1. actor \in [Actors -> Activity] BY DEF TypeOK, Activity
<1>2. CASE a \in Tools
  <2>1. PICK what \in {"rejected", "acted"} : Answered(a, what) BY <1>2 DEF CallGoogle
  <2>2. Moved(a, "idle", what) BY <1>1, <2>1, AnsweredMoves DEF Answers
  <2> QED BY <2>2
<1>3. CASE a \notin Tools
  <2>1. PICK what \in {"credential_rejected", "ready", "cached"} :
          Concludes(a, what) /\ (what = "ready" => actor[a].hand.grant \notin revoked)
    BY <1>3 DEF CallGoogle
  <2>2. PICK answer \in {actor[a].answer, what} : Moved(a, "idle", answer)
    BY <1>1, <2>1, ConcludesMoves DEF Answers
  <2> QED BY <2>1, <2>2
<1> QED BY <1>2, <1>3

LEMMA CallGoogleKeeps ==
  ASSUME CredInv, NEW a \in Actors, CallGoogle(a)
  PROVE  CredInv'
<1>1. TypeOK BY DEF CredInv
<1>2. PICK answer : Moved(a, "idle", answer) BY <1>1, CallGoogleMoves
<1>3. Only(a) /\ Fit(a, actor'[a]) BY <1>2, MovedFits DEF Moved
<1>4. OnlyActs(a) BY <1>3 DEF OnlyActs, CallGoogle
<1> QED BY <1>3, <1>4, OnlyActsKeeps

LEMMA WriteFailsMoves ==
  ASSUME TypeOK, NEW a \in Actors, WriteFails(a)
  PROVE  \E answer \in {actor[a].answer, "cached", "error"} : Moved(a, "idle", answer)
<1>1. actor \in [Actors -> Activity] BY DEF TypeOK, Activity
<1>2. PICK what \in {"cached", "error"} : Concludes(a, what) BY DEF WriteFails
<1>3. PICK answer \in {actor[a].answer, what} : Moved(a, "idle", answer)
  BY <1>1, <1>2, ConcludesMoves DEF Answers
<1> QED BY <1>3

LEMMA WriteFailsKeeps ==
  ASSUME CredInv, NEW a \in Actors, WriteFails(a)
  PROVE  CredInv'
<1>1. TypeOK BY DEF CredInv
<1>2. PICK answer : Moved(a, "idle", answer) BY <1>1, WriteFailsMoves
<1>3. Only(a) /\ Fit(a, actor'[a]) BY <1>2, MovedFits DEF Moved
<1>4. /\ spent' \in [{"consents", "expiries", "revocations", "faults", "calls"} -> Nat]
      /\ spent'.consents <= MaxConsents
  BY <1>1, Spent DEF WriteFails
<1>5. disk' = disk /\ redirect' = redirect /\ revoked' = revoked /\ kept' = kept
  BY DEF WriteFails
<1> QED BY <1>1, <1>3, <1>4, <1>5, OnlyOneMoves DEF TypeOK

LEMMA ExpireKeeps ==
  ASSUME CredInv, NEW path \in Files, Expire(path)
  PROVE  CredInv'
<1>1. TypeOK BY DEF CredInv
<1>2. disk' \in [Files -> Text]
  <2>1. disk[path] \in Text BY <1>1 DEF TypeOK
  <2>2. PICK t : t = [disk[path] EXCEPT !.fresh = FALSE] OBVIOUS
  <2>3. t \in Text BY <2>1, <2>2, TypesOfText
  <2>4. disk' = [disk EXCEPT ![path] = t] BY <2>2 DEF Expire
  <2> QED BY <1>1, <2>3, <2>4 DEF TypeOK
<1>3. /\ spent' \in [{"consents", "expiries", "revocations", "faults", "calls"} -> Nat]
      /\ spent'.consents <= MaxConsents
  BY <1>1, Spent DEF Expire
<1>4. actor' = actor /\ redirect' = redirect /\ revoked' = revoked /\ kept' = kept
  BY DEF Expire
<1>5. TypeOK' BY <1>1, <1>2, <1>3, <1>4 DEF TypeOK
<1> QED BY <1>4, <1>5 DEF CredInv, Fit, Suits, readonly

LEMMA RevokeKeeps ==
  ASSUME CredInv, NEW g \in 0 .. MaxConsents, Revoke(g)
  PROVE  CredInv'
<1>1. TypeOK BY DEF CredInv
<1>2. /\ spent' \in [{"consents", "expiries", "revocations", "faults", "calls"} -> Nat]
      /\ spent'.consents <= MaxConsents
  BY <1>1, Spent DEF Revoke
<1>3. revoked' \subseteq 0 .. MaxConsents BY <1>1 DEF Revoke, TypeOK
<1>4. disk' = disk /\ actor' = actor /\ redirect' = redirect /\ kept' = kept
  BY DEF Revoke
<1>5. TypeOK' BY <1>1, <1>2, <1>3, <1>4 DEF TypeOK
<1> QED BY <1>4, <1>5 DEF CredInv, Fit, Suits, readonly

LEMMA CrashKeeps ==
  ASSUME CredInv, NEW p, Crash(p)
  PROVE  CredInv'
<1>1. TypeOK BY DEF CredInv
<1>2. /\ spent' \in [{"consents", "expiries", "revocations", "faults", "calls"} -> Nat]
      /\ spent'.consents <= MaxConsents
  BY <1>1, Spent DEF Crash
<1>3. actor' = [a \in Actors |-> IF Process[a] = p THEN Idle ELSE actor[a]]
      /\ disk' = disk /\ redirect' = redirect /\ revoked' = revoked /\ kept' = kept
  BY DEF Crash
<1>4. actor \in [Actors -> Activity] BY <1>1 DEF TypeOK, Activity
<1>5. actor' \in [Actors -> Activity] BY <1>3, <1>4, IdleActivity
<1>6. TypeOK' BY <1>1, <1>2, <1>3, <1>5 DEF TypeOK, Activity
<1>7. ASSUME NEW a \in Actors PROVE Fit(a, actor'[a])
  <2>1. actor'[a] \in {Idle, actor[a]} BY <1>3
  <2>2. Fit(a, Idle) BY IdleActivity DEF Fit
  <2> QED BY <2>1, <2>2 DEF CredInv
<1> QED BY <1>6, <1>7 DEF CredInv, Fit, Suits, readonly

\* At the start everybody is idle and the files hold what earlier logins left.
LEMMA InitCred == Init => CredInv
<1> SUFFICES ASSUME Init PROVE CredInv OBVIOUS
<1>1. disk \in [Files -> Text]
  <2>1. disk \in [Files -> OldTokens \cup {None}] BY DEF Init
  <2> QED BY <2>1, OldTokensAssumption, TypesOfText
<1>2. actor \in [Actors -> Activity] BY IdleActivity DEF Init
<1>3. \A a \in Actors : Fit(a, actor[a]) BY IdleActivity DEF Init, Fit
<1>4. redirect \in Redirects
  <2>1. redirect = [a \in Actors |-> "none"] BY DEF Init
  <2>2. redirect \in [Actors -> {"none", "stray", "code", "cancel"}] BY <2>1
  <2>3. \A a \in Authenticators : redirect[a] # "stray" BY <2>1 DEF Actors
  <2> QED BY <2>2, <2>3 DEF Redirects
<1>5. kept \in Kept BY CredentialsAssumption DEF Init, Kept
<1>6. spent \in [{"consents", "expiries", "revocations", "faults", "calls"} -> Nat]
      /\ spent.consents <= MaxConsents
  BY CredentialsAssumption DEF Init
<1>7. revoked \subseteq 0 .. MaxConsents BY DEF Init
<1> QED BY <1>1, <1>2, <1>3, <1>4, <1>5, <1>6, <1>7 DEF CredInv, TypeOK, Activity

LEMMA CredNext == CredInv /\ [Next]_vars => CredInv'
<1> SUFFICES ASSUME CredInv, [Next]_vars PROVE CredInv' OBVIOUS
<1>1. CASE UNCHANGED vars
  BY <1>1 DEF vars, CredInv, TypeOK, Fit, Suits, readonly
<1>2. CASE Next
  BY <1>2, CallToolKeeps, StatusTimeoutKeeps, ElicitKeeps, AskStatusKeeps, BeginConsentKeeps,
     HearKeeps, LoadCachedKeeps, ReloadKeeps, RefreshKeeps, WaitOverKeeps, ExchangeKeeps,
     OpenTokenKeeps, WriteTokenKeeps, CallGoogleKeeps, WriteFailsKeeps, ExpireKeeps, RevokeKeeps,
     CrashKeeps, Zenon DEF Next, Runs
<1> QED BY <1>1, <1>2

\* The invariant the theorems below rest on.
THEOREM CredentialsInvariant == Spec => []CredInv
  BY InitCred, CredNext, PTL DEF Spec

\* The variables keep their types.
THEOREM TypesKept == Spec => []TypeOK
<1>1. CredInv => TypeOK BY DEF CredInv
<1> QED BY <1>1, CredentialsInvariant, PTL

\* A process configured read-only calls Google only with a credential that can read and
\* nothing else, whatever put the token into the file it reads: an older login, a
\* consent, a refresh (auth.py:142-161, #185, #327).
THEOREM ReadOnlyStaysReadOnly == Spec => []ReadOnlyHoldsNoWrite
<1>1. CredInv => ReadOnlyHoldsNoWrite
  <2> SUFFICES ASSUME CredInv, NEW a \in ReadOnly, actor[a].at = "call"
               PROVE  /\ actor[a].hand.scopes # {}
                      /\ actor[a].hand.scopes \subseteq {"read", "labels"}
    BY DEF ReadOnlyHoldsNoWrite
  <2>1. a \in Actors /\ readonly(a) BY CredentialsAssumption DEF readonly
  <2>2. Suits(a, actor[a].hand) BY <2>1 DEF CredInv, Fit
  <2> QED BY <2>1, <2>2 DEF Suits, scopes_for
<1> QED BY <1>1, CredentialsInvariant, PTL

-----------------------------------------------------------------------------
(* What a step may do to a file. *)

\* A file changes when its token ages, or when somebody empties or fills it.
LEMMA StepsOnFiles ==
  ASSUME [Next]_vars, disk' # disk
  PROVE  \/ \E path \in Files : Expire(path)
         \/ \E a \in Actors : OpenToken(a) \/ WriteToken(a)
<1>1. Next BY DEF vars
<1>2. ASSUME NEW a \in Actors
      PROVE  /\ ~CallTool(a) /\ ~StatusTimeout(a) /\ ~Elicit(a) /\ ~LoadCached(a) /\ ~Reload(a)
             /\ ~Refresh(a) /\ ~WaitOver(a) /\ ~Exchange(a) /\ ~CallGoogle(a) /\ ~WriteFails(a)
             /\ \A retired \in BOOLEAN : ~AskStatus(a, retired)
             /\ \A force \in BOOLEAN : ~BeginConsent(a, force)
             /\ \A request \in {"stray", "code", "cancel"} : ~Hear(a, request)
  BY DEF CallTool, StatusTimeout, Elicit, LoadCached, Reload, Refresh, WaitOver, Exchange,
         CallGoogle, WriteFails, AskStatus, BeginConsent, Hear
<1>3. \A g \in 0 .. MaxConsents : ~Revoke(g) BY DEF Revoke
<1>4. \A p : ~Crash(p) BY DEF Crash
<1> QED BY <1>1, <1>2, <1>3, <1>4, Zenon DEF Next, Runs

LEMMA ExpireAges ==
  ASSUME TypeOK, NEW path \in Files, Expire(path)
  PROVE  /\ HasToken(path) /\ disk'[path] = [disk[path] EXCEPT !.fresh = FALSE]
         /\ \A f \in Files \ {path} : disk'[f] = disk[f]
  BY DEF Expire, TypeOK

\* Emptying and filling touch one file only, the one the actor aims at.
LEMMA WritersAim ==
  ASSUME TypeOK, NEW a \in Actors, OpenToken(a) \/ WriteToken(a)
  PROVE  /\ actor[a].at \in {"open", "write"}
         /\ \A f \in Files : disk'[f] # disk[f] => f = Target(a)
<1>1. ASSUME NEW text, disk' = [disk EXCEPT ![Target(a)] = text]
      PROVE  \A f \in Files : disk'[f] # disk[f] => f = Target(a)
  BY <1>1, TargetIsFile DEF TypeOK
<1>2. CASE OpenToken(a) BY <1>1, <1>2 DEF OpenToken
<1>3. CASE WriteToken(a) BY <1>1, <1>3 DEF WriteToken
<1> QED BY <1>2, <1>3

LEMMA RefusalKeeps ==
  ASSUME CredInv, [Next]_vars
  PROVE  \A f \in Files :
           HasToken(f) /\ disk'[f] # disk[f] =>
             \/ disk'[f] = [disk[f] EXCEPT !.fresh = FALSE]
             \/ \E a \in Actors : /\ actor[a].at \in {"open", "write"} /\ Target(a) = f
                                  /\ Usable(actor[a].hand, a)
<1> SUFFICES ASSUME NEW f \in Files, disk'[f] # disk[f]
             PROVE  \/ disk'[f] = [disk[f] EXCEPT !.fresh = FALSE]
                    \/ \E a \in Actors : /\ actor[a].at \in {"open", "write"} /\ Target(a) = f
                                         /\ Usable(actor[a].hand, a)
  OBVIOUS
<1>1. TypeOK BY DEF CredInv
<1>2. ASSUME NEW path \in Files, Expire(path)
      PROVE  disk'[f] = [disk[f] EXCEPT !.fresh = FALSE]
  BY <1>1, <1>2, ExpireAges
<1>3. ASSUME NEW a \in Actors, OpenToken(a) \/ WriteToken(a)
      PROVE  /\ actor[a].at \in {"open", "write"} /\ Target(a) = f
             /\ Usable(actor[a].hand, a)
  BY <1>1, <1>3, WritersAim DEF CredInv, Fit, Suits, Usable
<1> QED BY <1>2, <1>3, StepsOnFiles

\* The two cache names differ wherever they are looked for.
LEMMA ReadOnlyAimsElsewhere ==
  ASSUME NEW a \in ReadOnly
  PROVE  Target(a) # Shared("rw")
<1>1. token_path_for(readonly(a)) = "ro" BY DEF token_path_for, readonly
<1> QED BY <1>1 DEF Target, ConsentPath, Cache, expanduser, unexpanded, Shared

LEMMA WriteTokenKept ==
  ASSUME CredInv, [Next]_vars, disk'[Shared("rw")] # disk[Shared("rw")]
  PROVE  \/ /\ HasToken(Shared("rw"))
            /\ disk'[Shared("rw")] = [disk[Shared("rw")] EXCEPT !.fresh = FALSE]
         \/ \E a \in Actors \ ReadOnly : actor[a].at \in {"open", "write"}
<1> DEFINE f == Shared("rw")
<1>1. f \in Files /\ TypeOK BY DEF Shared, Files, CredInv
<1>2. ASSUME NEW path \in Files, Expire(path)
      PROVE  HasToken(f) /\ disk'[f] = [disk[f] EXCEPT !.fresh = FALSE]
  BY <1>1, <1>2, ExpireAges
<1>3. ASSUME NEW a \in Actors, OpenToken(a) \/ WriteToken(a)
      PROVE  a \notin ReadOnly /\ actor[a].at \in {"open", "write"}
  BY <1>1, <1>3, WritersAim, ReadOnlyAimsElsewhere
<1> QED BY <1>2, <1>3, StepsOnFiles

\* Nobody who did not mean to loses a token: a file loses it only to an actor that
\* already holds a fresh one with every scope it needs, and a read-only process never
\* touches the read-write file (auth.py:142-161, 507-513).
THEOREM TokensAreKept == Spec => NoTokenIsLost
<1>1. CredInv /\ [Next]_vars =>
        \A f \in Files :
           HasToken(f) /\ disk'[f] # disk[f] =>
             \/ disk'[f] = [disk[f] EXCEPT !.fresh = FALSE]
             \/ \E a \in Actors : /\ actor[a].at \in {"open", "write"} /\ Target(a) = f
                                  /\ Usable(actor[a].hand, a)
  BY RefusalKeeps
<1>2. CredInv /\ [Next]_vars =>
        (disk'[Shared("rw")] # disk[Shared("rw")] =>
           \/ /\ HasToken(Shared("rw"))
              /\ disk'[Shared("rw")] = [disk[Shared("rw")] EXCEPT !.fresh = FALSE]
           \/ \E a \in Actors \ ReadOnly : actor[a].at \in {"open", "write"})
  BY WriteTokenKept
<1> QED
  BY <1>1, <1>2, CredentialsInvariant, PTL
     DEF Spec, NoTokenIsLost, RefusalKeepsTheToken, WriteTokenLeftUntouched

-----------------------------------------------------------------------------
(* What a step may make of an answer. *)

LEMMA StatusOnly == \A a \in Statuses : a \in Actors /\ a \notin Tools /\ a \notin Authenticators
                                        /\ a \notin Logins
  BY CredentialsAssumption DEF Actors

\* Only asking gives a local verdict, and only the call to Google gives "ready".
Asides == {"none", "cached", "credential_rejected", "authorized", "error", "declined",
           "timed_out"}

LEMMA StatusSteps ==
  ASSUME CredInv, [Next]_vars, NEW s \in Statuses,
         actor'[s].answer # actor[s].answer, actor'[s].answer \notin Asides
  PROVE  CallGoogle(s) \/ \E retired \in BOOLEAN : AskStatus(s, retired)
<1>1. /\ TypeOK /\ s \in Actors /\ actor' # actor /\ actor \in [Actors -> Activity]
      /\ s \notin Tools /\ s \notin Authenticators /\ s \notin Logins
  BY StatusOnly DEF CredInv, TypeOK, Activity
<1>2. Next BY <1>1 DEF vars
<1>3. ASSUME NEW a \in Actors, Only(a) PROVE a = s
  BY <1>1, <1>3 DEF Only
<1>4. ASSUME NEW a \in Actors, NEW place, NEW answer, Moved(a, place, answer)
      PROVE  answer # actor[s].answer /\ answer \notin Asides /\ a = s
  BY <1>1, <1>3, <1>4 DEF Moved
<1>5. ASSUME NEW a \in Actors, NotAuthorized(a) PROVE FALSE
  BY <1>1, <1>4, <1>5, NotAuthorizedMoves DEF Asides
<1>6. ASSUME NEW a \in Actors, NEW hand \in Text, HasCredential(a, hand) PROVE FALSE
  BY <1>1, <1>3, <1>6, HasCredentialMoves
<1>7. ASSUME NEW a \in Actors, NEW place \in Places, NEW hand \in Text,
             GoesWith(a, place, hand)
      PROVE  FALSE
  BY <1>1, <1>3, <1>7, GoesWithMoves
<1>8. ASSUME NEW a \in Actors, NEW place \in Places, Goes(a, place) PROVE FALSE
  BY <1>1, <1>3, <1>4, <1>8, GoesMoves
<1>9. ASSUME NEW a \in Actors, NEW what \in Asides \cup {"acted"}, Answered(a, what)
      PROVE  what = "acted" /\ a = s
  BY <1>1, <1>4, <1>9, AnsweredMoves DEF Asides, Answers
<1>10. ASSUME NEW a \in Actors PROVE ~CallTool(a) /\ ~StatusTimeout(a)
  <2>1. ASSUME CallTool(a) PROVE FALSE
    <3>1. actor' = [actor EXCEPT ![a].at = IF actor[a].cached THEN "call" ELSE "load",
                                 ![a].answer = "none"] /\ a # s
      BY <1>1, <2>1 DEF CallTool
    <3> QED BY <1>1, <3>1
  <2>2. ASSUME StatusTimeout(a) PROVE FALSE
    BY <1>1, <2>2 DEF StatusTimeout, Asides, Activity
  <2> QED BY <2>1, <2>2
<1>11. ASSUME NEW a \in Actors, NEW force \in BOOLEAN PROVE ~BeginConsent(a, force)
  BY <1>1 DEF BeginConsent
<1>12. ASSUME NEW a \in Actors PROVE ~Elicit(a) /\ ~WaitOver(a)
  <2>1. {"wait", "exchange"} \subseteq Places /\ {"error", "declined", "timed_out"} \subseteq Asides
    BY DEF Places, Asides
  <2> QED BY <1>8, <1>9, <2>1 DEF Elicit, WaitOver
<1>13. ASSUME NEW a \in Actors PROVE ~LoadCached(a) /\ ~Reload(a) /\ ~Refresh(a)
  <2>1. disk[Cache(a)] \in Text
    BY <1>1 DEF TypeOK, Cache, expanduser, token_path_for, Files
  <2>2. {"refresh", "open", "elicit"} \subseteq Places /\ {"error", "authorized"} \subseteq Asides
    BY DEF Places, Asides
  <2>3. ~LoadCached(a) BY <1>5, <1>6, <1>7, <2>1, <2>2 DEF LoadCached
  <2>4. ~Reload(a) BY <1>7, <1>8, <1>9, <2>1, <2>2 DEF Reload
  <2>5. [actor[a].hand EXCEPT !.fresh = TRUE] \in Text
    BY <1>1, TypesOfText DEF Activity
  <2>6. ~Refresh(a) BY <1>5, <1>7, <1>9, <2>2, <2>5 DEF Refresh
  <2> QED BY <2>3, <2>4, <2>6
<1>14. ASSUME NEW a \in Actors PROVE ~Exchange(a) /\ ~OpenToken(a)
  <2>1. ~Exchange(a) BY <1>1, <1>3, <1>4, ExchangeMoves DEF Asides
  <2>2. ~OpenToken(a) BY <1>1, <1>4, OpenTokenMoves
  <2> QED BY <2>1, <2>2
<1>15. ASSUME NEW a \in Actors PROVE ~WriteToken(a)
  BY <1>1, <1>3, SettlesMoves DEF WriteToken, Asides
<1>16. ASSUME NEW a \in Actors PROVE ~WriteFails(a)
  BY <1>1, <1>4, WriteFailsMoves DEF Asides
<1>17. \A p : ~Crash(p)
  BY <1>1, IdleActivity DEF Crash, Asides
<1>18. /\ \A a \in Actors, request \in {"stray", "code", "cancel"} : ~Hear(a, request)
       /\ \A path \in Files : ~Expire(path)
       /\ \A g \in 0 .. MaxConsents : ~Revoke(g)
  BY <1>1 DEF Hear, Expire, Revoke
<1>19. \A a \in Actors : CallGoogle(a) => a = s
  BY <1>1, <1>4, CallGoogleMoves
<1>20. \A a \in Actors, retired \in BOOLEAN : AskStatus(a, retired) => a = s
  BY <1>1, <1>3, AskStatusMoves
<1> QED
  BY <1>2, <1>10, <1>11, <1>12, <1>13, <1>14, <1>15, <1>16, <1>17, <1>18, <1>19, <1>20, Zenon
     DEF Next, Runs

\* auth_status answers "ready" only when a call to Google with the credential in
\* hand has gone well.
LEMMA ReadyTrue ==
  ASSUME CredInv, [Next]_vars, NEW s \in Statuses, actor[s].answer # "ready",
         actor'[s].answer = "ready"
  PROVE  /\ actor[s].hand.grant \notin revoked
         /\ scopes_for(readonly(s)) \subseteq actor[s].hand.scopes
<1>1. TypeOK /\ s \in Actors BY StatusOnly DEF CredInv
<1>2. ~AskStatus(s, TRUE) /\ ~AskStatus(s, FALSE) BY <1>1, AskStatusMoves
<1>3. CallGoogle(s) BY <1>2, StatusSteps DEF Asides
<1>4. PICK answer : /\ Moved(s, "idle", answer)
                    /\ answer = "ready" /\ answer # actor[s].answer =>
                         actor[s].hand.grant \notin revoked
  BY <1>1, <1>3, CallGoogleMoves
<1>5. actor[s].hand.grant \notin revoked BY <1>4 DEF Moved
<1>6. Suits(s, actor[s].hand) BY <1>1, <1>3 DEF CallGoogle, CredInv, Fit
<1> QED BY <1>5, <1>6 DEF Suits

\* What it says without asking Google it says of the file the server would read.
LEMMA NoCredentialTrue ==
  ASSUME CredInv, [Next]_vars, NEW s \in Statuses, actor[s].answer = "none",
         actor'[s].answer \in {"no_credential", "scope_short"}
  PROVE  \/ ~HasToken(Cache(s))
         \/ ~(scopes_for(readonly(s)) \subseteq disk[Cache(s)].scopes)
         \/ readonly(s) /\ ~(disk[Cache(s)].scopes \subseteq {"read", "labels"})
<1>1. TypeOK /\ s \in Actors BY StatusOnly DEF CredInv
<1>2. ~CallGoogle(s) BY <1>1, CallGoogleMoves DEF Moved
<1>3. PICK retired \in BOOLEAN : AskStatus(s, retired) BY <1>2, StatusSteps DEF Asides
<1>4. LocalVerdict(s, retired) \in {"no_credential", "scope_short"}
  BY <1>1, <1>3, AskStatusMoves
<1>5. read_cached(Cache(s), readonly(s)) # "usable" BY <1>4 DEF LocalVerdict
<1> SUFFICES ASSUME HasToken(Cache(s)), scopes_for(readonly(s)) \subseteq disk[Cache(s)].scopes
             PROVE  readonly(s) /\ ~(disk[Cache(s)].scopes \subseteq {"read", "labels"})
  OBVIOUS
<1>6. readonly(s) /\ has_write_scope(disk[Cache(s)].scopes) BY <1>5 DEF read_cached, HasToken
<1> QED BY <1>6 DEF has_write_scope, scopes_for

\* What auth_status says is so: "ready" of a credential Google has just accepted and
\* that has every scope asked for, "no_credential" and "scope_short" of a file with no
\* token this posture could use (mcp/_tools/auth.py:103-117, 164-186).
THEOREM StatusToldTruly == Spec => StatusIsTrue
<1>1. CredInv /\ [Next]_vars =>
        \A a \in Statuses :
          actor[a].answer # "ready" /\ actor'[a].answer = "ready" =>
            /\ actor[a].hand.grant \notin revoked
            /\ scopes_for(readonly(a)) \subseteq actor[a].hand.scopes
  BY ReadyTrue
<1>2. CredInv /\ [Next]_vars =>
        \A a \in Statuses :
          /\ actor[a].answer = "none"
          /\ actor'[a].answer \in {"no_credential", "scope_short"}
          => \/ ~HasToken(Cache(a))
             \/ ~(scopes_for(readonly(a)) \subseteq disk[Cache(a)].scopes)
             \/ readonly(a) /\ ~(disk[Cache(a)].scopes \subseteq {"read", "labels"})
  BY NoCredentialTrue
<1> QED
  BY <1>1, <1>2, CredentialsInvariant, PTL
     DEF Spec, StatusIsTrue, ReadyWasTrue, NoCredentialMeansNone

-----------------------------------------------------------------------------
(* The end of a consent. *)

Acts(a) ==
  \/ CallTool(a) \/ StatusTimeout(a) \/ Elicit(a)
  \/ \E retired \in BOOLEAN : AskStatus(a, retired)
  \/ \E force \in BOOLEAN : BeginConsent(a, force)
  \/ \E request \in {"stray", "code", "cancel"} : Hear(a, request)
  \/ Runs(a) \/ WriteFails(a)

\* What an actor does concerns its own activity.
LEMMA OthersRest ==
  ASSUME CredInv, NEW a \in Actors, NEW b \in Actors, b # a, Acts(b)
  PROVE  actor'[a] = actor[a]
<1>1. TypeOK /\ actor \in [Actors -> Activity] BY DEF CredInv, TypeOK, Activity
<1>2. ASSUME NEW r, actor' = [actor EXCEPT ![b] = r] PROVE actor'[a] = actor[a]
  BY <1>1, <1>2
<1>3. Only(b) => actor'[a] = actor[a] BY DEF Only
<1>4. \A place, answer : Moved(b, place, answer) => Only(b) BY DEF Moved
<1>5. \A place \in Places : Goes(b, place) => Only(b) BY <1>1, <1>4, GoesMoves
<1>6. \A what \in Answers : Answered(b, what) => Only(b) BY <1>1, <1>4, AnsweredMoves
<1>7. NotAuthorized(b) => Only(b) BY <1>1, <1>4, NotAuthorizedMoves
<1>8. \A hand \in Text : HasCredential(b, hand) => Only(b) BY <1>1, HasCredentialMoves
<1>9. \A place \in Places, hand \in Text : GoesWith(b, place, hand) => Only(b)
  BY <1>1, GoesWithMoves
<1>10. disk[Cache(b)] \in Text /\ [actor[b].hand EXCEPT !.fresh = TRUE] \in Text
  <2>1. disk[Cache(b)] \in Text
    BY <1>1 DEF TypeOK, Cache, expanduser, token_path_for, Files
  <2> QED BY <1>1, <2>1, TypesOfText DEF Activity
<1>11. {"refresh", "open", "elicit", "wait", "exchange"} \subseteq Places
       /\ {"error", "authorized", "declined", "timed_out"} \subseteq Answers
  BY DEF Places, Answers
<1>12. CASE CallTool(b) \/ StatusTimeout(b)
  BY <1>1, <1>12 DEF CallTool, StatusTimeout
<1>13. CASE Elicit(b) BY <1>3, <1>5, <1>6, <1>11, <1>13 DEF Elicit
<1>14. CASE \E retired \in BOOLEAN : AskStatus(b, retired) BY <1>1, <1>3, <1>14, AskStatusMoves
<1>15. CASE \E force \in BOOLEAN : BeginConsent(b, force)
  BY <1>1, <1>15 DEF BeginConsent
<1>16. CASE \E request \in {"stray", "code", "cancel"} : Hear(b, request)
  BY <1>16 DEF Hear
<1>17. CASE LoadCached(b) \/ Reload(b) \/ Refresh(b)
  <2>1. CASE LoadCached(b) BY <1>3, <1>7, <1>8, <1>9, <1>10, <1>11, <2>1 DEF LoadCached
  <2>2. CASE Reload(b) BY <1>3, <1>5, <1>6, <1>9, <1>10, <1>11, <2>2 DEF Reload
  <2>3. CASE Refresh(b) BY <1>3, <1>6, <1>7, <1>9, <1>10, <1>11, <2>3 DEF Refresh
  <2> QED BY <1>17, <2>1, <2>2, <2>3
<1>18. CASE WaitOver(b) BY <1>3, <1>5, <1>6, <1>11, <1>18 DEF WaitOver
<1>19. CASE Exchange(b) BY <1>1, <1>3, <1>4, <1>19, ExchangeMoves
<1>20. CASE OpenToken(b) BY <1>1, <1>3, <1>4, <1>20, OpenTokenMoves
<1>21. CASE WriteToken(b) BY <1>3, <1>21, SettlesMoves DEF WriteToken
<1>22. CASE CallGoogle(b) BY <1>1, <1>3, <1>4, <1>22, CallGoogleMoves
<1>23. CASE WriteFails(b) BY <1>1, <1>3, <1>4, <1>23, WriteFailsMoves
<1> QED
  BY <1>12, <1>13, <1>14, <1>15, <1>16, <1>17, <1>18, <1>19, <1>20, <1>21, <1>22, <1>23
     DEF Acts, Runs

\* Whose activity changes has acted or has crashed.
LEMMA StepsOfOne ==
  ASSUME CredInv, [Next]_vars, NEW a \in Actors, actor'[a] # actor[a]
  PROVE  Acts(a) \/ actor'[a] = Idle
<1>1. Next BY DEF vars
<1>2. CASE \E b \in Actors : Acts(b) BY <1>2, OthersRest
<1>3. CASE \E p : Crash(p) BY <1>3 DEF Crash
<1>4. ~\E path \in Files : Expire(path) BY DEF Expire
<1>5. ~\E g \in 0 .. MaxConsents : Revoke(g) BY DEF Revoke
<1> QED BY <1>1, <1>2, <1>3, <1>4, <1>5, Zenon DEF Next, Acts

\* Only the redirect of the consent ends the wait of `authenticate` for it, whatever
\* else reaches its listener and in whatever order (_auth_flow.py:47-62).
THEOREM OnlyTheRedirectIsTaken == Spec => OnlyARedirectEndsTheWait
<1>1. CredInv /\ [Next]_vars =>
        \A a \in Authenticators :
          actor[a].at = "wait" /\ actor'[a].at = "exchange"
            => redirect[a] \in {"code", "cancel"}
  <2> SUFFICES ASSUME CredInv, [Next]_vars, NEW a \in Authenticators,
                      actor[a].at = "wait", actor'[a].at = "exchange"
               PROVE  redirect[a] \in {"code", "cancel"}
    OBVIOUS
  <2>1. TypeOK /\ actor \in [Actors -> Activity] /\ a \in Actors
    BY DEF CredInv, TypeOK, Activity, Actors
  <2>2. Acts(a) BY <2>1, StepsOfOne, IdleActivity
  <2>3. ~StatusTimeout(a) BY <2>1 DEF StatusTimeout, Activity
  <2>4. ~WriteFails(a) BY DEF WriteFails
  <2>5. /\ ~CallTool(a) /\ ~Elicit(a)
        /\ \A retired \in BOOLEAN : ~AskStatus(a, retired)
        /\ \A force \in BOOLEAN : ~BeginConsent(a, force)
        /\ \A request \in {"stray", "code", "cancel"} : ~Hear(a, request)
    BY DEF CallTool, Elicit, AskStatus, BeginConsent, Hear, MayBegin
  <2>6. WaitOver(a)
    BY <2>2, <2>3, <2>4, <2>5
       DEF Acts, Runs, LoadCached, Reload, Refresh, Exchange, OpenToken, WriteToken, CallGoogle
  <2>7. redirect[a] # "none" BY <2>1, <2>6, AnsweredMoves DEF WaitOver, Moved, Answers
  <2> QED BY <2>1, <2>7 DEF TypeOK, Redirects
<1> QED BY <1>1, CredentialsInvariant, PTL DEF Spec, OnlyARedirectEndsTheWait

-----------------------------------------------------------------------------
(* How long a consent stands. *)

\* Nobody holds an older token on the way back to a file whose consent met no race:
\* what is in the file, and in hand of everybody between its read and its write, is of
\* the newest grant.
RaceInv ==
  \A c \in {"rw", "ro"} : kept[c].racing = {} =>
    /\ HasToken(Shared(c)) => disk[Shared(c)].grant = kept[c].grant
    /\ \A b \in Actors :
         Refreshing(b) /\ Cache(b) = Shared(c) => actor[b].hand.grant = kept[c].grant

LEMMA RaceInit ==
  ASSUME \A t \in OldTokens : t.grant = 0, Init
  PROVE  RaceInv
<1>1. \A f \in Files : disk[f].grant = 0 BY DEF Init, None, No
<1>2. \A c \in {"rw", "ro"} : Shared(c) \in Files /\ kept[c].grant = 0 BY DEF Init, Shared, Files
<1>3. \A b \in Actors : ~Refreshing(b) BY IdleActivity DEF Init, Refreshing
<1> QED BY <1>1, <1>2, <1>3 DEF RaceInv

\* Whoever is between a read and a write after its step was there before it, with the
\* same grant, or has just read its file.
LEMMA RefreshingFrom ==
  ASSUME CredInv, NEW a \in Actors, Acts(a), Refreshing(a)'
  PROVE  \/ Refreshing(a) /\ actor'[a].hand.grant = actor[a].hand.grant
         \/ HasToken(Cache(a)) /\ actor'[a].hand = disk[Cache(a)]
<1>1. TypeOK /\ actor \in [Actors -> Activity] BY DEF CredInv, TypeOK, Activity
<1>2. actor'[a].at \in {"refresh", "open", "write"} /\ ~actor'[a].consented
  BY DEF Refreshing
<1> DEFINE Good == \/ Refreshing(a) /\ actor'[a].hand.grant = actor[a].hand.grant
                   \/ HasToken(Cache(a)) /\ actor'[a].hand = disk[Cache(a)]
<1>3. ASSUME NEW place, NEW answer, Moved(a, place, answer),
             place \in {"refresh", "open", "write"} =>
               actor[a].at \in {"refresh", "open", "write"}
      PROVE  Good
  BY <1>2, <1>3 DEF Moved, Refreshing
<1>4. ASSUME NEW what \in Answers, Answered(a, what) PROVE Good
  BY <1>1, <1>3, <1>4, AnsweredMoves
<1>5. ASSUME NEW place \in {"elicit", "wait", "exchange"}, Goes(a, place) PROVE Good
  <2>1. place \in Places BY DEF Places
  <2> QED BY <1>1, <1>3, <1>5, <2>1, GoesMoves
<1>6. {"error", "authorized", "declined", "timed_out"} \subseteq Answers BY DEF Answers
<1>7. CASE CallTool(a)
  <2>1. PICK place \in {"call", "load"} :
          actor' = [actor EXCEPT ![a].at = place, ![a].answer = "none"]
    BY <1>7 DEF CallTool
  <2> QED BY <1>1, <1>2, <2>1 DEF Activity
<1>8. CASE StatusTimeout(a) BY <1>1, <1>2, <1>8 DEF StatusTimeout, Activity, Refreshing
<1>9. CASE Elicit(a) BY <1>4, <1>5, <1>6, <1>9 DEF Elicit
<1>10. CASE \E retired \in BOOLEAN : AskStatus(a, retired)
  BY <1>1, <1>2, <1>10, AskStatusMoves
<1>11. CASE \E force \in BOOLEAN : BeginConsent(a, force)
  <2>1. PICK force \in BOOLEAN : BeginConsent(a, force) BY <1>11
  <2>2. PICK place : place = CASE ~force -> "load"
                               [] a \in Logins -> "reload"
                               [] OTHER -> "elicit"
    OBVIOUS
  <2>3. place \in {"load", "reload", "elicit"} BY <2>2
  <2>4. PICK r : r = [Idle EXCEPT !.force = force, !.at = place] OBVIOUS
  <2>5. r.at = place BY <2>4 DEF Idle
  <2>6. actor' = [actor EXCEPT ![a] = r] BY <2>1, <2>2, <2>4 DEF BeginConsent
  <2>7. actor'[a] = r BY <1>1, <2>6
  <2> QED BY <1>2, <2>3, <2>5, <2>7
<1>12. CASE \E request \in {"stray", "code", "cancel"} : Hear(a, request)
  BY <1>2, <1>12 DEF Hear, Refreshing
<1>13. ASSUME read_cached(Cache(a), readonly(a)) = "usable"
       PROVE  disk[Cache(a)] \in Text /\ HasToken(Cache(a))
  BY <1>1, <1>13, UsableSuits
<1>14. ASSUME read_cached(Cache(a), readonly(a)) = "usable",
              GoesWith(a, "refresh", disk[Cache(a)])
       PROVE  Good
  BY <1>1, <1>13, <1>14, GoesWithMoves DEF Places
<1>15. CASE LoadCached(a)
  <2>1. CASE read_cached(Cache(a), readonly(a)) # "usable"
    <3>1. NotAuthorized(a) BY <1>15, <2>1 DEF LoadCached
    <3> QED BY <1>1, <1>3, <3>1, NotAuthorizedMoves
  <2>2. CASE read_cached(Cache(a), readonly(a)) = "usable"
    <3>1. HasCredential(a, disk[Cache(a)]) \/ GoesWith(a, "refresh", disk[Cache(a)])
      BY <1>15, <2>2 DEF LoadCached
    <3> QED BY <1>1, <1>2, <1>13, <1>14, <2>2, <3>1, HasCredentialMoves
  <2> QED BY <2>1, <2>2
<1>16. CASE Reload(a)
  <2>1. read_cached(Cache(a), readonly(a)) \in
          {"none", "unreadable", "write_refused", "scope_short", "usable"}
    BY DEF read_cached
  <2>2. \/ Goes(a, "elicit") \/ Answered(a, "error") \/ Answered(a, "authorized")
        \/ /\ read_cached(Cache(a), readonly(a)) = "usable"
           /\ GoesWith(a, "refresh", disk[Cache(a)])
    BY <1>1, <1>16, <2>1 DEF Reload, Activity
  <2> QED BY <1>4, <1>5, <1>6, <1>14, <2>2
<1>17. CASE Refresh(a)
  <2>1. CASE GoesWith(a, "open", [actor[a].hand EXCEPT !.fresh = TRUE])
    <3>1. actor[a].hand \in Text BY <1>1 DEF Activity
    <3>2. PICK hand : hand = [actor[a].hand EXCEPT !.fresh = TRUE] OBVIOUS
    <3>3. hand.grant = actor[a].hand.grant BY <3>1, <3>2, Refreshed
    <3>4. hand \in Text BY <3>1, <3>2, TypesOfText
    <3>5. GoesWith(a, "open", hand) BY <2>1, <3>2
    <3>6. actor'[a].hand = hand /\ actor'[a].consented = actor[a].consented
      BY <1>1, <3>4, <3>5, GoesWithMoves DEF Places
    <3> QED BY <1>2, <1>17, <3>3, <3>6 DEF Refresh, Refreshing
  <2>2. CASE NotAuthorized(a) BY <1>1, <1>3, <2>2, NotAuthorizedMoves
  <2> QED BY <1>4, <1>6, <1>17, <2>1, <2>2 DEF Refresh
<1>18. CASE WaitOver(a) BY <1>4, <1>5, <1>6, <1>18 DEF WaitOver
<1>19. CASE Exchange(a) BY <1>1, <1>2, <1>3, <1>19, ExchangeMoves
<1>20. CASE OpenToken(a) BY <1>1, <1>3, <1>20, OpenTokenMoves DEF OpenToken
<1>21. CASE WriteToken(a) BY <1>2, <1>21, SettlesMoves DEF WriteToken
<1>22. CASE CallGoogle(a) BY <1>1, <1>3, <1>22, CallGoogleMoves
<1>23. CASE WriteFails(a) BY <1>1, <1>3, <1>23, WriteFailsMoves
<1> QED
  BY <1>7, <1>8, <1>9, <1>10, <1>11, <1>12, <1>15, <1>16, <1>17, <1>18, <1>19, <1>20,
     <1>21, <1>22, <1>23 DEF Acts, Runs

\* With an absolute path everybody aims at the file of its posture.
LEMMA AllAim ==
  ASSUME HasTilde = FALSE, NEW a \in Actors
  PROVE  /\ token_path_for(readonly(a)) \in {"rw", "ro"}
         /\ Target(a) = Shared(token_path_for(readonly(a))) /\ Cache(a) = Target(a)
  BY DEF Target, ConsentPath, Cache, expanduser, unexpanded, Shared, token_path_for

\* A completed consent is told from everything else.
Consents(a, c) ==
  WriteToken(a) /\ actor[a].consented /\ c = token_path_for(readonly(a))

LEMMA KeptSteps ==
  ASSUME CredInv, [Next]_vars, NEW c \in {"rw", "ro"},
         \A a \in Actors : ~Consents(a, c)
  PROVE  kept'[c] = kept[c]
<1>1. TypeOK BY DEF CredInv
<1>2. ASSUME NEW a \in Actors, WriteToken(a) PROVE kept'[c] = kept[c]
  BY <1>1, <1>2 DEF WriteToken, Consents, TypeOK, Kept
<1>3. ASSUME NEW a \in Actors, Acts(a), ~WriteToken(a) PROVE kept' = kept
  BY <1>3 DEF Acts, Runs, CallTool, StatusTimeout, Elicit, AskStatus, BeginConsent,
     Hear, LoadCached, Reload, Refresh, WaitOver, Exchange, OpenToken, CallGoogle, WriteFails
<1>4. \A g \in 0 .. MaxConsents : Revoke(g) => kept' = kept BY DEF Revoke
<1>5. \A p : Crash(p) => kept' = kept BY DEF Crash
<1>6. \A path \in Files : Expire(path) => kept' = kept BY DEF Expire
<1>7. kept' # kept => Next BY DEF vars
<1> QED BY <1>2, <1>3, <1>4, <1>5, <1>6, <1>7, Zenon DEF Next, Acts

\* What the file holds after a consent without a race stays of its grant.
LEMMA RaceFiles ==
  ASSUME HasTilde = FALSE, CredInv, RaceInv, [Next]_vars, NEW c \in {"rw", "ro"},
         kept'[c].racing = {}, disk'[Shared(c)].is = "token"
  PROVE  disk'[Shared(c)].grant = kept'[c].grant
<1>1. TypeOK /\ Shared(c) \in Files BY DEF CredInv, Shared, Files
<1>2. ASSUME NEW a \in Actors, Consents(a, c)
      PROVE  disk'[Shared(c)].grant = kept'[c].grant
  <2>1. Target(a) = Shared(c) BY <1>2, AllAim DEF Consents
  <2>2. kept'[c].grant = actor[a].hand.grant BY <1>1, <1>2 DEF Consents, WriteToken, TypeOK, Kept
  <2>3. PICK text \in Landing(a) : disk' = [disk EXCEPT ![Shared(c)] = text]
    BY <1>2, <2>1 DEF Consents, WriteToken
  <2>4. disk'[Shared(c)] = text BY <1>1, <2>3 DEF TypeOK
  <2>5. text \in {actor[a].hand, No("garbled")} BY <1>1, LandingIsText
  <2> QED BY <2>2, <2>4, <2>5 DEF No
<1>3. CASE \A a \in Actors : ~Consents(a, c)
  <2>1. kept'[c] = kept[c] BY <1>3, KeptSteps
  <2>2. /\ HasToken(Shared(c)) => disk[Shared(c)].grant = kept[c].grant
        /\ \A b \in Actors :
             Refreshing(b) /\ Cache(b) = Shared(c) => actor[b].hand.grant = kept[c].grant
    BY <2>1 DEF RaceInv
  <2>3. CASE disk'[Shared(c)] = disk[Shared(c)] BY <2>1, <2>2, <2>3 DEF HasToken
  <2>4. ASSUME NEW path \in Files, Expire(path), disk'[Shared(c)] # disk[Shared(c)]
        PROVE  disk'[Shared(c)].grant = kept'[c].grant
    <3>1. HasToken(Shared(c)) /\ disk'[Shared(c)] = [disk[Shared(c)] EXCEPT !.fresh = FALSE]
      BY <1>1, <2>4, ExpireAges
    <3>2. disk[Shared(c)] \in Text BY <1>1 DEF TypeOK
    <3> QED BY <2>1, <2>2, <3>1, <3>2, Refreshed
  <2>5. ASSUME NEW a \in Actors, OpenToken(a), disk'[Shared(c)] # disk[Shared(c)]
        PROVE  FALSE
    <3>1. Target(a) = Shared(c) BY <1>1, <2>5, WritersAim
    <3> QED BY <1>1, <2>5, <3>1 DEF OpenToken, No, TypeOK
  <2>6. ASSUME NEW a \in Actors, WriteToken(a), disk'[Shared(c)] # disk[Shared(c)]
        PROVE  disk'[Shared(c)].grant = kept'[c].grant
    <3>1. Target(a) = Shared(c) BY <1>1, <2>6, WritersAim
    <3>2. c = token_path_for(readonly(a))
      <4>1. PICK d : d = token_path_for(readonly(a)) OBVIOUS
      <4>2. Shared(d) = Shared(c) BY <3>1, <4>1, AllAim
      <4> QED BY <4>1, <4>2 DEF Shared
    <3>3. ~actor[a].consented BY <1>3, <2>6, <3>2 DEF Consents
    <3>4. actor[a].hand.grant = kept[c].grant
      BY <2>2, <2>6, <3>1, <3>3, AllAim DEF WriteToken, Refreshing
    <3>5. PICK text \in Landing(a) : disk' = [disk EXCEPT ![Shared(c)] = text]
      BY <2>6, <3>1 DEF WriteToken
    <3>6. disk'[Shared(c)] = text BY <1>1, <3>5 DEF TypeOK
    <3>7. text \in {actor[a].hand, No("garbled")} BY <1>1, LandingIsText
    <3> QED BY <2>1, <3>4, <3>6, <3>7 DEF No
  <2> QED BY <2>3, <2>4, <2>5, <2>6, StepsOnFiles
<1> QED BY <1>2, <1>3

\* Nobody comes by an older token once it is gone.
LEMMA RaceActors ==
  ASSUME HasTilde = FALSE, CredInv, RaceInv, [Next]_vars, NEW c \in {"rw", "ro"},
         kept'[c].racing = {}, NEW b \in Actors, Refreshing(b)', Cache(b) = Shared(c)
  PROVE  actor'[b].hand.grant = kept'[c].grant
<1>1. TypeOK BY DEF CredInv
<1>2. actor'[b].at \in {"refresh", "open", "write"} /\ ~actor'[b].consented
  BY DEF Refreshing
<1>3. actor'[b] # Idle BY <1>2, IdleActivity
<1>4. actor'[b] = actor[b] \/ Acts(b) BY <1>3, StepsOfOne
<1>5. ASSUME NEW a \in Actors, Consents(a, c) PROVE FALSE
  <2>1. Target(a) = Shared(c) BY <1>5, AllAim DEF Consents
  <2>2. kept'[c].racing = {x \in Actors : Refreshing(x) /\ Cache(x) = Target(a)}
    BY <1>1, <1>5 DEF Consents, WriteToken, TypeOK, Kept
  <2>3. ~Refreshing(b) BY <2>1, <2>2
  <2>4. CASE b = a BY <1>2, <1>5, <2>4, SettlesMoves DEF Consents, WriteToken
  <2>5. CASE b # a
    <3>1. Acts(a) BY <1>5 DEF Consents, Acts, Runs
    <3>2. actor'[b] = actor[b] BY <2>5, <3>1, OthersRest
    <3> QED BY <1>2, <2>3, <3>2 DEF Refreshing
  <2> QED BY <2>4, <2>5
<1>6. kept'[c] = kept[c] BY <1>5, KeptSteps
<1>7. /\ HasToken(Shared(c)) => disk[Shared(c)].grant = kept[c].grant
      /\ Refreshing(b) => actor[b].hand.grant = kept[c].grant
  BY <1>6 DEF RaceInv
<1>8. CASE actor'[b] = actor[b] BY <1>2, <1>6, <1>7, <1>8 DEF Refreshing
<1>9. CASE Acts(b) BY <1>6, <1>7, <1>9, RefreshingFrom
<1> QED BY <1>4, <1>8, <1>9

LEMMA RaceNext ==
  ASSUME HasTilde = FALSE, CredInv, RaceInv, [Next]_vars
  PROVE  RaceInv'
<1> SUFFICES ASSUME NEW c \in {"rw", "ro"}, kept'[c].racing = {}
             PROVE  /\ disk'[Shared(c)].is = "token" => disk'[Shared(c)].grant = kept'[c].grant
                    /\ \A b \in Actors :
                         Refreshing(b)' /\ Cache(b) = Shared(c) =>
                           actor'[b].hand.grant = kept'[c].grant
  BY DEF RaceInv, HasToken, Shared, Cache, expanduser, token_path_for, readonly
<1> QED BY RaceFiles, RaceActors

\* A consent is lost to nothing but a race with a refresh that had read the file before
\* it was written, whatever ages, fails, dies or is revoked before and after; that race
\* loses it: see the run lost_consent (auth.py:507-513, 556-572).
THEOREM ConsentsStand ==
  ASSUME HasTilde = FALSE, \A t \in OldTokens : t.grant = 0
  PROVE  Spec => []ConsentIsLostOnlyToARace
<1>1. Init => RaceInv BY RaceInit
<1>2. CredInv /\ RaceInv /\ [Next]_vars => RaceInv' BY RaceNext
<1>3. RaceInv => ConsentIsLostOnlyToARace BY DEF RaceInv, ConsentIsLostOnlyToARace
<1> QED BY <1>1, <1>2, <1>3, CredentialsInvariant, PTL DEF Spec
=============================================================================
