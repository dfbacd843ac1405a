----------------------- MODULE CredentialsProperties -----------------------
(***************************************************************************)
(* What the credential cache owes the people who use it.  The modules these*)
(* properties are about, and the lines, are in Credentials.tla.            *)
(***************************************************************************)
EXTENDS Credentials

Shared(c) == <<c, "home">>
SharedFiles == {Shared(c) : c \in {"rw", "ro"}}
Usable(t, a) == t.fresh /\ scopes_for(readonly(a)) \subseteq t.scopes

\* What a stray request leaves behind only a login can hold.
Redirects ==
  {r \in [Actors -> {"none", "stray", "code", "cancel"}] : \A a \in Authenticators : r[a] # "stray"}
Kept == [{"rw", "ro"} -> [grant : 0..MaxConsents, racing : SUBSET Actors]]

\* The types of the variables.
TypeOK ==
  /\ disk \in [Files -> Text]
  /\ actor \in [Actors -> [at : Places, force : BOOLEAN, answer : Answers, hand : Text,
                           consented : BOOLEAN, asked : BOOLEAN, cached : BOOLEAN]]
  /\ redirect \in Redirects
  /\ revoked \subseteq 0..MaxConsents
  /\ kept \in Kept
  /\ spent \in [{"consents", "expiries", "revocations", "faults", "calls"} -> Nat]
  /\ spent.consents <= MaxConsents

\* A cancelled, declined, failed or timed-out consent, and a refused refresh,
\* leave the token that was there (auth.py:507-513): a file loses its token only
\* to an actor that already holds a fresh one with every scope it needs.
RefusalKeepsTheToken ==
  [][\A f \in Files :
       HasToken(f) /\ disk'[f] # disk[f] =>
         \/ disk'[f] = [disk[f] EXCEPT !.fresh = FALSE]
         \/ \E a \in Actors : /\ actor[a].at \in {"open", "write"} /\ Target(a) = f
                              /\ Usable(actor[a].hand, a)]_vars

\* Only the redirect of the consent ends the wait of `authenticate` for it: a
\* favicon fetch or a scan that reaches the listener first costs nothing
\* (_auth_flow.py:47-62).  A `login` has no such listener, and its first request
\* ends its wait (mcp/_login.py:67-70).
OnlyARedirectEndsTheWait ==
  [][\A a \in Authenticators :
       actor[a].at = "wait" /\ actor'[a].at = "exchange"
         => redirect[a] \in {"code", "cancel"}]_vars

\* A process configured read-only never calls Google with a credential that can
\* write, however the token came to its file (auth.py:142-161, #185, #327).
ReadOnlyHoldsNoWrite ==
  \A a \in ReadOnly :
    actor[a].at = "call" =>
      /\ actor[a].hand.scopes # {}
      /\ actor[a].hand.scopes \subseteq {"read", "labels"}

\* Logging in read-only leaves the read-write token untouched (auth.py:156-161):
\* that file ages, and only actors that may write documents put anything in it.
WriteTokenLeftUntouched ==
  [][disk'[Shared("rw")] # disk[Shared("rw")] =>
       \/ HasToken(Shared("rw")) /\ disk'[Shared("rw")] = [disk[Shared("rw")] EXCEPT !.fresh = FALSE]
       \/ \E a \in Actors \ ReadOnly : actor[a].at \in {"open", "write"}]_vars

\* Every file that a read or write token is looked for in holds the newest
\* consent written to it: no refresh of an older token brings that one back.
ConsentStands ==
  \A c \in {"rw", "ro"} :
    HasToken(Shared(c)) => disk[Shared(c)].grant = kept[c].grant

\* A consent is lost to nothing but a race: an older grant is back in a file
\* only if, at the moment the consent was written, somebody was between reading
\* that file and writing it (auth.py:556-562).  Whoever begins later, however
\* long after and whatever ages, fails or dies, works from the consent.
ConsentIsLostOnlyToARace ==
  \A c \in {"rw", "ro"} :
    HasToken(Shared(c)) /\ kept[c].racing = {} => disk[Shared(c)].grant = kept[c].grant

\* When `authenticate` says "authorized", the token is in the file every client
\* of this posture reads (mcp/_tools/auth.py:269-275).
AuthorizedReachesTheSharedFile ==
  [][\A a \in Authenticators :
       actor[a].at = "write" /\ actor'[a].answer = "authorized"
         => disk'[Cache(a)] = actor[a].hand]_vars

\* "ready" is a claim that calls will work (mcp/_tools/auth.py:164-186): Google
\* has just accepted a credential that has every scope this posture needs.
ReadyWasTrue ==
  [][\A a \in Statuses :
       actor[a].answer # "ready" /\ actor'[a].answer = "ready" =>
         /\ actor[a].hand.grant \notin revoked
         /\ scopes_for(readonly(a)) \subseteq actor[a].hand.scopes]_vars

\* "no_credential" and "scope_short" are said of the file the server would read:
\* not where that file holds a token this posture could use (#490,
\* mcp/_tools/auth.py:103-117).
NoCredentialMeansNone ==
  [][\A a \in Statuses :
       /\ actor[a].answer = "none"
       /\ actor'[a].answer \in {"no_credential", "scope_short"}
       => \/ ~HasToken(Cache(a))
          \/ ~(scopes_for(readonly(a)) \subseteq disk[Cache(a)].scopes)
          \/ readonly(a) /\ ~(disk[Cache(a)].scopes \subseteq {"read", "labels"})]_vars

\* auth_status answers even when Google does not (mcp/_tools/auth.py:76-83).
StatusAnswers ==
  \A a \in Statuses :
    actor[a].at # "idle" /\ actor[a].answer = "none"
      ~> actor[a].at = "idle" \/ actor[a].answer # "none"

\* authenticate does not wait for ever for a browser tab nobody finishes
\* (mcp/_tools/auth.py:256-261).
WaitEnds ==
  \A a \in Authenticators : actor[a].at = "wait" ~> actor[a].at # "wait"

\* While nothing crashes and no write fails, a truncated file is filled again.
TruncationIsFilled ==
  \A f \in Files : disk[f].is = "empty" ~> disk[f].is # "empty"

-----------------------------------------------------------------------------
(* As the runs check them. *)

\* Nobody who did not mean to loses a token: neither to a consent that came to nothing
\* nor to a login of the other posture (auth.py:142-161, 507-513).
NoTokenIsLost == RefusalKeepsTheToken /\ WriteTokenLeftUntouched

\* What auth_status says is so (mcp/_tools/auth.py:103-117, 164-186).
StatusIsTrue == ReadyWasTrue /\ NoCredentialMeansNone

\* Every wait ends, the one for a consent by its redirect or by its timeout, and a file
\* left truncated is filled (_auth_flow.py:47-62, mcp/_tools/auth.py:76-83, 256-261).
WaitsEndAsTheyShould ==
  StatusAnswers /\ WaitEnds /\ TruncationIsFilled /\ OnlyARedirectEndsTheWait
=============================================================================
