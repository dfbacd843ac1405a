---------------------------- MODULE Credentials ----------------------------
(***************************************************************************)
(* The credential cache and everybody who reads or writes it: the worker   *)
(* threads that serve tool calls, each with a Workspace of its own         *)
(* (mcp/_config.py WorkspaceProvider), the `authenticate` and `auth_status`*)
(* tools (mcp/_tools/auth.py), the loopback listener the consent comes     *)
(* back on (mcp/_auth_flow.py) and the `login` command (mcp/_login.py).    *)
(* They share files (auth.py) and nothing else: no lock guards the cache,  *)
(* and a write truncates the file before it fills it.                      *)
(*                                                                         *)
(* A token is the grant it came from, its scopes, and whether its access   *)
(* token is still fresh.  "Another account" is just another grant.         *)
(***************************************************************************)
EXTENDS Naturals, FiniteSets

CONSTANTS
  Tools,           \* worker threads of the servers, serving tool calls
  Authenticators,  \* running `authenticate` calls
  Statuses,        \* `auth_status` calls, each verifying on a thread of its own
  Logins,          \* `login` commands in a terminal
  Process,         \* actor -> the operating-system process it lives in
  ReadOnly,        \* the actors whose process is configured read-only
  OldTokens,       \* what the cache files may hold at the start
  HasTilde,        \* the configured path begins with ~ (the default does)
  NamedReadOnly,   \* the configured path already ends in .readonly
  MaxConsents, MaxExpiries, MaxRevocations, MaxFaults, MaxCalls  \* bounds

Actors == Tools \cup Authenticators \cup Statuses \cup Logins

ASSUME CredentialsAssumption ==
  /\ \A a \in Tools : a \notin Authenticators \cup Statuses \cup Logins
  /\ \A a \in Authenticators : a \notin Statuses \cup Logins
  /\ \A a \in Statuses : a \notin Logins
  /\ ReadOnly \subseteq Actors
  /\ {HasTilde, NamedReadOnly} \subseteq BOOLEAN
  /\ {MaxConsents, MaxExpiries, MaxRevocations, MaxFaults, MaxCalls} \subseteq Nat

VARIABLES
  disk,      \* what each file holds
  actor,     \* the activity of each actor
  redirect,  \* what the loopback listener of an actor has answered with
  revoked,   \* grants Google no longer honours
  kept,      \* per cache the newest grant a completed consent has written, and who
             \* was then between the read and the write of an older one
  spent      \* how much of each bound is used up

vars == <<disk, actor, redirect, revoked, kept, spent>>

-----------------------------------------------------------------------------
(* Scopes, files and tokens. *)

Scope == {"read", "write", "labels"}

scopes_for(read_only) == IF read_only THEN {"read", "labels"} ELSE {"write", "labels"}

known_write_scope(granted) == granted = scopes_for(FALSE)

\* The question is "anything outside the read-only set", and no scopes at all
\* counts as yes.
has_write_scope(granted) ==
  granted = {} \/ ~(granted \subseteq scopes_for(TRUE))

\* What a file holds: a token, or nothing to make a credential of.
Text == [is : {"token", "absent", "empty", "garbled"},
         grant : 0..MaxConsents, scopes : SUBSET Scope, fresh : BOOLEAN]
No(what) == [is |-> what, grant |-> 0, scopes |-> {}, fresh |-> FALSE]
None == No("absent")
HasToken(f) == disk[f].is = "token"

\* The tokens there are at the start come from logins before.
ASSUME OldTokensAssumption == OldTokens \subseteq Text

readonly(a) == a \in ReadOnly

\* The cache of a posture; a configured path that is already the derived one
\* serves both postures.
token_path_for(read_only) == IF read_only \/ NamedReadOnly THEN "ro" ELSE "rw"

Files == {"rw", "ro"} \X {"home", "cwd"}
expanduser(cache) == <<cache, "home">>
unexpanded(cache) == <<cache, IF HasTilde THEN "cwd" ELSE "home">>

Cache(a) == expanduser(token_path_for(readonly(a)))

\* `authenticate` hands `finish` the path as configured.
ConsentPath(a) ==
  IF a \in Authenticators THEN unexpanded(token_path_for(readonly(a))) ELSE Cache(a)

\* What _read_cached makes of a file: the outcome, before any network call.
\* A caller that asks for the missing scopes gets them as an error of their
\* own; the interactive one gets "none" and goes on to ask for consent.
read_cached(path, read_only) ==
  CASE disk[path].is = "absent" -> "none"
    [] disk[path].is \in {"empty", "garbled"} -> "unreadable"
    [] OTHER ->
         CASE read_only /\ has_write_scope(disk[path].scopes) -> "write_refused"
           [] ~(scopes_for(read_only) \subseteq disk[path].scopes) -> "scope_short"
           [] OTHER -> "usable"

-----------------------------------------------------------------------------
(* The activity of an actor. *)

Idle == [at |-> "idle", force |-> FALSE, answer |-> "none", hand |-> None,
         consented |-> FALSE, asked |-> FALSE, cached |-> FALSE]

Places == {"idle", "load", "refresh", "reload", "elicit", "wait", "exchange",
           "open", "write", "call"}
Answers == {"none", "unauthorized", "acted", "rejected", "error",
            "already_authorized", "authorized", "declined", "timed_out",
            "no_credential", "scope_short", "client_retired", "cached", "ready",
            "credential_rejected"}

Goes(a, place) == actor' = [actor EXCEPT ![a].at = place]
GoesWith(a, place, hand) == actor' = [actor EXCEPT ![a].at = place, ![a].hand = hand]

\* An actor that has answered is idle.  What a thread keeps is its Workspace:
\* `cached` says that `hand` is the credential of the Workspace it built.
Answered(a, what) == actor' = [actor EXCEPT ![a].at = "idle", ![a].answer = what]

\* auth_status may have answered already when its verification thread ends.
Concludes(a, what) ==
  IF a \in Statuses /\ actor[a].answer # "none"
    THEN Goes(a, "idle")
    ELSE Answered(a, what)

Spend(what) == spent' = [spent EXCEPT ![what] = @ + 1]

\* What load_cached_credentials raising AuthError means to the one who called it.
NotAuthorized(a) ==
  CASE a \in Tools -> Answered(a, "unauthorized")
    [] a \in Authenticators -> Goes(a, "elicit")
    [] a \in Statuses -> Concludes(a, "credential_rejected")
    [] a \in Logins ->
         actor' = [actor EXCEPT ![a].at = "reload", ![a].asked = TRUE]

\* ... and what it means that it returned a credential.
HasCredential(a, hand) ==
  CASE a \in Tools ->
         actor' = [actor EXCEPT ![a].at = "call", ![a].hand = hand, ![a].cached = TRUE]
    [] a \in Statuses -> GoesWith(a, "call", hand)
    [] OTHER ->
         actor' = [actor EXCEPT ![a].at = "idle", ![a].hand = hand,
                                ![a].answer = "already_authorized"]

-----------------------------------------------------------------------------
(* Steps of an actor. *)

MayBegin(a) == actor[a].at = "idle" /\ spent.calls < MaxCalls

\* A tool call: the thread's own Workspace if it has one, else the cache.
CallTool(a) ==
  /\ a \in Tools /\ MayBegin(a)
  /\ actor' = [actor EXCEPT ![a].at = IF actor[a].cached THEN "call" ELSE "load",
                            ![a].answer = "none"]
  /\ Spend("calls")
  /\ UNCHANGED <<disk, redirect, revoked, kept>>

\* `authenticate` and `login`: with force the cache is not looked at.
BeginConsent(a, force) ==
  /\ a \in Authenticators \cup Logins /\ MayBegin(a)
  /\ actor' = [actor EXCEPT ![a] = [Idle EXCEPT !.force = force,
                 !.at = CASE ~force -> "load"
                          [] a \in Logins -> "reload"
                          [] OTHER -> "elicit"]]
  /\ Spend("calls")
  /\ UNCHANGED <<disk, redirect, revoked, kept>>

\* auth_status: the local verdict first; only a usable cache is then verified,
\* on a thread that has no Workspace yet.  `retired`: the OAuth client in use
\* belongs to a project migrated away from.
LocalVerdict(a, retired) ==
  IF retired THEN "client_retired"
  ELSE CASE read_cached(Cache(a), readonly(a)) = "usable" -> "usable"
         [] read_cached(Cache(a), readonly(a)) = "scope_short" -> "scope_short"
         [] OTHER -> "no_credential"

AskStatus(a, retired) ==
  /\ a \in Statuses /\ MayBegin(a)
  /\ actor' = [actor EXCEPT ![a] = IF LocalVerdict(a, retired) = "usable"
                                     THEN [Idle EXCEPT !.at = "load"]
                                     ELSE [Idle EXCEPT !.answer = LocalVerdict(a, retired)]]
  /\ Spend("calls")
  /\ UNCHANGED <<disk, redirect, revoked, kept>>

\* The bounded wait of _verify_live: the answer goes out, the thread goes on.
StatusTimeout(a) ==
  /\ a \in Statuses /\ actor[a].at # "idle" /\ actor[a].answer = "none"
  /\ actor' = [actor EXCEPT ![a].answer = "cached"]
  /\ UNCHANGED <<disk, redirect, revoked, kept, spent>>

\* load_cached_credentials up to the refresh.
LoadCached(a) ==
  /\ actor[a].at = "load"
  /\ IF read_cached(Cache(a), readonly(a)) # "usable"
       THEN NotAuthorized(a)
       ELSE IF disk[Cache(a)].fresh
              THEN HasCredential(a, disk[Cache(a)])
              ELSE GoesWith(a, "refresh", disk[Cache(a)])
  /\ UNCHANGED <<disk, redirect, revoked, kept, spent>>

\* load_credentials: forced, it goes straight to the browser.  Otherwise it
\* reads the cache again, and only "nothing there" and "scope short" lead to
\* the browser: any other refusal ends the command.
Reload(a) ==
  /\ actor[a].at = "reload"
  /\ CASE actor[a].force \/ read_cached(Cache(a), readonly(a)) \in {"none", "scope_short"} ->
            Goes(a, "elicit")
       [] ~actor[a].force /\ read_cached(Cache(a), readonly(a)) \in {"unreadable", "write_refused"} ->
            Answered(a, "error")
       [] OTHER ->
            IF disk[Cache(a)].fresh
              THEN Answered(a, "authorized")
              ELSE GoesWith(a, "refresh", disk[Cache(a)])
  /\ UNCHANGED <<disk, redirect, revoked, kept, spent>>

\* The refresh is a call to Google.  A revoked grant cannot be refreshed, and
\* the network may fail.  A login that refreshes after its second look at the
\* cache has nowhere to fall through to; `asked` marks that second look.
Refresh(a) ==
  /\ actor[a].at = "refresh"
  /\ \/ /\ actor[a].hand.grant \notin revoked
        /\ GoesWith(a, "open", [actor[a].hand EXCEPT !.fresh = TRUE])
     \/ IF a \in Logins /\ actor[a].asked
          THEN Answered(a, "error")
          ELSE NotAuthorized(a)
  /\ UNCHANGED <<disk, redirect, revoked, kept, spent>>

\* The consent question.  authenticate asks its client, which may not support
\* it or may say no (and without an OAuth client it cannot ask at all); login
\* opens the browser itself.
Elicit(a) ==
  /\ actor[a].at = "elicit"
  /\ \/ /\ Goes(a, "wait")
        /\ redirect' = [redirect EXCEPT ![a] = "none"]
     \/ /\ a \in Authenticators
        /\ \E what \in {"error", "declined"} : Answered(a, what)
        /\ UNCHANGED redirect
  /\ UNCHANGED <<disk, revoked, kept, spent>>

any_request(request) == TRUE

\* The server's own listener keeps what carries `state` and an answer, and
\* nothing else.
wanted(request) == request \in {"code", "cancel"}

\* In a terminal the OAuth library listens, for one request, and takes that.
Hear(a, request) ==
  /\ actor[a].at = "wait" /\ redirect[a] = "none"
  /\ redirect' = [redirect EXCEPT ![a] = IF a \in Logins \/ wanted(request) THEN request ELSE @]
  /\ UNCHANGED <<disk, actor, revoked, kept, spent>>

wait_forever(a) ==
  /\ actor[a].at = "wait"
  /\ redirect[a] # "none" /\ Goes(a, "exchange")
  /\ UNCHANGED <<disk, redirect, revoked, kept, spent>>

\* authenticate waits 300 seconds, login for as long as it takes.
WaitOver(a) ==
  /\ actor[a].at = "wait"
  /\ \/ redirect[a] # "none" /\ Goes(a, "exchange")
     \/ redirect[a] = "none" /\ a \in Authenticators /\ Answered(a, "timed_out")
  /\ UNCHANGED <<disk, redirect, revoked, kept, spent>>

write_anyway(a) ==
  /\ actor[a].at = "exchange"
  /\ \/ /\ redirect[a] = "code" /\ spent.consents < MaxConsents
        /\ actor' = [actor EXCEPT ![a].at = "open", ![a].consented = TRUE,
                       ![a].hand = [is |-> "token", grant |-> spent.consents + 1, fresh |-> TRUE,
                                    scopes |-> scopes_for(readonly(a))]]
        /\ Spend("consents")
     \/ /\ Goes(a, "open")
        /\ UNCHANGED spent
  /\ UNCHANGED <<disk, redirect, revoked, kept>>

\* fetch_token: a code becomes a token with the scopes asked for, or fails; a
\* cancelled consent fails, and so does whatever else a terminal was sent.
Exchange(a) ==
  /\ actor[a].at = "exchange"
  /\ \/ /\ redirect[a] = "code" /\ spent.consents < MaxConsents
        /\ actor' = [actor EXCEPT ![a].at = "open", ![a].consented = TRUE,
                       ![a].hand = [is |-> "token", grant |-> spent.consents + 1, fresh |-> TRUE,
                                    scopes |-> scopes_for(readonly(a))]]
        /\ Spend("consents")
     \/ /\ Answered(a, "error")
        /\ UNCHANGED spent
  /\ UNCHANGED <<disk, redirect, revoked, kept>>

Target(a) == IF actor[a].consented THEN ConsentPath(a) ELSE Cache(a)

\* _write_token, first half: O_TRUNC empties the file.
OpenToken(a) ==
  /\ actor[a].at = "open"
  /\ Goes(a, "write")
  /\ disk' = [disk EXCEPT ![Target(a)] = No("empty")]
  /\ UNCHANGED <<redirect, revoked, kept, spent>>

\* ... second half.  If somebody else has written since, the two texts overlap
\* and a longer one leaves its tail behind.
Settles(a) ==
  CASE actor[a].consented -> Answered(a, "authorized")
    [] a \in Logins /\ actor[a].asked -> Answered(a, "authorized")
    [] OTHER -> HasCredential(a, actor[a].hand)

Landing(a) ==
  {actor[a].hand} \cup (IF disk[Target(a)].is = "empty" THEN {} ELSE {No("garbled")})

Refreshing(b) == actor[b].at \in {"refresh", "open", "write"} /\ ~actor[b].consented

WriteToken(a) ==
  /\ actor[a].at = "write"
  /\ \E text \in Landing(a) : disk' = [disk EXCEPT ![Target(a)] = text]
  /\ kept' = IF actor[a].consented
               THEN [kept EXCEPT ![token_path_for(readonly(a))] =
                       [grant |-> actor[a].hand.grant,
                        racing |-> {b \in Actors : Refreshing(b) /\ Cache(b) = Target(a)}]]
               ELSE kept
  /\ Settles(a)
  /\ UNCHANGED <<redirect, revoked, spent>>

ready_unless_raised(a) ==
  /\ actor[a].at = "call"
  /\ CASE a \in Tools ->
            Answered(a, IF actor[a].hand.grant \in revoked THEN "rejected" ELSE "acted")
       [] OTHER -> Concludes(a, "ready")
  /\ UNCHANGED <<disk, redirect, revoked, kept, spent>>

\* Had a call kept the renewed credential as a login does.
call_and_save(a) ==
  /\ actor[a].at = "call"
  /\ CASE a \in Tools ->
            Answered(a, IF actor[a].hand.grant \in revoked THEN "rejected" ELSE "acted")
       [] OTHER -> Concludes(a, "ready")
  /\ disk' = [disk EXCEPT ![Cache(a)] = actor[a].hand]
  /\ UNCHANGED <<redirect, revoked, kept, spent>>

\* A call to Google with the credential in hand: whoami for auth_status.  A
\* library client renews an expired access token by itself, in memory only.
\* A status thread gets an answer, a refusal, or no answer worth the name.
CallGoogle(a) ==
  /\ actor[a].at = "call"
  /\ CASE a \in Tools ->
            Answered(a, IF actor[a].hand.grant \in revoked THEN "rejected" ELSE "acted")
       [] OTHER ->
            \/ Concludes(a, IF actor[a].hand.grant \in revoked
                              THEN "credential_rejected" ELSE "ready")
            \/ Concludes(a, "cached")
  /\ UNCHANGED <<disk, redirect, revoked, kept, spent>>

-----------------------------------------------------------------------------
(* The environment. *)

\* Time passes: the access token in a file expires.
Expire(path) ==
  /\ spent.expiries < MaxExpiries
  /\ HasToken(path) /\ disk[path].fresh
  /\ disk' = [disk EXCEPT ![path].fresh = FALSE]
  /\ Spend("expiries")
  /\ UNCHANGED <<actor, redirect, revoked, kept>>

\* Somebody withdraws a grant at Google.
Revoke(g) ==
  /\ spent.revocations < MaxRevocations
  /\ g \notin revoked /\ g <= spent.consents
  /\ revoked' = revoked \cup {g}
  /\ Spend("revocations")
  /\ UNCHANGED <<disk, actor, redirect, kept>>

\* The file cannot be opened, or the disk fills up: an OSError, which no
\* caller expects; auth_status files it under "could not be checked".
WriteFails(a) ==
  /\ actor[a].at \in {"open", "write"} /\ spent.faults < MaxFaults
  /\ Concludes(a, IF a \in Statuses THEN "cached" ELSE "error")
  /\ Spend("faults")
  /\ UNCHANGED <<disk, redirect, revoked, kept>>

\* A process dies with everything it holds; its threads start afresh.
Crash(p) ==
  /\ spent.faults < MaxFaults
  /\ \E a \in Actors : Process[a] = p /\ actor[a].at # "idle"
  /\ actor' = [a \in Actors |-> IF Process[a] = p THEN Idle ELSE actor[a]]
  /\ Spend("faults")
  /\ UNCHANGED <<disk, redirect, revoked, kept>>

-----------------------------------------------------------------------------
Init ==
  /\ disk \in {d \in [Files -> OldTokens \cup {None}] :
                 \A f \in Files : f[2] = "cwd" => d[f] = None}
  /\ actor = [a \in Actors |-> Idle]
  /\ redirect = [a \in Actors |-> "none"]
  /\ revoked = {}
  /\ kept = [c \in {"rw", "ro"} |-> [grant |-> 0, racing |-> {}]]
  /\ spent = [consents |-> 0, expiries |-> 0, revocations |-> 0, faults |-> 0, calls |-> 0]

\* What the code does by itself once started.
Runs(a) ==
  \/ LoadCached(a) \/ Reload(a) \/ Refresh(a) \/ WaitOver(a) \/ Exchange(a)
  \/ OpenToken(a) \/ WriteToken(a) \/ CallGoogle(a)

Next ==
  \/ \E a \in Actors :
       \/ CallTool(a) \/ StatusTimeout(a) \/ Elicit(a)
       \/ \E retired \in BOOLEAN : AskStatus(a, retired)
       \/ \E force \in BOOLEAN : BeginConsent(a, force)
       \/ \E request \in {"stray", "code", "cancel"} : Hear(a, request)
       \/ Runs(a) \/ WriteFails(a)
  \/ \E path \in Files : Expire(path)
  \/ \E g \in 0..MaxConsents : Revoke(g)
  \/ \E p \in {Process[a] : a \in Actors} : Crash(p)

Spec == Init /\ [][Next]_vars

\* Threads that are past their network calls are scheduled, and both waits end.
\* Nothing makes Google, a user or a client answer.
Fairness ==
  \A a \in Actors :
    /\ WF_vars(LoadCached(a) \/ Reload(a) \/ OpenToken(a) \/ WriteToken(a))
    /\ WF_vars(WaitOver(a))
    /\ WF_vars(StatusTimeout(a))

FairSpec == Spec /\ Fairness

=============================================================================
